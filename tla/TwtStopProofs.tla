--------------------------- MODULE TwtStopProofs ----------------------------
(* The stops that rest at the broker are the ones a TWT position names, and *)
(* sell what it holds, for every plan, every quantity and every number of   *)
(* faults, when the plan's date names today's session row: confirms and     *)
(* reports then hold the same row.  (With an earlier date the run TwtRows   *)
(* shows that they do not.)                                                 *)
EXTENDS TwtBookProofs

(* Under one session row a confirm, a chore and a report that is being applied exclude each other; *)
(* the pass may at most have read a report.                                                        *)
Alone ==
  /\ WebOp.pc # "free" /\ WebOp.of # "rearm" => lock["today"] = "web"
  /\ PassOp.pc \notin {"free", "read"} => lock["today"] = "pass"
  /\ WebOp.of = "rearm" => PassOp.pc = "free"

(* What a handler's copy still has in common with the committed position. *)
WebHolds(o) ==
  /\ o.pc \in {"place", "cancel", "arm"} => o.cols = {} /\ o.pos = pos /\ o.new = 0
  /\ o.pc \in {"free", "place", "cancel"} => o.new = 0 /\ o.moved = 0
  /\ o.pc = "arm" => o.moved = pos.gtt /\ (o.of \notin Raises => pos.gtt = 0)
PassHolds(o) ==
  /\ o.pc # "commit" => o.new = 0 /\ o.moved = 0
  /\ o.pc \in {"cancel", "arm", "resize"} => o.pos.gtt = pos.gtt /\ "open" \in o.cols
  /\ o.pc = "arm" => pos.gtt = 0

(* Outside the set s, what rests is trigger g, and it sells n. *)
Match(g, n, s) ==
  /\ \A i \in Gtts \ s : gtt[i].live => g = i /\ gtt[i].qty = n
  /\ g # 0 /\ g \notin s => gtt[g].live

(* Whoever is at work: nothing rests when it arms, what rests is what it will commit, and if it  *)
(* dies what rests is what was committed, but for what it armed and moved.                       *)
Matched(o) ==
  /\ o.pc = "arm" => \A i \in Gtts \ stray : ~gtt[i].live
  /\ o.pc = "commit" => Match(Merged(o).gtt, Merged(o).open, stray)
  /\ Match(pos.gtt, pos.open, stray \cup {o.new, o.moved})

Worker == IF WebOp.pc # "free" THEN WebOp ELSE PassOp

StopsInv ==
  BookInv /\ Alone /\ WebHolds(WebOp) /\ PassHolds(PassOp) /\ Matched(Worker)

-----------------------------------------------------------------------------
LEMMA StopFacts ==
  ASSUME StopsInv
  PROVE  /\ BookInv /\ OpsOK /\ RestOK /\ WebOp \in Op /\ PassOp \in Op
         /\ op["web"] = WebOp /\ op["pass"] = PassOp /\ pos \in Position
         /\ "web" \in Procs /\ "pass" \in Procs /\ "today" \in Rows
         /\ \A i \in Gtts : i # 0
         /\ WebOp.pc # "free" => PassOp.pc \in {"free", "read"}
         /\ PassOp.pc \notin {"free", "read"} => WebOp.pc = "free"
         /\ WebOp.pc = "free" => WebOp = NoOp
<1>1. /\ BookInv /\ OpsOK /\ RestOK /\ WebOp \in Op /\ PassOp \in Op /\ pos \in Position
  BY Typed DEF StopsInv
<1>2. op["web"] = WebOp /\ op["pass"] = PassOp /\ "web" \in Procs /\ "pass" \in Procs /\ "today" \in Rows
  BY DEF WebOp, PassOp, Procs, Rows
<1>3. WebOp.pc = "free" => WebOp = NoOp
  BY <1>1, <1>2 DEF BookInv, Shapes
<1>4. WebOp.pc # "free" => PassOp.pc \in {"free", "read"}
  BY DEF StopsInv, Alone
<1>5. \A i \in Gtts : i # 0
  BY TwtAssumption DEF Gtts
<1> QED
  BY <1>1, <1>2, <1>3, <1>4, <1>5

\* A process with nothing armed and nothing moved: what was committed is matched.
LEMMA MatchZero ==
  ASSUME NEW g, NEW n, NEW s
  PROVE  Match(g, n, s \cup {0, 0}) <=> Match(g, n, s)
  BY TwtAssumption DEF Match, Gtts

\* Nothing rests for a position that names no trigger.
LEMMA MatchNone ==
  ASSUME NEW n, NEW s
  PROVE  Match(0, n, s) <=> \A i \in Gtts \ s : ~gtt[i].live
  BY TwtAssumption DEF Match, Gtts

\* A wider set of exceptions matches what a narrower one does.
LEMMA MatchWider ==
  ASSUME NEW g, NEW n, NEW s, NEW t, s \subseteq t, Match(g, n, s)
  PROVE  Match(g, n, t)
  BY DEF Match

LEMMA NoOpMatched ==
  Match(pos.gtt, pos.open, stray) => Matched(NoOp) /\ WebHolds(NoOp) /\ PassHolds(NoOp)
<1>1. NoOp.pc = "free" /\ NoOp.new = 0 /\ NoOp.moved = 0
  BY DEF NoOp
<1> QED
  BY <1>1, MatchZero DEF Matched, WebHolds, PassHolds

\* When nobody is past reading, the committed position is matched.
LEMMA MatchedIdle ==
  ASSUME StopsInv, WebOp.pc = "free", PassOp.pc \in {"free", "read"}
  PROVE  Match(pos.gtt, pos.open, stray)
<1>1. Worker = PassOp /\ PassOp.new = 0 /\ PassOp.moved = 0
  BY DEF StopsInv, Worker, PassHolds
<1> QED
  BY <1>1, MatchZero DEF StopsInv, Matched

-----------------------------------------------------------------------------
\* A step of the web process, the committed position as it was.
LEMMA WebTurn ==
  ASSUME StopsInv, BookInv', NEW x \in Op, op' = [op EXCEPT !["web"] = x], x.pc # "free",
         pos' = pos, PassOp.pc \in {"free", "read"},
         x.of # "rearm" => lock'["today"] = "web", x.of = "rearm" => PassOp.pc = "free",
         WebHolds(x), Matched(x)'
  PROVE  StopsInv'
<1>1. WebOp' = x /\ PassOp' = PassOp
  BY StopFacts, OpStep
<1>2. Worker' = x
  BY <1>1 DEF Worker
<1>3. Matched(Worker)'
  BY <1>2 DEF Matched, Merged
<1>4. Alone'
  BY <1>1 DEF Alone
<1>5. WebHolds(WebOp)' /\ PassHolds(PassOp)'
  BY <1>1 DEF StopsInv, WebHolds, PassHolds
<1> QED
  BY <1>3, <1>4, <1>5 DEF StopsInv

\* A step of the pass past reading, the committed position as it was.
LEMMA PassTurn ==
  ASSUME StopsInv, BookInv', NEW x \in Op, op' = [op EXCEPT !["pass"] = x],
         pos' = pos, WebOp.pc = "free", lock'["today"] = "pass",
         PassHolds(x), Matched(x)'
  PROVE  StopsInv'
<1>0. WebOp.of # "rearm"
  BY StopFacts DEF NoOp
<1>1. WebOp' = WebOp /\ PassOp' = x /\ WebOp.of # "rearm"
  BY <1>0, StopFacts, OpStep
<1>2. Worker' = x
  BY <1>1 DEF Worker
<1>3. Matched(Worker)'
  BY <1>2 DEF Matched, Merged
<1>4. Alone'
  BY <1>1 DEF Alone
<1>5. WebHolds(WebOp)' /\ PassHolds(PassOp)'
  BY <1>1 DEF StopsInv, WebHolds, PassHolds
<1> QED
  BY <1>3, <1>4, <1>5 DEF StopsInv

\* A step that leaves the stops, the position and both handlers alone.
LEMMA NobodyTurns ==
  ASSUME StopsInv, BookInv', UNCHANGED <<op, pos, lock, gtt, stray>>
  PROVE  StopsInv'
<1>1. WebOp' = WebOp /\ PassOp' = PassOp /\ Worker' = Worker
  BY DEF WebOp, PassOp, Worker
<1>2. Alone' /\ WebHolds(WebOp)' /\ PassHolds(PassOp)'
  BY <1>1 DEF StopsInv, Alone, WebHolds, PassHolds
<1>3. Matched(Worker)'
  BY <1>1 DEF StopsInv, Matched, Match, Merged
<1> QED
  BY <1>2, <1>3 DEF StopsInv

-----------------------------------------------------------------------------
LEMMA ConfirmStops ==
  ASSUME PlanRow = "today", StopsInv, BookInv', NEW l \in Lines, Confirm(l)
  PROVE  StopsInv'
<1> PICK c : c = CASE l \in Orders -> "place" [] l \in Raises /\ pos.gtt # 0 -> "cancel" [] OTHER -> "arm"
  OBVIOUS
<1> PICK x : x = [NoOp EXCEPT !.of = l, !.pos = pos, !.pc = c]
  OBVIOUS
<1>0. c \in {"place", "cancel", "arm"}
  OBVIOUS
<1>1. /\ op' = [op EXCEPT !["web"] = x] /\ UNCHANGED <<pos, gtt, stray>> /\ Admits(l)
      /\ WebOp.pc = "free" /\ lock["today"] = "none" /\ lock' = [lock EXCEPT !["today"] = "web"]
  BY DEF Confirm, broker, WebOp
<1>2. x.of = l /\ x.pos = pos /\ x.cols = {} /\ x.pc = c /\ x.new = 0 /\ x.moved = 0
  BY DEF NoOp
<1>3. x \in Op
  <2>1. l \in Lines \cup {"none", "rearm"} /\ pos \in Position /\ NoOp \in Op
    BY StopFacts, NoOpTyped
  <2> QED
    BY <1>0, <2>1 DEF Op
<1>4. PassOp.pc \in {"free", "read"} /\ l # "rearm" /\ lock'["today"] = "web"
  BY <1>1, StopFacts, Constants DEF StopsInv, Alone, RestOK
<1>5. Match(pos.gtt, pos.open, stray)
  BY <1>1, <1>4, MatchedIdle
<1>6. c = "arm" => pos.gtt = 0
  BY <1>1, Constants DEF Admits
<1>7. WebHolds(x)
  BY <1>2, <1>6 DEF WebHolds
<1>8. Matched(x)
  <2>1. c = "arm" => \A i \in Gtts \ stray : ~gtt[i].live
    BY <1>5, <1>6, MatchNone
  <2> QED
    BY <1>0, <1>2, <1>5, <2>1, MatchZero DEF Matched
<1>9. Matched(x)'
  BY <1>1, <1>8 DEF Matched, Match, Merged
<1> QED
  BY <1>0, <1>1, <1>2, <1>3, <1>4, <1>7, <1>9, WebTurn

LEMMA PlaceStops ==
  ASSUME StopsInv, BookInv', NEW o \in Orders, Place(o)
  PROVE  StopsInv'
<1>1. /\ UNCHANGED <<pos, gtt, stray, lock>> /\ WebOp.pc = "place" /\ WebOp.of = o
  BY DEF Place, WebOp
<1>2. PICK l \in {"SENT", "REJECTED"}, r \in OrderRow : op' = [op EXCEPT !["web"] = Ends(WebOp, l, r)]
  <2>1. [NoRow EXCEPT !.state = "SENT"] \in OrderRow /\ NoRow \in OrderRow
    BY NoOpTyped DEF NoRow, OrderRow
  <2> QED
    BY <2>1, StopFacts DEF Place, OpsOK
<1> PICK x : x = Ends(WebOp, l, r)
  OBVIOUS
<1>3. /\ x \in Op /\ x.of = o /\ x.pc = "commit" /\ x.cols = WebOp.cols
      /\ x.new = WebOp.new /\ x.moved = WebOp.moved
  BY <1>1, StopFacts DEF Ends, Op
<1>4. WebOp.cols = {} /\ WebOp.new = 0 /\ WebOp.moved = 0 /\ Worker = WebOp
  BY <1>1 DEF StopsInv, WebHolds, Worker
<1>5. Match(pos.gtt, pos.open, stray)
  BY <1>4, MatchZero DEF StopsInv, Matched
<1>6. Merged(x) = pos
  BY <1>3, <1>4, StopFacts, MergedNothing
<1>7. Matched(x)
  BY <1>3, <1>4, <1>5, <1>6, MatchZero DEF Matched
<1>8. Matched(x)'
  BY <1>1, <1>7 DEF Matched, Match, Merged
<1>9. WebHolds(x)
  BY <1>3 DEF WebHolds
<1>10. o # "rearm" /\ lock["today"] = "web" /\ PassOp.pc \in {"free", "read"}
  BY <1>1, Constants, StopFacts DEF StopsInv, Alone
<1>11. op' = [op EXCEPT !["web"] = x]
  BY <1>2
<1> QED
  BY <1>1, <1>3, <1>8, <1>9, <1>10, <1>11, WebTurn

\* What a cancel of the trigger the position names leaves at the broker.
LEMMA CancelMatch ==
  ASSUME RestOK, NEW p \in Procs, NEW i \in Gtts, op[p].pos.gtt = i, NEW n, Match(i, n, stray)
  PROVE  /\ Deleted(p) => stray' = stray /\ \A j \in Gtts \ stray : ~gtt'[j].live
         /\ NotDeleted(p) => \A m : Match(i, m, stray)'
<1>0. gtt \in [Gtts -> [live : BOOLEAN, qty : 0 .. BuyQty, level : Levels]]
  BY DEF RestOK
<1>1. ASSUME Deleted(p) PROVE stray' = stray /\ \A j \in Gtts \ stray : ~gtt'[j].live
  <2>1. stray' = stray /\ gtt' = [gtt EXCEPT ![i].live = FALSE]
    BY <1>1 DEF Deleted
  <2>2. ~gtt'[i].live /\ \A j \in Gtts : j # i => gtt'[j] = gtt[j]
    BY <1>0, <2>1
  <2> QED
    BY <2>1, <2>2 DEF Match
<1>2. ASSUME NotDeleted(p), NEW m PROVE Match(i, m, stray)'
  <2>1. CASE ~gtt[i].live /\ UNCHANGED <<gtt, stray>>
    BY <2>1 DEF Match
  <2>2. CASE stray' = stray \cup {i} /\ \E b \in BOOLEAN : gtt' = [gtt EXCEPT ![i].live = b]
    <3>1. \A j \in Gtts : j # i => gtt'[j] = gtt[j]
      BY <1>0, <2>2
    <3> QED
      BY <2>2, <3>1 DEF Match
  <2> QED
    BY <1>2, <2>1, <2>2 DEF NotDeleted
<1> QED
  BY <1>1, <1>2

LEMMA CancelOldStops ==
  ASSUME StopsInv, BookInv', CancelOld
  PROVE  StopsInv'
<1>1. UNCHANGED <<pos, lock>> /\ WebOp.pc = "cancel"
  BY DEF CancelOld, WebOp
<1>2. /\ WebOp.cols = {} /\ WebOp.pos = pos /\ WebOp.new = 0 /\ WebOp.moved = 0 /\ Worker = WebOp
      /\ WebOp.of \in Raises /\ pos.gtt # 0
  BY <1>1, StopFacts DEF StopsInv, WebHolds, Worker, BookInv, Shapes
<1>3. WebOp.of # "rearm" /\ lock["today"] = "web" /\ PassOp.pc \in {"free", "read"}
  BY <1>1, <1>2, Constants, StopFacts DEF StopsInv, Alone
<1>4. PICK i \in Gtts : i = pos.gtt
  BY <1>2, StopFacts DEF Position
<1>5. PICK n : n = pos.open
  OBVIOUS
<1>6. Match(i, n, stray)
  BY <1>2, <1>4, <1>5, MatchZero DEF StopsInv, Matched
<1>7. op["web"].pos.gtt = i /\ RestOK
  BY <1>2, <1>4, StopFacts
<1>8. CASE Deleted("web") /\ op' = [op EXCEPT !["web"].pc = "arm", !["web"].moved = op["web"].pos.gtt]
  <2> PICK x : x = [WebOp EXCEPT !.pc = "arm", !.moved = i]
    OBVIOUS
  <2>1. op' = [op EXCEPT !["web"] = x]
    BY <1>7, <1>8, StopFacts DEF OpsOK
  <2>2. /\ x \in Op /\ x.pc = "arm" /\ x.of = WebOp.of /\ x.cols = {} /\ x.pos = pos
        /\ x.new = 0 /\ x.moved = i
    BY <1>2, StopFacts DEF Op
  <2>3. stray' = stray /\ \A j \in Gtts \ stray : ~gtt'[j].live
    BY <1>6, <1>7, <1>8, CancelMatch, StopFacts
  <2>4. Matched(x)'
    BY <1>1, <1>4, <2>2, <2>3 DEF Matched, Match
  <2>5. WebHolds(x)
    BY <1>2, <1>4, <2>2 DEF WebHolds
  <2> QED
    BY <1>1, <1>3, <2>1, <2>2, <2>4, <2>5, WebTurn
<1>9. CASE NotDeleted("web") /\ op' = [op EXCEPT !["web"] = Ends(@, "REJECTED", NoRow)]
  <2> PICK x : x = Ends(WebOp, "REJECTED", NoRow)
    OBVIOUS
  <2>1. op' = [op EXCEPT !["web"] = x]
    BY <1>9, StopFacts DEF OpsOK
  <2>2. /\ x \in Op /\ x.pc = "commit" /\ x.of = WebOp.of /\ x.cols = {}
        /\ x.new = 0 /\ x.moved = 0
    BY <1>2, StopFacts, NoOpTyped DEF Ends, Op
  <2>3. Match(i, n, stray)'
    BY <1>6, <1>7, <1>9, CancelMatch, StopFacts
  <2>4. Merged(x)' = pos'
    <3>1. Merged(x) = pos
      BY <2>2, StopFacts, MergedNothing
    <3> QED
      BY <1>1, <3>1 DEF Merged
  <2>5. Match(i, n, stray \cup {0, 0})'
    BY <2>3, MatchZero DEF Match
  <2>6. Matched(x)'
    BY <1>1, <1>4, <1>5, <2>2, <2>3, <2>4, <2>5 DEF Matched
  <2>7. WebHolds(x)
    BY <2>2 DEF WebHolds
  <2> QED
    BY <1>1, <1>3, <2>1, <2>2, <2>6, <2>7, WebTurn
<1> QED
  BY <1>8, <1>9 DEF CancelOld

LEMMA RearmStops ==
  ASSUME StopsInv, BookInv', Rearm
  PROVE  StopsInv'
<1> PICK x : x = [NoOp EXCEPT !.pc = "arm", !.of = "rearm", !.pos = pos]
  OBVIOUS
<1>1. /\ op' = [op EXCEPT !["web"] = x] /\ UNCHANGED <<pos, lock, gtt, stray>> /\ pos.gtt = 0
      /\ WebOp.pc = "free" /\ PassOp.pc = "free"
  BY DEF Rearm, broker, WebOp, PassOp
<1>2. x.of = "rearm" /\ x.pos = pos /\ x.cols = {} /\ x.pc = "arm" /\ x.new = 0 /\ x.moved = 0
  BY DEF NoOp
<1>3. x \in Op
  BY StopFacts, NoOpTyped DEF Op
<1>4. Match(pos.gtt, pos.open, stray)
  BY <1>1, MatchedIdle
<1>5. \A i \in Gtts \ stray : ~gtt[i].live
  BY <1>1, <1>4, MatchNone
<1>6. Matched(x)
  BY <1>2, <1>4, <1>5, MatchZero DEF Matched
<1>7. Matched(x)'
  BY <1>1, <1>6 DEF Matched, Match, Merged
<1>8. WebHolds(x)
  BY <1>1, <1>2 DEF WebHolds
<1> QED
  BY <1>1, <1>2, <1>3, <1>7, <1>8, WebTurn

\* What an attempt to arm leaves at the broker when nothing rested there.
LEMMA ArmMatch ==
  ASSUME BookInv, NEW p \in Procs, Arm(p), NEW n, op[p].pos.open = n,
         \A j \in Gtts \ stray : ~gtt[j].live
  PROVE  \/ /\ op' = [op EXCEPT ![p] = NotArmed(p)]
            /\ \A j \in Gtts \ stray' : ~gtt'[j].live
         \/ \E i \in Gtts :
              /\ op' = [op EXCEPT ![p] = ArmedWith(p, i)] /\ stray' = stray
              /\ gtt'[i].live /\ gtt'[i].qty = n
              /\ \A j \in Gtts \ (stray \cup {i}) : ~gtt'[j].live
<1>0. /\ gtt \in [Gtts -> [live : BOOLEAN, qty : 0 .. BuyQty, level : Levels]]
      /\ (armed < MaxGtts => armed + 1 \in Gtts)
  BY Typed, TwtAssumption DEF RestOK, Gtts
<1>1. PICK i : i = armed + 1
  OBVIOUS
<1>2. ASSUME armed < MaxGtts, Rests(p, armed + 1)
      PROVE  /\ i \in Gtts /\ gtt'[i].live /\ gtt'[i].qty = n
             /\ \A j \in Gtts : j # i => gtt'[j] = gtt[j]
  BY <1>0, <1>1, <1>2 DEF Rests
<1>3. CASE /\ armed < MaxGtts /\ Rests(p, armed + 1) /\ stray' = stray
           /\ op' = [op EXCEPT ![p] = ArmedWith(p, armed + 1)]
  BY <1>1, <1>2, <1>3
<1>4. CASE /\ armed < MaxGtts /\ Rests(p, armed + 1) /\ stray' = stray \cup {armed + 1}
           /\ op' = [op EXCEPT ![p] = NotArmed(p)]
  BY <1>1, <1>2, <1>4
<1>5. CASE UNCHANGED <<gtt, stray>> /\ op' = [op EXCEPT ![p] = NotArmed(p)]
  BY <1>5
<1> QED
  BY <1>3, <1>4, <1>5 DEF Arm

LEMMA WebArmStops ==
  ASSUME StopsInv, BookInv', Arm("web")
  PROVE  StopsInv'
<1>1. UNCHANGED <<pos, lock>> /\ WebOp.pc = "arm"
  BY DEF Arm, WebOp
<1>2. /\ WebOp.cols = {} /\ WebOp.pos = pos /\ WebOp.new = 0 /\ WebOp.moved = pos.gtt /\ Worker = WebOp
      /\ (WebOp.of \notin Raises => pos.gtt = 0)
      /\ \A j \in Gtts \ stray : ~gtt[j].live
  BY <1>1 DEF StopsInv, WebHolds, Worker, Matched
<1>3. /\ WebOp.of # "rearm" => lock["today"] = "web"
      /\ WebOp.of = "rearm" => PassOp.pc = "free"
      /\ PassOp.pc \in {"free", "read"}
  BY <1>1, StopFacts DEF StopsInv, Alone
<1>4. PICK n : n = pos.open
  OBVIOUS
<1>5. CASE op' = [op EXCEPT !["web"] = NotArmed("web")] /\ \A j \in Gtts \ stray' : ~gtt'[j].live
  <2> PICK x : x = NotArmed("web")
    OBVIOUS
  <2>1. /\ x \in Op /\ x.pc = "commit" /\ x.of = WebOp.of
        /\ x.cols = WebOp.cols \cup (IF WebOp.of \in Raises THEN {"stop", "gtt", "trig"} ELSE {})
        /\ x.new = WebOp.new /\ x.moved = WebOp.moved
        /\ WebOp.of \notin Raises => x.pos = WebOp.pos
        /\ WebOp.of \in Raises => x.pos.gtt = 0
    BY <1>1, StopFacts, NotArmedMoves
  <2>2. Merged(x).gtt = 0
    <3>1. Merged(x).gtt = IF "gtt" \in x.cols THEN x.pos.gtt ELSE pos.gtt
      BY <2>1, StopFacts, MergedTyped
    <3> QED
      BY <1>2, <2>1, <3>1
  <2>3. Merged(x)' = Merged(x)
    BY <1>1 DEF Merged
  <2>4. Matched(x)'
    BY <1>1, <1>2, <1>5, <2>1, <2>2, <2>3, StopFacts DEF Matched, Match
  <2>5. WebHolds(x)
    BY <2>1 DEF WebHolds
  <2> QED
    BY <1>1, <1>3, <1>5, <2>1, <2>4, <2>5, WebTurn
<1>6. CASE \E i \in Gtts :
              /\ op' = [op EXCEPT !["web"] = ArmedWith("web", i)] /\ stray' = stray
              /\ gtt'[i].live /\ gtt'[i].qty = n
              /\ \A j \in Gtts \ (stray \cup {i}) : ~gtt'[j].live
  <2>1. PICK i \in Gtts :
              /\ op' = [op EXCEPT !["web"] = ArmedWith("web", i)] /\ stray' = stray
              /\ gtt'[i].live /\ gtt'[i].qty = n
              /\ \A j \in Gtts \ (stray \cup {i}) : ~gtt'[j].live
    BY <1>6
  <2> PICK x : x = ArmedWith("web", i)
    OBVIOUS
  <2>2. /\ x \in Op /\ x.pc = "commit" /\ x.of = WebOp.of
        /\ x.cols = WebOp.cols \cup {"gtt", "trig"} \cup (IF WebOp.of \in Raises THEN {"stop"} ELSE {})
        /\ x.new = i /\ x.moved = WebOp.moved /\ x.pos.gtt = i
    BY <1>1, StopFacts, ArmedMoves
  <2>3. "gtt" \in x.cols /\ "open" \notin x.cols
    BY <1>2, <2>2
  <2>4. Merged(x).gtt = i /\ Merged(x).open = n
    BY <1>4, <2>2, <2>3, StopFacts, MergedTyped
  <2>5. Merged(x)' = Merged(x)
    BY <1>1 DEF Merged
  <2>6. Matched(x)'
    BY <1>1, <1>2, <1>4, <2>1, <2>2, <2>4, <2>5, StopFacts DEF Matched, Match
  <2>7. WebHolds(x)
    BY <2>2 DEF WebHolds
  <2> QED
    BY <1>1, <1>3, <2>1, <2>2, <2>6, <2>7, WebTurn
<1> QED
  BY <1>2, <1>4, <1>5, <1>6, StopFacts, ArmMatch

LEMMA PassArmStops ==
  ASSUME StopsInv, BookInv', Arm("pass")
  PROVE  StopsInv'
<1>1. UNCHANGED <<pos, lock>> /\ PassOp.pc = "arm"
  BY DEF Arm, PassOp
<1>2. /\ WebOp.pc = "free" /\ Worker = PassOp /\ lock["today"] = "pass"
      /\ PassOp.pos.gtt = 0 /\ pos.gtt = 0 /\ "open" \in PassOp.cols /\ PassOp.new = 0 /\ PassOp.moved = 0
      /\ \A j \in Gtts \ stray : ~gtt[j].live
  BY <1>1, StopFacts DEF StopsInv, PassHolds, Worker, Matched, Alone
<1>3. PassOp.of \notin Raises
  BY <1>1, StopFacts, Constants DEF BookInv, Shapes
<1>4. PICK n : n = PassOp.pos.open
  OBVIOUS
<1>5. CASE op' = [op EXCEPT !["pass"] = NotArmed("pass")] /\ \A j \in Gtts \ stray' : ~gtt'[j].live
  <2> PICK x : x = NotArmed("pass")
    OBVIOUS
  <2>1. /\ x \in Op /\ x.pc = "commit" /\ x.new = 0 /\ x.moved = 0 /\ x.pos = PassOp.pos
    BY <1>1, <1>2, <1>3, StopFacts, NotArmedMoves
  <2>2. Merged(x).gtt = 0
    BY <1>2, <2>1, StopFacts, MergedTyped
  <2>3. Merged(x)' = Merged(x)
    BY <1>1 DEF Merged
  <2>4. Matched(x)'
    BY <1>1, <1>2, <1>5, <2>1, <2>2, <2>3, StopFacts DEF Matched, Match
  <2>5. PassHolds(x)
    BY <2>1 DEF PassHolds
  <2> QED
    BY <1>1, <1>2, <1>5, <2>1, <2>4, <2>5, PassTurn
<1>6. CASE \E i \in Gtts :
              /\ op' = [op EXCEPT !["pass"] = ArmedWith("pass", i)] /\ stray' = stray
              /\ gtt'[i].live /\ gtt'[i].qty = n
              /\ \A j \in Gtts \ (stray \cup {i}) : ~gtt'[j].live
  <2>1. PICK i \in Gtts :
              /\ op' = [op EXCEPT !["pass"] = ArmedWith("pass", i)] /\ stray' = stray
              /\ gtt'[i].live /\ gtt'[i].qty = n
              /\ \A j \in Gtts \ (stray \cup {i}) : ~gtt'[j].live
    BY <1>6
  <2> PICK x : x = ArmedWith("pass", i)
    OBVIOUS
  <2>2. /\ x \in Op /\ x.pc = "commit"
        /\ x.cols = PassOp.cols \cup {"gtt", "trig"} \cup (IF PassOp.of \in Raises THEN {"stop"} ELSE {})
        /\ x.new = i /\ x.moved = 0 /\ x.pos.gtt = i /\ x.pos.open = n
    BY <1>1, <1>2, <1>4, StopFacts, ArmedMoves
  <2>3. "gtt" \in x.cols /\ "open" \in x.cols
    BY <1>2, <2>2
  <2>4. Merged(x).gtt = i /\ Merged(x).open = n
    BY <2>2, <2>3, StopFacts, MergedTyped
  <2>5. Merged(x)' = Merged(x)
    BY <1>1 DEF Merged
  <2>6. Matched(x)'
    BY <1>1, <1>2, <2>1, <2>2, <2>4, <2>5, StopFacts DEF Matched, Match
  <2>7. PassHolds(x)
    BY <2>2 DEF PassHolds
  <2> QED
    BY <1>1, <1>2, <2>1, <2>2, <2>6, <2>7, PassTurn
<1> QED
  BY <1>2, <1>4, <1>5, <1>6, StopFacts, ArmMatch

-----------------------------------------------------------------------------
LEMMA ReadReportStops ==
  ASSUME StopsInv, BookInv', NEW o \in Orders, ReadReport(o)
  PROVE  StopsInv'
<1> PICK x : x = [NoOp EXCEPT !.pc = "read", !.of = o, !.report = ord[o], !.was = row[o]]
  OBVIOUS
<1>1. /\ op' = [op EXCEPT !["pass"] = x] /\ UNCHANGED <<pos, lock, gtt, stray>>
      /\ PassOp.pc = "free" /\ WebOp.of # "rearm"
  BY DEF ReadReport, broker, PassOp, WebOp
<1>2. x.pc = "read" /\ x.new = 0 /\ x.moved = 0
  BY DEF NoOp
<1>3. WebOp' = WebOp /\ PassOp' = x
  BY <1>1, StopFacts DEF OpsOK, WebOp, PassOp
<1>4. Alone' /\ WebHolds(WebOp)' /\ PassHolds(PassOp)'
  BY <1>1, <1>2, <1>3 DEF StopsInv, Alone, WebHolds, PassHolds
<1>5. Matched(Worker)'
  <2>1. CASE WebOp.pc # "free"
    <3>1. Worker' = WebOp /\ Worker = WebOp
      BY <1>3, <2>1 DEF Worker
    <3> QED
      BY <1>1, <1>3, <3>1 DEF StopsInv, Matched, Match, Merged
  <2>2. CASE WebOp.pc = "free"
    <3>1. Match(pos.gtt, pos.open, stray)
      BY <1>1, <2>2, MatchedIdle
    <3>2. Matched(x)
      BY <1>2, <3>1, MatchZero DEF Matched
    <3>3. Worker' = x
      BY <1>3, <2>2 DEF Worker
    <3> QED
      BY <1>1, <1>2, <3>2, <3>3 DEF Matched, Match
  <2> QED
    BY <2>1, <2>2
<1> QED
  BY <1>4, <1>5 DEF StopsInv

\* A report is applied only when nobody else is at work.
LEMMA ApplyAlone ==
  ASSUME StopsInv, PassOp.pc = "read", lock["today"] = "none"
  PROVE  WebOp.pc = "free" /\ Match(pos.gtt, pos.open, stray) /\ PassOp.new = 0 /\ PassOp.moved = 0
<1>1. WebOp.pc = "free"
  BY DEF StopsInv, Alone
<1> QED
  BY <1>1, MatchedIdle DEF StopsInv, PassHolds

LEMMA ApplyBuyStops ==
  ASSUME StopsInv, BookInv', ApplyBuy
  PROVE  StopsInv'
<1>1. /\ PassOp.pc = "read" /\ lock["today"] = "none" /\ lock' = [lock EXCEPT !["today"] = "pass"]
      /\ UNCHANGED <<pos, gtt, stray>>
  BY StopFacts, BuyMoves
<1>2. PICK x \in Op :
        /\ op' = [op EXCEPT !["pass"] = x]
        /\ x.new = PassOp.new /\ x.moved = PassOp.moved
        /\ \/ x.pc = "commit" /\ x.cols = {} /\ x.pos = pos
           \/ /\ x.pc = (IF pos.gtt = 0 THEN "arm" ELSE "resize")
              /\ x.pos.gtt = (IF pos.entered = 0 THEN 0 ELSE pos.gtt)
              /\ x.cols = (IF pos.entered = 0 THEN Columns ELSE {"entered", "open"})
  BY StopFacts, BuyMoves
<1>3. WebOp.pc = "free" /\ Match(pos.gtt, pos.open, stray) /\ x.new = 0 /\ x.moved = 0
  BY <1>1, <1>2, ApplyAlone
<1>4. lock'["today"] = "pass"
  BY <1>1, StopFacts DEF RestOK
<1>5. CASE x.pc = "commit"
  <2>1. Merged(x) = pos
    BY <1>2, <1>5, StopFacts, MergedNothing
  <2>2. Matched(x)
    BY <1>3, <1>5, <2>1, MatchZero DEF Matched
  <2>3. Matched(x)'
    BY <1>1, <2>2 DEF Matched, Match, Merged
  <2>4. PassHolds(x)
    BY <1>5 DEF PassHolds
  <2> QED
    BY <1>1, <1>2, <1>3, <1>4, <2>3, <2>4, PassTurn
<1>6. CASE x.pc # "commit"
  <2>1. /\ x.pc \in {"arm", "resize"} /\ (x.pc = "arm" => pos.gtt = 0) /\ "open" \in x.cols
        /\ x.pos.gtt = pos.gtt
    BY <1>2, <1>6, StopFacts DEF BookInv, Entered, Columns
  <2>2. x.pc = "arm" => \A j \in Gtts \ stray : ~gtt[j].live
    BY <1>3, <2>1, MatchNone
  <2>3. Matched(x)
    BY <1>3, <1>6, <2>2, MatchZero DEF Matched
  <2>4. Matched(x)'
    BY <1>1, <2>3 DEF Matched, Match, Merged
  <2>5. PassHolds(x)
    BY <1>3, <2>1 DEF PassHolds
  <2> QED
    BY <1>1, <1>2, <1>3, <1>4, <2>4, <2>5, PassTurn
<1> QED
  BY <1>5, <1>6

LEMMA ApplySellStops ==
  ASSUME StopsInv, BookInv', ApplySell
  PROVE  StopsInv'
<1>1. /\ PassOp.pc = "read" /\ lock["today"] = "none" /\ lock' = [lock EXCEPT !["today"] = "pass"]
      /\ UNCHANGED <<pos, gtt, stray>>
  BY StopFacts, SellMoves
<1>2. PICK x \in Op :
        /\ op' = [op EXCEPT !["pass"] = x]
        /\ x.new = PassOp.new /\ x.moved = PassOp.moved
        /\ x.pc \in {"commit", "cancel", "resize"}
        /\ x.pos.gtt = pos.gtt /\ (x.pc # "commit" => x.cols # {})
        /\ (x.pc = "commit" /\ x.cols # {} => pos.gtt = 0)
        /\ x.cols \subseteq {"open", "closed"} /\ (x.cols # {} => "open" \in x.cols)
  BY StopFacts, SellMoves
<1>3. WebOp.pc = "free" /\ Match(pos.gtt, pos.open, stray) /\ x.new = 0 /\ x.moved = 0
  BY <1>1, <1>2, ApplyAlone
<1>4. lock'["today"] = "pass"
  BY <1>1, StopFacts DEF RestOK
<1>5. x.pc = "commit" => Match(Merged(x).gtt, Merged(x).open, stray)
  <2>1. CASE x.cols = {}
    <3>1. Merged(x) = pos
      BY <2>1, StopFacts, MergedNothing
    <3> QED
      BY <1>3, <3>1
  <2>2. CASE x.cols # {}
    <3> SUFFICES ASSUME x.pc = "commit" PROVE Match(Merged(x).gtt, Merged(x).open, stray)
      OBVIOUS
    <3>1. pos.gtt = 0 /\ Merged(x).gtt = 0
      BY <1>2, <2>2, StopFacts, MergedTyped
    <3> QED
      BY <1>3, <3>1, MatchNone
  <2> QED
    BY <2>1, <2>2
<1>6. Matched(x)
  BY <1>2, <1>3, <1>5, MatchZero DEF Matched
<1>7. Matched(x)'
  BY <1>1, <1>6 DEF Matched, Match, Merged
<1>8. PassHolds(x)
  BY <1>2, <1>3 DEF PassHolds
<1> QED
  BY <1>1, <1>2, <1>3, <1>4, <1>7, <1>8, PassTurn

LEMMA CancelClosedStops ==
  ASSUME StopsInv, BookInv', CancelClosed
  PROVE  StopsInv'
<1>1. UNCHANGED <<pos, lock>> /\ PassOp.pc = "cancel"
  BY DEF CancelClosed, PassOp
<1>2. /\ WebOp.pc = "free" /\ Worker = PassOp /\ lock["today"] = "pass"
      /\ PassOp.pos.gtt = pos.gtt /\ pos.gtt # 0 /\ "open" \in PassOp.cols /\ PassOp.new = 0 /\ PassOp.moved = 0
  BY <1>1, StopFacts DEF StopsInv, PassHolds, Worker, Alone, BookInv, Shapes
<1>3. PICK i \in Gtts : i = pos.gtt
  BY <1>2, StopFacts DEF Position
<1>4. PICK n : n = pos.open
  OBVIOUS
<1>5. Match(i, n, stray)
  BY <1>2, <1>3, <1>4, MatchZero DEF StopsInv, Matched
<1>6. op["pass"].pos.gtt = i /\ RestOK /\ PassOp \in Op /\ PassOp.pos \in Position
  BY <1>2, <1>3, StopFacts DEF Op
<1>7. CASE /\ Deleted("pass")
           /\ op' = [op EXCEPT !["pass"] =
                [Writes(@, {"gtt", "trig"}, [@.pos EXCEPT !.gtt = 0, !.trig = 0])
                 EXCEPT !.pc = "commit", !.moved = op["pass"].pos.gtt]]
  <2> DEFINE z == [PassOp.pos EXCEPT !.gtt = 0, !.trig = 0]
  <2> PICK x : x = [PassOp EXCEPT !.cols = @ \cup {"gtt", "trig"}, !.pos = z, !.pc = "commit", !.moved = i]
    OBVIOUS
  <2>1. op' = [op EXCEPT !["pass"] = x]
    BY <1>6, <1>7, StopFacts DEF OpsOK, Writes, Op
  <2>2. z \in Position /\ z.gtt = 0
    BY <1>6, Constants DEF Position
  <2> HIDE DEF z
  <2>3. x \in Op /\ x.pc = "commit" /\ x.cols = PassOp.cols \cup {"gtt", "trig"} /\ x.pos = z
        /\ x.new = 0 /\ x.moved = i
    <3>1. PassOp.cols \cup {"gtt", "trig"} \in SUBSET Columns
      BY <1>6 DEF Op, Columns
    <3> QED
      BY <1>2, <1>6, <2>2, <3>1 DEF Op
  <2>4. stray' = stray /\ \A j \in Gtts \ stray : ~gtt'[j].live
    BY <1>5, <1>6, <1>7, CancelMatch, StopFacts
  <2>5. Merged(x).gtt = 0
    BY <2>2, <2>3, StopFacts, MergedTyped
  <2>6. Merged(x)' = Merged(x)
    BY <1>1 DEF Merged
  <2>7. Matched(x)'
    BY <1>1, <1>3, <2>3, <2>4, <2>5, <2>6 DEF Matched, Match
  <2>8. PassHolds(x)
    BY <2>3 DEF PassHolds
  <2> QED
    BY <1>1, <1>2, <2>1, <2>3, <2>7, <2>8, PassTurn
<1>8. CASE NotDeleted("pass") /\ op' = [op EXCEPT !["pass"].pc = "commit"]
  <2> PICK x : x = [PassOp EXCEPT !.pc = "commit"]
    OBVIOUS
  <2>1. op' = [op EXCEPT !["pass"] = x]
    BY <1>8, StopFacts DEF OpsOK
  <2>2. x \in Op /\ x.pc = "commit" /\ x.cols = PassOp.cols /\ x.pos = PassOp.pos /\ x.new = 0 /\ x.moved = 0
    BY <1>2, <1>6 DEF Op
  <2>3. PICK m : m = Merged(x).open
    OBVIOUS
  <2>4. Match(i, m, stray)' /\ Match(i, n, stray)'
    BY <1>5, <1>6, <1>8, CancelMatch, StopFacts
  <2>5. Merged(x).gtt = i
    BY <1>2, <1>3, <2>2, StopFacts, MergedTyped
  <2>6. Merged(x)' = Merged(x)
    BY <1>1 DEF Merged
  <2>7. Match(i, n, stray \cup {0, 0})'
    BY <2>4 DEF Match
  <2>8. Matched(x)'
    BY <1>1, <1>3, <1>4, <2>2, <2>3, <2>4, <2>5, <2>6, <2>7 DEF Matched
  <2>9. PassHolds(x)
    BY <2>2 DEF PassHolds
  <2> QED
    BY <1>1, <1>2, <2>1, <2>2, <2>8, <2>9, PassTurn
<1> QED
  BY <1>7, <1>8 DEF CancelClosed

LEMMA ResizeStops ==
  ASSUME StopsInv, BookInv', Resize
  PROVE  StopsInv'
<1>1. UNCHANGED <<pos, lock>> /\ PassOp.pc = "resize"
  BY DEF Resize, PassOp
<1>2. /\ WebOp.pc = "free" /\ Worker = PassOp /\ lock["today"] = "pass"
      /\ PassOp.pos.gtt = pos.gtt /\ pos.gtt # 0 /\ "open" \in PassOp.cols /\ PassOp.new = 0 /\ PassOp.moved = 0
  BY <1>1, StopFacts DEF StopsInv, PassHolds, Worker, Alone, BookInv, Shapes
<1>3. PICK i \in Gtts : i = pos.gtt
  BY <1>2, StopFacts DEF Position
<1>4. Match(i, pos.open, stray)
  BY <1>2, <1>3, MatchZero DEF StopsInv, Matched
<1>5. PICK n : n = PassOp.pos.open
  OBVIOUS
<1> PICK x : x = [PassOp EXCEPT !.pc = "commit", !.moved = i]
  OBVIOUS
<1>6. op' = [op EXCEPT !["pass"] = x]
  BY <1>2, <1>3, StopFacts DEF Resize, OpsOK
<1>7. x \in Op /\ x.pc = "commit" /\ x.cols = PassOp.cols /\ x.pos = PassOp.pos /\ x.new = 0 /\ x.moved = i
  BY <1>2, StopFacts DEF Op
<1>8. Merged(x).gtt = i /\ Merged(x).open = n
  BY <1>2, <1>3, <1>5, <1>7, StopFacts, MergedTyped
<1>9. gtt \in [Gtts -> [live : BOOLEAN, qty : 0 .. BuyQty, level : Levels]]
  BY StopFacts DEF RestOK
<1>10. /\ \A j \in Gtts : j # i => gtt'[j] = gtt[j]
       /\ stray \subseteq stray'
       /\ i \notin stray' => gtt'[i].live /\ gtt'[i].qty = n
  <2>0. op["pass"].pos.gtt = i /\ op["pass"].pos.open = n
    BY <1>2, <1>3, <1>5, StopFacts
  <2>1. CASE gtt[i].live /\ stray' = stray
             /\ gtt' = [gtt EXCEPT ![i].qty = n, ![i].level = RestingTrigger(op["pass"].pos)]
    BY <1>9, <2>1
  <2>2. CASE ~gtt[i].live /\ UNCHANGED <<gtt, stray>>
    BY <1>3, <1>4, <2>2, StopFacts DEF Match
  <2>3. CASE stray' = stray \cup {i} /\ UNCHANGED gtt
    BY <2>3
  <2> QED
    BY <2>0, <2>1, <2>2, <2>3 DEF Resize
<1>11. Match(i, n, stray)'
  BY <1>4, <1>10 DEF Match
<1>12. Match(i, pos.open, stray \cup {0, i})'
  BY <1>1, <1>4, <1>10 DEF Match
<1>13. Merged(x)' = Merged(x)
  BY <1>1 DEF Merged
<1>14. Matched(x)'
  BY <1>1, <1>3, <1>7, <1>8, <1>11, <1>12, <1>13 DEF Matched
<1>15. PassHolds(x)
  BY <1>7 DEF PassHolds
<1> QED
  BY <1>1, <1>2, <1>6, <1>7, <1>14, <1>15, PassTurn

-----------------------------------------------------------------------------
\* After a step that ends a handler nobody is past reading, and the position is matched.
LEMMA Quietens ==
  ASSUME StopsInv, BookInv', WebOp'.pc = "free", WebOp'.of # "rearm",
         PassOp'.pc \in {"free", "read"}, PassOp'.new = 0, PassOp'.moved = 0,
         WebOp'.new = 0, WebOp'.moved = 0, Match(pos.gtt, pos.open, stray)'
  PROVE  StopsInv'
<1>1. Alone' /\ WebHolds(WebOp)' /\ PassHolds(PassOp)'
  BY DEF Alone, WebHolds, PassHolds
<1>2. Worker' = PassOp'
  BY DEF Worker
<1>3. Match(pos.gtt, pos.open, stray \cup {PassOp.new, PassOp.moved})'
  BY DEF Match
<1>4. Matched(Worker)'
  BY <1>2, <1>3 DEF Matched
<1> QED
  BY <1>1, <1>4 DEF StopsInv

LEMMA CommitStops ==
  ASSUME StopsInv, BookInv', NEW p \in Procs, Commit(p)
  PROVE  StopsInv'
<1>0. NoOp.pc = "free" /\ NoOp.of = "none" /\ NoOp.new = 0 /\ NoOp.moved = 0 /\ NoOp \in Op
  BY NoOpTyped DEF NoOp
<1>1. /\ op[p].pc = "commit" /\ pos' = Merged(op[p]) /\ op' = [op EXCEPT ![p] = NoOp]
      /\ UNCHANGED <<gtt, stray>>
  BY DEF Commit, broker
<1>2. CASE p = "web"
  <2>1. WebOp' = NoOp /\ PassOp' = PassOp
    BY <1>0, <1>1, <1>2, StopFacts, OpStep
  <2>2. Worker = WebOp /\ WebOp.pc = "commit" /\ op[p] = WebOp
    BY <1>1, <1>2, StopFacts DEF Worker
  <2>3. PassOp.pc \in {"free", "read"} /\ PassOp.new = 0 /\ PassOp.moved = 0
    BY <2>2, StopFacts DEF StopsInv, PassHolds
  <2>4. Match(pos.gtt, pos.open, stray)'
    BY <1>1, <2>2 DEF StopsInv, Matched, Match
  <2> QED
    BY <1>0, <2>1, <2>3, <2>4, Quietens
<1>3. CASE p = "pass"
  <2>1. WebOp' = WebOp /\ PassOp' = NoOp
    BY <1>0, <1>1, <1>3, StopFacts, OpStep
  <2>2. PassOp.pc = "commit" /\ op[p] = PassOp
    BY <1>1, <1>3, StopFacts
  <2>3. WebOp = NoOp /\ Worker = PassOp
    BY <2>2, StopFacts DEF Worker
  <2>4. Match(pos.gtt, pos.open, stray)'
    BY <1>1, <2>2, <2>3 DEF StopsInv, Matched, Match
  <2> QED
    BY <1>0, <2>1, <2>3, <2>4, Quietens
<1> QED
  BY <1>2, <1>3 DEF Procs

LEMMA AttachStops ==
  ASSUME StopsInv, BookInv', NEW i \in Gtts, Attach(i)
  PROVE  StopsInv'
<1>1. /\ WebOp.pc = "free" /\ PassOp.pc = "free" /\ pos.gtt = 0 /\ gtt[i].live
      /\ pos' = [pos EXCEPT !.gtt = i, !.trig = gtt[i].level] /\ UNCHANGED <<op, gtt, stray>>
  BY DEF Attach, broker, WebOp, PassOp
<1>2. WebOp' = WebOp /\ PassOp' = PassOp
  BY <1>1 DEF WebOp, PassOp
<1>3. /\ WebOp = NoOp /\ WebOp.of # "rearm" /\ WebOp.new = 0 /\ WebOp.moved = 0
      /\ PassOp.new = 0 /\ PassOp.moved = 0
  BY <1>1, StopFacts DEF StopsInv, PassHolds, NoOp
<1>4. \A j \in Gtts \ stray : ~gtt[j].live
  BY <1>1, MatchedIdle, MatchNone
<1>5. pos'.gtt = i /\ i \in stray
  BY <1>1, <1>4, StopFacts DEF Position
<1>6. Match(pos.gtt, pos.open, stray)'
  BY <1>1, <1>4, <1>5 DEF Match
<1> QED
  BY <1>1, <1>2, <1>3, <1>6, Quietens

\* A death: what the process armed and moved is unaccounted for from then on.
LEMMA DieStops ==
  ASSUME StopsInv, BookInv', NEW p \in Procs, Die(p)
  PROVE  StopsInv'
<1>0. NoOp.pc = "free" /\ NoOp.of = "none" /\ NoOp.new = 0 /\ NoOp.moved = 0 /\ NoOp \in Op
  BY NoOpTyped DEF NoOp
<1>1. /\ op[p].pc # "free" /\ op' = [op EXCEPT ![p] = NoOp] /\ UNCHANGED <<pos, gtt>>
      /\ lock' = [r \in Rows |-> IF lock[r] = p THEN "none" ELSE lock[r]]
      /\ stray' = stray \cup ({op[p].new, op[p].moved} \ {0})
  BY DEF Die, broker
<1>2. ASSUME NEW o, o = op[p], Match(pos.gtt, pos.open, stray \cup {o.new, o.moved})
      PROVE  Match(pos.gtt, pos.open, stray)'
  BY <1>1, <1>2, StopFacts DEF Match
<1>3. CASE p = "web"
  <2>1. WebOp' = NoOp /\ PassOp' = PassOp /\ op[p] = WebOp /\ Worker = WebOp
    BY <1>0, <1>1, <1>3, StopFacts, OpStep DEF Worker
  <2>2. PassOp.pc \in {"free", "read"} /\ PassOp.new = 0 /\ PassOp.moved = 0
    BY <1>1, <2>1, StopFacts DEF StopsInv, PassHolds
  <2>3. Match(pos.gtt, pos.open, stray)'
    BY <1>2, <2>1 DEF StopsInv, Matched
  <2> QED
    BY <1>0, <2>1, <2>2, <2>3, Quietens
<1>4. CASE p = "pass" /\ WebOp.pc = "free"
  <2>1. WebOp' = WebOp /\ PassOp' = NoOp /\ op[p] = PassOp /\ Worker = PassOp /\ WebOp = NoOp
    BY <1>0, <1>1, <1>4, StopFacts, OpStep DEF Worker
  <2>2. Match(pos.gtt, pos.open, stray)'
    BY <1>2, <2>1 DEF StopsInv, Matched
  <2> QED
    BY <1>0, <2>1, <2>2, Quietens
<1>5. CASE p = "pass" /\ WebOp.pc # "free"
  <2>1. WebOp' = WebOp /\ PassOp' = NoOp /\ op[p] = PassOp /\ Worker = WebOp
    BY <1>0, <1>1, <1>5, StopFacts, OpStep DEF Worker
  <2>2. PassOp.new = 0 /\ PassOp.moved = 0
    BY <1>5, StopFacts DEF StopsInv, PassHolds
  <2>3. stray' = stray /\ Worker' = WebOp
    BY <1>1, <1>5, <2>1, <2>2 DEF Worker
  <2>4. lock["today"] = "web" => lock'["today"] = "web"
    BY <1>1, <1>5, StopFacts
  <2>5. Alone' /\ WebHolds(WebOp)' /\ PassHolds(PassOp)'
    BY <1>0, <1>1, <2>1, <2>4 DEF StopsInv, Alone, WebHolds, PassHolds
  <2>6. Matched(Worker)'
    BY <1>1, <2>1, <2>3 DEF StopsInv, Matched, Match, Merged
  <2> QED
    BY <2>5, <2>6 DEF StopsInv
<1> QED
  BY <1>3, <1>4, <1>5 DEF Procs

LEMMA StopsInit == Init => StopsInv
<1> SUFFICES ASSUME Init PROVE StopsInv
  OBVIOUS
<1>1. BookInv
  BY BookInit
<1>2. WebOp = NoOp /\ PassOp = NoOp /\ Worker = NoOp
  BY DEF Init, WebOp, PassOp, Worker, Procs
<1>3. Match(pos.gtt, pos.open, stray)
  BY DEF Init, Match, NoPos
<1>4. Matched(NoOp) /\ WebHolds(NoOp) /\ PassHolds(NoOp)
  BY <1>3, NoOpMatched
<1>5. Alone
  BY <1>2 DEF Alone, NoOp
<1> QED
  BY <1>1, <1>2, <1>4, <1>5 DEF StopsInv

LEMMA StopsStep == PlanRow = "today" /\ StopsInv /\ [Next]_vars => StopsInv'
<1> SUFFICES ASSUME PlanRow = "today", StopsInv, [Next]_vars PROVE StopsInv'
  OBVIOUS
<1>0. BookInv'
  BY BookStep DEF StopsInv
<1>1. ASSUME NEW l \in Lines, Confirm(l) PROVE StopsInv'
  BY <1>0, <1>1, ConfirmStops
<1>2. ASSUME NEW l \in Lines, Refuse(l) PROVE StopsInv'
  BY <1>0, <1>2, NobodyTurns DEF Refuse, broker
<1>3. ASSUME NEW o \in Orders, Place(o) \/ ReadReport(o) PROVE StopsInv'
  BY <1>0, <1>3, PlaceStops, ReadReportStops
<1>4. ASSUME NEW o \in Orders, Fill(o) \/ Kill(o) PROVE StopsInv'
  BY <1>0, <1>4, NobodyTurns DEF Fill, Kill
<1>5. CASE CancelOld \/ Handle("web")
  BY <1>0, <1>5, CancelOldStops, WebArmStops, CommitStops DEF Handle, Procs
<1>6. CASE Pass
  BY <1>0, <1>6, ApplyBuyStops, ApplySellStops, CancelClosedStops, ResizeStops, PassArmStops,
     CommitStops DEF Pass, Handle, Procs
<1>7. CASE Rearm
  BY <1>0, <1>7, RearmStops
<1>8. ASSUME NEW i \in Gtts, Attach(i) PROVE StopsInv'
  BY <1>0, <1>8, AttachStops
<1>9. ASSUME NEW p \in Procs, Die(p) PROVE StopsInv'
  BY <1>0, <1>9, DieStops
<1>10. CASE UNCHANGED vars
  BY <1>0, <1>10, NobodyTurns DEF vars
<1> QED
  BY <1>1, <1>2, <1>3, <1>4, <1>5, <1>6, <1>7, <1>8, <1>9, <1>10 DEF Next

LEMMA QuietMatched == StopsInv /\ Quiet => Match(pos.gtt, pos.open, stray)
  BY MatchedIdle DEF Quiet, Procs, WebOp, PassOp

(* "Arming a second one would sell twice what is held when they fire": with one session row for  *)
(* confirms and reports, a trigger that rests when nobody is at work is the one the position     *)
(* names and sells what is open, but for those of failed calls, lost replies and deaths.         *)
THEOREM StopsMatched == ASSUME PlanRow = "today" PROVE Spec => []StopsMatchBook
<1>1. StopsInv /\ [Next]_vars => StopsInv'
  BY StopsStep
<1>2. StopsInv => StopsMatchBook
  BY QuietMatched DEF StopsMatchBook, Match
<1> QED
  BY <1>1, <1>2, StopsInit, PTL DEF Spec

(* With one session row, a position that names a trigger has it resting, unless a fault severed  *)
(* the two.                                                                                      *)
THEOREM NamedStopsRest == ASSUME PlanRow = "today" PROVE Spec => []NamedStopRests
<1>1. StopsInv /\ [Next]_vars => StopsInv'
  BY StopsStep
<1>2. StopsInv => NamedStopRests
  BY QuietMatched DEF NamedStopRests, Match
<1> QED
  BY <1>1, <1>2, StopsInit, PTL DEF Spec
=============================================================================
