-------------------------- MODULE GttGatewayProofs --------------------------
(***************************************************************************)
(* Proofs about GttGateway, for any number of calls, client ids, triggers  *)
(* and restarts, any prices and any tick size: what rests is a stop, a     *)
(* modify keeps its floor through the rounding, and a client id has one    *)
(* trigger per life and none after it is journalled.                       *)
(***************************************************************************)
EXTENDS GttGateway, TLAPS

-----------------------------------------------------------------------------
(* Rounding to the tick. *)

LEMMA DivMod ==
  ASSUME NEW p \in Nat
  PROVE  /\ p \div Tick \in Nat /\ p % Tick \in 0 .. Tick - 1
         /\ p = Tick * (p \div Tick) + (p % Tick)
  BY GttAssumption, SMTT(30)

LEMMA TimesMonotone ==
  ASSUME NEW a \in Nat, NEW b \in Nat, a <= b
  PROVE  Tick * a \in Nat /\ Tick * b \in Nat /\ Tick * a <= Tick * b
  BY GttAssumption, SMTT(30)

\* to_tick gives a multiple of the tick next to the price.
LEMMA ToTickNear ==
  ASSUME NEW p \in Nat
  PROVE  /\ ToTick(p) \in {Tick * (p \div Tick), Tick * ((p \div Tick) + 1)}
         /\ ToTick(p) \in Nat
  <1>1. p \div Tick \in Nat
    BY DivMod
  <1>2. ToTick(p) \in {Tick * (p \div Tick), Tick * ((p \div Tick) + 1)}
    BY DEF ToTick
  <1>3. Tick * (p \div Tick) \in Nat /\ Tick * ((p \div Tick) + 1) \in Nat
    BY <1>1, TimesMonotone
  <1> QED
    BY <1>2, <1>3

\* to_tick is monotone: rounding never swaps a trigger with its floor.
LEMMA ToTickMonotone ==
  ASSUME NEW a \in Nat, NEW b \in Nat, a <= b
  PROVE  ToTick(a) <= ToTick(b)
  <1> DEFINE i == a \div Tick
             j == b \div Tick
             x == a % Tick
             y == b % Tick
  <1>1. /\ i \in Nat /\ x \in 0 .. Tick - 1 /\ a = Tick * i + x
        /\ j \in Nat /\ y \in 0 .. Tick - 1 /\ b = Tick * j + y
    BY DivMod
  <1>2. ToTick(a) \in {Tick * i, Tick * (i + 1)} /\ ToTick(b) \in {Tick * j, Tick * (j + 1)}
    BY ToTickNear
  <1>3. CASE i = j
    <2>1. x <= y
      BY <1>1, <1>3, GttAssumption
    <2>2. ToTick(b) = Tick * j => ToTick(a) = Tick * i
      <3>1. 2 * y < Tick => 2 * x < Tick
        BY <1>1, <2>1, GttAssumption
      <3>2. 2 * y = Tick => 2 * x < Tick \/ 2 * x = Tick
        BY <1>1, <2>1, GttAssumption
      <3>3. Tick * j # Tick * (j + 1)
        BY <1>1, GttAssumption
      <3> QED
        BY <1>3, <3>1, <3>2, <3>3 DEF ToTick
    <2>3. Tick * i <= Tick * (i + 1) /\ Tick * i \in Nat /\ Tick * (i + 1) \in Nat
      BY <1>1, TimesMonotone
    <2> QED
      BY <1>2, <1>3, <2>2, <2>3
  <1>4. CASE i < j
    <2>1. Tick * i <= Tick * (i + 1) /\ Tick * (i + 1) <= Tick * j
      BY <1>1, <1>4, TimesMonotone
    <2>2. Tick * j <= Tick * (j + 1)
      BY <1>1, TimesMonotone
    <2>3. Tick * i \in Nat /\ Tick * (i + 1) \in Nat /\ Tick * j \in Nat /\ Tick * (j + 1) \in Nat
      BY <1>1, TimesMonotone
    <2> QED
      BY <1>2, <2>1, <2>2, <2>3
  <1>5. CASE j < i
    <2>1. Tick * (j + 1) <= Tick * i /\ Tick * (j + 1) = Tick * j + Tick
      BY <1>1, <1>5, TimesMonotone, GttAssumption
    <2>2. Tick * j \in Nat /\ Tick * i \in Nat
      BY <1>1, TimesMonotone
    <2>3. b < a
      BY <1>1, <2>1, <2>2, GttAssumption
    <2> QED
      BY <2>3
  <1> QED
    BY <1>1, <1>3, <1>4, <1>5

-----------------------------------------------------------------------------
(* Types. *)

LEMMA NoCallType == NoCall \in Call
  <1>1. SomeCid \in Cids /\ SomePrice \in Prices
    BY SlotsAssumption DEF SomeCid, SomePrice
  <1> QED
    BY <1>1 DEF NoCall, Call, Ops, Steps

LEMMA NoCallIdle ==
  NoCall.op = "place" /\ NoCall.pc = "idle" /\ NoCall.fate = "none" /\ NoCall.floor = 0
  BY DEF NoCall

LEMMA AppendType ==
  ASSUME TypeOK, NEW w \in Writes, NEW lines \in SUBSET (Cids \X Events), Append(lines, w)
  PROVE  journal' \subseteq Cids \X Events /\ torn' \in BOOLEAN
  BY DEF Append, TypeOK

LEMMA ReturnType ==
  ASSUME TypeOK, NEW r \in Calls, Return(r)
  PROVE  call' \in [Calls -> Call]
  BY NoCallType DEF Return, TypeOK

LEMMA GotoType ==
  ASSUME TypeOK, NEW r \in Calls, NEW pc \in Steps, Goto(r, pc)
  PROVE  call' \in [Calls -> Call]
  BY DEF Goto, TypeOK, Call

LEMMA MarkType ==
  ASSUME TypeOK, NEW r \in Calls, NEW m \in Marks, Mark(r, m)
  PROVE  sent' \in [Cids -> Marks]
  BY DEF Mark, TypeOK

\* What a request rests is a trigger, at the rounded level.
LEMMA RestingType ==
  ASSUME TypeOK, NEW r \in Calls
  PROVE  /\ Resting(r) \in Trigger
         /\ Resting(r).st = "resting" /\ Resting(r).level = Snapped(r)
         /\ Resting(r).last = call[r].last
         /\ Snapped(r) = ToTick(call[r].trig)
  <1>1. call[r].trig \in Nat /\ call[r].last \in Nat
    BY GttAssumption DEF TypeOK, Call
  <1>2. Snapped(r) \in Nat
    BY <1>1, ToTickNear DEF Snapped
  <1> QED
    BY <1>1, <1>2 DEF Resting, Trigger, Snapped

LEMMA TypeInit == Init => TypeOK
  <1> SUFFICES ASSUME Init PROVE TypeOK
    OBVIOUS
  <1>1. life \in 0 .. MaxLives /\ call \in [Calls -> Call]
    BY GttAssumption, NoCallType DEF Init
  <1>2. book \in [Triggers -> Trigger] /\ sent \in [Cids -> Marks] /\ made \in [Lives -> [Cids -> Nat]]
    BY DEF Init, NoTrigger, Trigger, Marks
  <1> QED
    BY <1>1, <1>2 DEF Init, TypeOK

\* A new call is a call, and says what it was asked.
LEMMA RequestType ==
  ASSUME TypeOK, NEW r \in Calls, Request(r)
  PROVE  /\ call' \in [Calls -> Call]
         /\ UNCHANGED <<process, sent, cached, disk, killed, broker>>
         /\ \A q \in Calls \ {r} : call'[q] = call[q]
         /\ call'[r].pc = "risk" /\ call'[r].fate = "none"
         /\ call'[r].op = "modify" => call'[r].gtt \in Triggers /\ call'[r].trig >= call'[r].floor
         /\ up
  <1>1. ASSUME NEW c \in Cids, NEW trig \in Prices, NEW last \in Prices,
               PlaceGttStop(r, c, trig, last)
        PROVE  /\ call' \in [Calls -> Call]
               /\ UNCHANGED <<process, sent, cached, disk, killed, broker>>
               /\ \A q \in Calls \ {r} : call'[q] = call[q]
               /\ call'[r].pc = "risk" /\ call'[r].fate = "none"
               /\ call'[r].op = "modify" => call'[r].gtt \in Triggers /\ call'[r].trig >= call'[r].floor
               /\ up
    <2> DEFINE new == [NoCall EXCEPT !.pc = "risk", !.cid = c, !.trig = trig, !.last = last]
    <2>1. new \in Call /\ new.pc = "risk" /\ new.fate = "none" /\ new.op = "place"
      BY NoCallType, NoCallIdle DEF Call, Steps
    <2>2. call' = [call EXCEPT ![r] = new]
      BY <1>1 DEF PlaceGttStop
    <2> HIDE DEF new
    <2>3. call' \in [Calls -> Call] /\ call'[r] = new /\ \A q \in Calls \ {r} : call'[q] = call[q]
      BY <2>1, <2>2 DEF TypeOK
    <2> QED
      BY <1>1, <2>1, <2>3 DEF PlaceGttStop
  <1>2. ASSUME NEW t \in Triggers, DeleteGtt(r, t)
        PROVE  /\ call' \in [Calls -> Call]
               /\ UNCHANGED <<process, sent, cached, disk, killed, broker>>
               /\ \A q \in Calls \ {r} : call'[q] = call[q]
               /\ call'[r].pc = "risk" /\ call'[r].fate = "none"
               /\ call'[r].op = "modify" => call'[r].gtt \in Triggers /\ call'[r].trig >= call'[r].floor
               /\ up
    <2> DEFINE new == [NoCall EXCEPT !.op = "delete", !.pc = "risk", !.gtt = t]
    <2>1. new \in Call /\ new.pc = "risk" /\ new.fate = "none" /\ new.op = "delete"
      BY NoCallType, NoCallIdle DEF Call, Steps, Ops
    <2>2. call' = [call EXCEPT ![r] = new]
      BY <1>2 DEF DeleteGtt
    <2> HIDE DEF new
    <2>3. call' \in [Calls -> Call] /\ call'[r] = new /\ \A q \in Calls \ {r} : call'[q] = call[q]
      BY <2>1, <2>2 DEF TypeOK
    <2> QED
      BY <1>2, <2>1, <2>3 DEF DeleteGtt
  <1>3. ASSUME NEW t \in Triggers, NEW trig \in Prices, NEW last \in Prices,
               NEW floor \in Prices \cup {0}, ModifyGtt(r, t, trig, last, floor)
        PROVE  /\ call' \in [Calls -> Call]
               /\ UNCHANGED <<process, sent, cached, disk, killed, broker>>
               /\ \A q \in Calls \ {r} : call'[q] = call[q]
               /\ call'[r].pc = "risk" /\ call'[r].fate = "none"
               /\ call'[r].op = "modify" => call'[r].gtt \in Triggers /\ call'[r].trig >= call'[r].floor
               /\ up
    <2> DEFINE new == [NoCall EXCEPT !.op = "modify", !.pc = "risk", !.gtt = t,
                                     !.trig = trig, !.last = last, !.floor = floor]
    <2>1. /\ new \in Call /\ new.pc = "risk" /\ new.fate = "none"
          /\ new.gtt = t /\ new.trig = trig /\ new.floor = floor
      BY NoCallType, NoCallIdle DEF Call, Steps, Ops
    <2>2. call' = [call EXCEPT ![r] = new]
      BY <1>3 DEF ModifyGtt
    <2> HIDE DEF new
    <2>3. call' \in [Calls -> Call] /\ call'[r] = new /\ \A q \in Calls \ {r} : call'[q] = call[q]
      BY <2>1, <2>2 DEF TypeOK
    <2> QED
      BY <1>3, <2>1, <2>3 DEF ModifyGtt
  <1>4. \A q \in Requests : q[1] \in Prices /\ q[2] \in Prices
    BY GttAssumption
  <1> QED
    BY <1>1, <1>2, <1>3, <1>4 DEF Request

LEMMA SentType ==
  ASSUME TypeOK, NEW r \in Calls, NEW fate \in Fates, OnTheWire(r, fate)
  PROVE  /\ call' \in [Calls -> Call]
         /\ \A q \in Calls \ {r} : call'[q] = call[q]
         /\ call'[r].pc = "wire" /\ call'[r].fate = fate /\ call'[r].cid = call[r].cid
         /\ call'[r].op = call[r].op /\ call'[r].trig = call[r].trig
         /\ call'[r].floor = call[r].floor /\ call'[r].gtt = call[r].gtt
  BY DEF OnTheWire, TypeOK, Call, Steps

LEMMA TypeStep == TypeOK /\ [Next]_vars => TypeOK'
  <1> SUFFICES ASSUME TypeOK, [Next]_vars PROVE TypeOK'
    OBVIOUS
  <1> USE DEF process, disk, broker
  <1>1. ASSUME NEW l \in BOOLEAN, Boot(l) PROVE TypeOK'
    <2>1. life' \in 0 .. MaxLives
      BY <1>1, GttAssumption DEF Boot, TypeOK
    <2>2. sent' \in [Cids -> Marks]
      BY <1>1 DEF Boot, Replay, Marks
    <2> QED
      BY <1>1, <2>1, <2>2 DEF Boot, TypeOK
  <1>2. ASSUME Crash PROVE TypeOK'
    BY <1>2, NoCallType DEF Crash, TypeOK, Marks
  <1>3. ASSUME NEW w \in Writes, GuardBlocks(w) PROVE TypeOK'
    BY <1>3, AppendType DEF GuardBlocks, TypeOK
  <1>4. ASSUME NEW r \in Calls, Request(r) PROVE TypeOK'
    BY <1>4, RequestType DEF TypeOK
  <1>5. ASSUME NEW r \in Calls, RiskAllowsDelete(r) \/ TickSize(r) PROVE TypeOK'
    BY <1>5, GotoType DEF RiskAllowsDelete, TickSize, TypeOK, Steps
  <1>6. ASSUME NEW r \in Calls, RiskFails(r) \/ Drop(r) PROVE TypeOK'
    BY <1>6, ReturnType DEF RiskFails, Drop, TypeOK
  <1>7. ASSUME NEW r \in Calls, Reserve(r) PROVE TypeOK'
    BY <1>7, ReturnType, GotoType, MarkType DEF Reserve, TypeOK, Steps, Marks
  <1>8. ASSUME NEW r \in Calls, NEW w \in Writes, RiskNoted(r, w) PROVE TypeOK'
    <2>1. call' \in [Calls -> Call]
      BY <1>8, ReturnType, GotoType DEF RiskNoted, Steps
    <2> QED
      BY <1>8, <2>1, AppendType DEF RiskNoted, TypeOK
  <1>9. ASSUME NEW r \in Calls, NEW w \in Writes,
               \/ RiskBlocksDelete(r, w) \/ DryRunChange(r, w) \/ TickFails(r, w)
               \/ SnapBlocks(r, w) \/ Answered(r, w)
        PROVE  TypeOK'
    BY <1>9, ReturnType, AppendType
    DEF RiskBlocksDelete, DryRunChange, TickFails, SnapBlocks, Answered, TypeOK
  <1>10. ASSUME NEW r \in Calls, NEW w \in Writes, DryRunGtt(r, w) PROVE TypeOK'
    <2>1. {<<call[r].cid, "gtt_dry_run">>} \subseteq Cids \X Events
      BY DEF TypeOK, Call, Events
    <2>2. sent' \in [Cids -> Marks]
      BY <1>10, MarkType DEF DryRunGtt, Marks, TypeOK
    <2> QED
      BY <1>10, <2>1, <2>2, ReturnType, AppendType DEF DryRunGtt, TypeOK
  <1>11. ASSUME NEW r \in Calls, NEW w \in Writes, NEW named \in BOOLEAN, GttPlaced(r, named, w)
         PROVE  TypeOK'
    <2>1. {<<call[r].cid, "gtt_placed">>} \subseteq Cids \X Events /\ {} \subseteq Cids \X Events
      BY DEF TypeOK, Call, Events
    <2>2. sent' \in [Cids -> Marks]
      BY <1>11, MarkType DEF GttPlaced, Marks
    <2> QED
      BY <1>11, <2>1, <2>2, ReturnType, AppendType DEF GttPlaced, TypeOK
  <1>12. ASSUME NEW r \in Calls, NEW t \in Triggers, NEW fate \in Fates, SendPlace(r, t, fate)
         PROVE  TypeOK'
    <2>1. book' \in [Triggers -> Trigger]
      BY <1>12, RestingType DEF SendPlace, TypeOK
    <2>2. made' \in [Lives -> [Cids -> Nat]]
      BY <1>12 DEF SendPlace, TypeOK, Call
    <2> QED
      BY <1>12, <2>1, <2>2, SentType DEF SendPlace, TypeOK
  <1>13. ASSUME NEW r \in Calls, NEW fate \in Fates, SendModify(r, fate) \/ SendDelete(r, fate)
         PROVE  TypeOK'
    <2>1. book' \in [Triggers -> Trigger]
      BY <1>13, RestingType DEF SendModify, SendDelete, TypeOK, Trigger
    <2> QED
      BY <1>13, <2>1, SentType DEF SendModify, SendDelete, TypeOK
  <1>14. ASSUME NEW t \in Triggers, Fires(t) PROVE TypeOK'
    BY <1>14 DEF Fires, TypeOK, Trigger
  <1>15. CASE Halt \/ UNCHANGED vars
    BY <1>15 DEF Halt, TypeOK, vars
  <1> QED
    BY <1>1, <1>2, <1>3, <1>4, <1>5, <1>6, <1>7, <1>8, <1>9, <1>10, <1>11, <1>12, <1>13,
       <1>14, <1>15 DEF Next, Progress

\* Every variable of the gateway's stops keeps its type.
THEOREM TypeCorrect == Spec => []TypeOK
  BY TypeInit, TypeStep, PTL DEF Spec

-----------------------------------------------------------------------------
(* The level of a stop. *)

LEMMA StopStep ==
  ASSUME TypeOK, RestingIsAStop, [Next]_vars
  PROVE  RestingIsAStop'
  <1> USE DEF broker
  <1>1. ASSUME NEW r \in Calls, NEW t \in Triggers, NEW fate \in Fates, SendPlace(r, t, fate)
        PROVE  RestingIsAStop'
    BY <1>1, RestingType DEF SendPlace, RestingIsAStop, TypeOK
  <1>2. ASSUME NEW r \in Calls, NEW fate \in Fates, SendModify(r, fate) PROVE RestingIsAStop'
    BY <1>2, RestingType DEF SendModify, RestingIsAStop, TypeOK
  <1>3. ASSUME NEW r \in Calls, NEW fate \in Fates, SendDelete(r, fate) PROVE RestingIsAStop'
    BY <1>3 DEF SendDelete, RestingIsAStop, TypeOK, Trigger
  <1>4. ASSUME NEW t \in Triggers, Fires(t) PROVE RestingIsAStop'
    BY <1>4 DEF Fires, RestingIsAStop, TypeOK, Trigger
  <1>5. CASE book' = book
    BY <1>5 DEF RestingIsAStop
  <1>6. \/ book' = book
        \/ \E t \in Triggers : Fires(t)
        \/ \E r \in Calls, fate \in Fates : \/ SendModify(r, fate) \/ SendDelete(r, fate)
                                            \/ \E t \in Triggers : SendPlace(r, t, fate)
    BY RequestType
    DEF Next, Progress, vars, Boot, Crash, GuardBlocks, RiskNoted, RiskAllowsDelete,
        RiskBlocksDelete, RiskFails, Reserve, DryRunGtt, DryRunChange, TickSize, TickFails,
        SnapBlocks, GttPlaced, Answered, Drop, Halt
  <1> QED
    BY <1>1, <1>2, <1>3, <1>4, <1>5, <1>6

\* Whatever rests at the broker was a stop when it was sent, after rounding to
\* any tick (place_gtt_stop and modify_gtt_value check again after to_tick).
THEOREM AlwaysAStop == Spec => []RestingIsAStop
<1>1. Init => RestingIsAStop
  BY DEF Init, NoTrigger, RestingIsAStop
<1>2. TypeOK /\ RestingIsAStop /\ [Next]_vars => RestingIsAStop'
  BY StopStep
<1> QED
  BY <1>1, <1>2, TypeCorrect, PTL DEF Spec

\* A modify in progress names a trigger, and a level at or above its floor.
AboveFloor ==
  \A r \in Calls : call[r].op = "modify" =>
                     call[r].gtt \in Triggers /\ call[r].trig >= call[r].floor

LEMMA FloorStep ==
  ASSUME TypeOK, AboveFloor, [Next]_vars
  PROVE  AboveFloor'
  <1>1. ASSUME NEW r \in Calls, Return(r) PROVE AboveFloor'
    BY <1>1, NoCallIdle DEF Return, AboveFloor, TypeOK
  <1>2. ASSUME NEW r \in Calls, NEW pc, Goto(r, pc) PROVE AboveFloor'
    BY <1>2 DEF Goto, AboveFloor, TypeOK, Call
  <1>3. ASSUME NEW r \in Calls, NEW fate \in Fates, OnTheWire(r, fate) PROVE AboveFloor'
    BY <1>3, SentType DEF AboveFloor
  <1>4. ASSUME NEW r \in Calls, Request(r) PROVE AboveFloor'
    BY <1>4, RequestType DEF AboveFloor
  <1>5. ASSUME Crash PROVE AboveFloor'
    BY <1>5, NoCallIdle DEF Crash, AboveFloor
  <1>6. CASE call' = call
    BY <1>6 DEF AboveFloor
  <1>7. \/ call' = call \/ Crash
        \/ \E r \in Calls : \/ Return(r) \/ Request(r) \/ \E pc \in Steps : Goto(r, pc)
                            \/ \E fate \in Fates : OnTheWire(r, fate)
    BY DEF Next, Progress, vars, Boot, GuardBlocks, RiskNoted, RiskAllowsDelete,
           RiskBlocksDelete, RiskFails, Reserve, DryRunGtt, DryRunChange, TickSize, TickFails,
           SnapBlocks, GttPlaced, Answered, Drop, Halt, Fires, SendPlace, SendModify, SendDelete,
           Steps
  <1> QED
    BY <1>1, <1>2, <1>3, <1>4, <1>5, <1>6, <1>7

\* No modify rests a trigger below where its floor would rest, for any tick: the
\* comparison made before to_tick holds after it.
THEOREM TrailKept == Spec => FloorKept
<1> DEFINE Kept == \A r \in Calls, fate \in Fates :
                     SendModify(r, fate) /\ fate = "accepted"
                       => book'[call[r].gtt].level >= ToTick(call[r].floor)
<1>1. Init => AboveFloor
  BY NoCallIdle DEF Init, AboveFloor
<1>2. TypeOK /\ AboveFloor /\ [Next]_vars => AboveFloor'
  BY FloorStep
<1>3. TypeOK /\ AboveFloor /\ [Next]_vars => [Kept]_vars
  <2> SUFFICES ASSUME TypeOK, AboveFloor, NEW r \in Calls, NEW fate \in Fates,
                      SendModify(r, fate), fate = "accepted"
               PROVE  book'[call[r].gtt].level >= ToTick(call[r].floor)
    OBVIOUS
  <2>1. /\ call[r].trig \in Nat /\ call[r].floor \in Nat /\ call[r].floor <= call[r].trig
        /\ call[r].gtt \in Triggers
    <3>0. call[r].trig \in Prices /\ call[r].floor \in Prices \cup {0}
      BY DEF TypeOK, Call
    <3>1. call[r].trig \in Nat /\ call[r].floor \in Nat
      BY <3>0, GttAssumption
    <3>2. call[r].gtt \in Triggers /\ call[r].trig >= call[r].floor
      BY DEF SendModify, AboveFloor
    <3> QED
      BY <3>1, <3>2
  <2>2. ToTick(call[r].floor) <= ToTick(call[r].trig)
    BY <2>1, ToTickMonotone
  <2>3. book'[call[r].gtt].level = ToTick(call[r].trig)
    BY <2>1, RestingType DEF SendModify, TypeOK
  <2>4. ToTick(call[r].floor) \in Nat /\ ToTick(call[r].trig) \in Nat
    BY <2>1, ToTickNear
  <2> QED
    BY <2>2, <2>3, <2>4
<1> QED
  BY <1>1, <1>2, <1>3, TypeCorrect, PTL DEF Spec, FloorKept

-----------------------------------------------------------------------------
(* One trigger per client id. *)

Owns(r) == call[r].op = "place" /\ call[r].pc \in {"slot", "snap", "wire"}

\* Calls live in a running process; only a stop is ever reserved; a request that
\* was accepted is on the wire.
Shape ==
  /\ up => life \in Lives
  /\ \A r \in Calls : /\ call[r].pc # "idle" => up
                      /\ call[r].pc = "reserve" => call[r].op = "place"
                      /\ call[r].fate = "accepted" => call[r].pc = "wire"

\* A reservation has one owner until it is settled.
OneOwner ==
  /\ \A r \in Calls : Owns(r) => sent[call[r].cid] = "pending"
  /\ \A r, q \in Calls : Owns(r) /\ Owns(q) /\ call[r].cid = call[q].cid => r = q

\* An id that is free, or reserved for a request that is not accepted, has no
\* trigger from this life; later lives have none at all.
NotYetMade ==
  /\ \A l \in Lives, c \in Cids : l > life => made[l][c] = 0
  /\ up => \A c \in Cids : sent[c] = "free" => made[life][c] = 0
  /\ \A r \in Calls : Owns(r) /\ call[r].fate # "accepted" => made[life][call[r].cid] = 0

\* What the journal has settled, the running gateway remembers as settled.
Remembered ==
  up => \A c \in Cids, e \in Events :
          <<c, e>> \in journal => sent[c] \in {"dry", "placed"}

\* The inductive invariant behind OneTriggerPerId and JournaledNeverRearmed.
IdInv == Shape /\ OneOwner /\ NotYetMade /\ Remembered /\ OneTriggerPerId

LEMMA IdInit == Init => IdInv
  <1> SUFFICES ASSUME Init PROVE IdInv
    OBVIOUS
  <1>1. ~up /\ \A r \in Calls : call[r].pc = "idle" /\ call[r].fate = "none"
    BY NoCallIdle DEF Init
  <1>2. \A l \in Lives, c \in Cids : made[l][c] = 0
    BY DEF Init
  <1> QED
    BY <1>1, <1>2 DEF IdInv, Shape, OneOwner, NotYetMade, Remembered, OneTriggerPerId, Owns

\* Nothing the invariant speaks of changes.
LEMMA IdStutter ==
  ASSUME IdInv, UNCHANGED <<life, up, sent, call, journal, made>>
  PROVE  IdInv'
  BY DEF IdInv, Shape, OneOwner, NotYetMade, Remembered, OneTriggerPerId, Owns

\* A call that returns without touching the map leaves the invariant alone.
LEMMA IdReturns ==
  ASSUME TypeOK, IdInv, NEW r \in Calls, Return(r), UNCHANGED <<life, up, sent, journal, made>>
  PROVE  IdInv'
  <1>1. \A q \in Calls : call'[q] = IF q = r THEN NoCall ELSE call[q]
    BY DEF Return, TypeOK
  <1>2. Shape' /\ OneOwner'
    BY <1>1, NoCallIdle DEF IdInv, Shape, OneOwner, Owns
  <1>3. NotYetMade' /\ Remembered' /\ OneTriggerPerId'
    BY <1>1, NoCallIdle DEF IdInv, NotYetMade, Remembered, OneTriggerPerId, Owns
  <1> QED
    BY <1>2, <1>3 DEF IdInv

\* A call moves on, and owns nothing it did not own.
LEMMA IdMoves ==
  ASSUME TypeOK, IdInv, NEW r \in Calls, NEW pc \in Steps, Goto(r, pc),
         UNCHANGED <<life, up, sent, journal, made>>,
         call[r].pc \notin {"idle", "wire"}, pc \notin {"idle", "wire"},
         pc = "reserve" => call[r].op = "place",
         call[r].op = "place" /\ pc \in {"slot", "snap"} => Owns(r)
  PROVE  IdInv'
  <1>1. /\ \A q \in Calls \ {r} : call'[q] = call[q]
        /\ call'[r].pc = pc /\ call'[r].op = call[r].op /\ call'[r].cid = call[r].cid
        /\ call'[r].fate = call[r].fate
    BY DEF Goto, TypeOK, Call
  <1>2. call[r].fate # "accepted" /\ up
    BY DEF IdInv, Shape
  <1>3. \A q \in Calls : Owns(q)' => Owns(q)
    BY <1>1 DEF Owns
  <1>4. Shape'
    BY <1>1, <1>2 DEF IdInv, Shape
  <1>5. OneOwner'
    BY <1>1, <1>3 DEF IdInv, OneOwner
  <1>6. NotYetMade' /\ Remembered' /\ OneTriggerPerId'
    BY <1>1, <1>3 DEF IdInv, NotYetMade, Remembered, OneTriggerPerId
  <1> QED
    BY <1>4, <1>5, <1>6 DEF IdInv

\* A call settles the id it owns, and journals what it settled.
LEMMA IdSettles ==
  ASSUME TypeOK, IdInv, NEW r \in Calls, Owns(r), NEW m \in {"dry", "placed"},
         NEW lines \in SUBSET ({call[r].cid} \X Events), NEW w \in Writes,
         Mark(r, m), Append(lines, w), Return(r), UNCHANGED <<life, up, made>>
  PROVE  IdInv'
  <1> DEFINE c == call[r].cid
  <1>1. \A q \in Calls : call'[q] = IF q = r THEN NoCall ELSE call[q]
    BY DEF Return, TypeOK
  <1>2. c \in Cids /\ \A q \in Calls : call[q].cid \in Cids
    BY DEF TypeOK, Call
  <1>3. \A d \in Cids : sent'[d] = IF d = c THEN m ELSE sent[d]
    BY <1>2 DEF Mark, TypeOK
  <1>4. Shape'
    BY <1>1, NoCallIdle DEF IdInv, Shape
  <1>5. OneOwner'
    BY <1>1, <1>2, <1>3, NoCallIdle DEF IdInv, OneOwner, Owns
  <1>6. NotYetMade' /\ OneTriggerPerId'
    BY <1>1, <1>3, NoCallIdle DEF IdInv, NotYetMade, OneTriggerPerId, Owns
  <1>7. Remembered'
    <2> SUFFICES ASSUME up, NEW d \in Cids, NEW e \in Events,
                        <<d, e>> \in journal'
                 PROVE  sent'[d] \in {"dry", "placed"}
      BY DEF Remembered
    <2>1. <<d, e>> \in journal \/ d = c
      BY DEF Append
    <2>2. <<d, e>> \in journal => sent[d] \in {"dry", "placed"}
      BY DEF IdInv, Remembered
    <2> QED
      BY <1>3, <2>1, <2>2
  <1> QED
    BY <1>4, <1>5, <1>6, <1>7 DEF IdInv

LEMMA IdStep ==
  ASSUME TypeOK, IdInv, [Next]_vars
  PROVE  IdInv'
  <1> USE DEF process, disk, broker
  <1>1. ASSUME NEW l \in BOOLEAN, Boot(l) PROVE IdInv'
    <2>1. \A r \in Calls : call[r].pc = "idle" /\ call'[r] = call[r] /\ call[r].fate # "accepted"
      BY <1>1 DEF Boot, IdInv, Shape
    <2>2. life' \in Lives /\ life' = life + 1 /\ UNCHANGED <<made, journal>> /\ up'
      BY <1>1, GttAssumption DEF Boot, Lives, TypeOK
    <2>3. \A c \in Cids : made'[life'][c] = 0
      BY <2>2 DEF IdInv, NotYetMade, TypeOK
    <2>4. Shape' /\ OneOwner'
      BY <2>1, <2>2 DEF Shape, OneOwner, Owns
    <2>5. NotYetMade'
      BY <2>1, <2>2, <2>3 DEF IdInv, NotYetMade, Owns, Lives, TypeOK
    <2>6. Remembered'
      BY <1>1, <2>2 DEF Boot, Remembered, Replay, Events
    <2> QED
      BY <2>2, <2>4, <2>5, <2>6 DEF IdInv, OneTriggerPerId
  <1>2. ASSUME Crash PROVE IdInv'
    <2>1. ~up' /\ \A r \in Calls : call'[r].pc = "idle" /\ call'[r].fate = "none"
      BY <1>2, NoCallIdle DEF Crash
    <2>2. UNCHANGED <<life, made>>
      BY <1>2 DEF Crash
    <2> QED
      BY <2>1, <2>2 DEF IdInv, Shape, OneOwner, NotYetMade, Remembered, OneTriggerPerId, Owns
  <1>3. ASSUME NEW r \in Calls, Request(r) PROVE IdInv'
    <2>1. /\ UNCHANGED <<life, up, sent, journal, made>> /\ up
          /\ \A q \in Calls \ {r} : call'[q] = call[q]
          /\ call'[r].pc = "risk" /\ call'[r].fate = "none"
      BY <1>3, RequestType
    <2>2. Shape'
      BY <2>1 DEF IdInv, Shape
    <2>3. OneOwner' /\ NotYetMade'
      BY <2>1 DEF IdInv, OneOwner, NotYetMade, Owns
    <2> QED
      BY <2>1, <2>2, <2>3 DEF IdInv, Remembered, OneTriggerPerId
  <1>4. ASSUME NEW r \in Calls, NEW w \in Writes, RiskNoted(r, w) PROVE IdInv'
    <2>1. UNCHANGED <<life, up, sent, journal, made>> /\ call[r].pc = "risk"
      BY <1>4 DEF RiskNoted, Append
    <2>2. CASE w # "ok"
      BY <1>4, <2>1, <2>2, IdReturns DEF RiskNoted
    <2>3. CASE w = "ok" /\ call[r].op = "place"
      BY <1>4, <2>1, <2>3, IdMoves DEF RiskNoted, Steps
    <2>4. CASE w = "ok" /\ call[r].op # "place"
      BY <1>4, <2>1, <2>4, IdMoves DEF RiskNoted, Steps
    <2> QED
      BY <2>2, <2>3, <2>4
  <1>5. ASSUME NEW r \in Calls, RiskAllowsDelete(r) \/ TickSize(r) PROVE IdInv'
    BY <1>5, IdMoves DEF RiskAllowsDelete, TickSize, Steps, Owns
  <1>6. ASSUME NEW r \in Calls, RiskFails(r) \/ Drop(r) PROVE IdInv'
    BY <1>6, IdReturns DEF RiskFails, Drop
  <1>7. ASSUME NEW r \in Calls, NEW w \in Writes,
               \/ RiskBlocksDelete(r, w) \/ DryRunChange(r, w) \/ TickFails(r, w)
               \/ SnapBlocks(r, w) \/ Answered(r, w)
        PROVE  IdInv'
    <2>1. Return(r) /\ UNCHANGED <<life, up, sent, journal, made>>
      BY <1>7 DEF RiskBlocksDelete, DryRunChange, TickFails, SnapBlocks, Answered, Append
    <2> QED
      BY <2>1, IdReturns
  <1>8. ASSUME NEW r \in Calls, Reserve(r) PROVE IdInv'
    <2> DEFINE c == call[r].cid
    <2>1. CASE sent[c] # "free"
      BY <1>8, <2>1, IdReturns DEF Reserve
    <2>2. CASE sent[c] = "free"
      <3>1. c \in Cids /\ up /\ call[r].op = "place" /\ call[r].fate # "accepted"
        BY <1>8 DEF Reserve, IdInv, Shape, TypeOK, Call
      <3>2. \A d \in Cids : sent'[d] = IF d = c THEN "pending" ELSE sent[d]
        BY <1>8, <2>2, <3>1 DEF Reserve, Mark, TypeOK
      <3>3. /\ \A q \in Calls \ {r} : call'[q] = call[q]
            /\ call'[r].pc = "slot" /\ call'[r].op = "place"
            /\ call'[r].cid = c /\ call'[r].fate = call[r].fate
        BY <1>8, <2>2, <3>1 DEF Reserve, Goto, TypeOK, Call
      <3>4. UNCHANGED <<life, up, made, journal>>
        BY <1>8 DEF Reserve
      <3>5. \A q \in Calls : call[q].cid \in Cids
        BY DEF TypeOK, Call
      <3>6. Shape'
        BY <3>1, <3>3, <3>4 DEF IdInv, Shape
      <3>7. OneOwner'
        BY <2>2, <3>2, <3>3, <3>5 DEF IdInv, OneOwner, Owns
      <3>8. NotYetMade'
        BY <2>2, <3>1, <3>2, <3>3, <3>4 DEF IdInv, NotYetMade, Owns
      <3>9. Remembered' /\ OneTriggerPerId'
        BY <2>2, <3>1, <3>2, <3>4 DEF IdInv, Remembered, OneTriggerPerId
      <3> QED
        BY <3>6, <3>7, <3>8, <3>9 DEF IdInv
    <2> QED
      BY <2>1, <2>2
  <1>9. ASSUME NEW r \in Calls, NEW w \in Writes, DryRunGtt(r, w) PROVE IdInv'
    <2>1. CASE w = "ok"
      BY <1>9, <2>1, IdSettles DEF DryRunGtt, Owns, Events
    <2>2. CASE w # "ok"
      BY <1>9, <2>2, IdReturns DEF DryRunGtt, Append
    <2> QED
      BY <2>1, <2>2
  <1>10. ASSUME NEW r \in Calls, NEW w \in Writes, NEW named \in BOOLEAN, GttPlaced(r, named, w)
         PROVE  IdInv'
    <2>1. CASE named
      BY <1>10, <2>1, IdSettles DEF GttPlaced, Owns, Events
    <2>2. CASE ~named
      BY <1>10, <2>2, IdSettles DEF GttPlaced, Owns
    <2> QED
      BY <2>1, <2>2
  <1>11. ASSUME NEW r \in Calls, NEW fate \in Fates, SendModify(r, fate) \/ SendDelete(r, fate)
         PROVE  IdInv'
    <2>1. /\ UNCHANGED <<life, up, sent, journal, made>>
          /\ call[r].op # "place" /\ call[r].pc # "idle"
      BY <1>11 DEF SendModify, SendDelete
    <2>2. /\ \A q \in Calls \ {r} : call'[q] = call[q]
          /\ call'[r].pc = "wire" /\ call'[r].op = call[r].op
      BY <1>11, SentType DEF SendModify, SendDelete
    <2>3. \A q \in Calls : Owns(q)' => q # r /\ Owns(q)
      BY <2>1, <2>2 DEF Owns
    <2>4. Shape'
      BY <2>1, <2>2 DEF IdInv, Shape
    <2>5. OneOwner' /\ NotYetMade'
      BY <2>1, <2>2, <2>3 DEF IdInv, OneOwner, NotYetMade
    <2> QED
      BY <2>1, <2>4, <2>5 DEF IdInv, Remembered, OneTriggerPerId
  <1>12. ASSUME NEW r \in Calls, NEW t \in Triggers, NEW fate \in Fates, SendPlace(r, t, fate)
         PROVE  IdInv'
    <2> DEFINE c == call[r].cid
    <2>1. /\ UNCHANGED <<life, up, sent, journal>>
          /\ call[r].op = "place" /\ call[r].pc = "snap" /\ Owns(r)
      BY <1>12 DEF SendPlace, Owns
    <2>2. /\ \A q \in Calls \ {r} : call'[q] = call[q]
          /\ call'[r].pc = "wire" /\ call'[r].fate = fate /\ call'[r].cid = c
      BY <1>12, SentType DEF SendPlace
    <2>3. life \in Lives /\ c \in Cids /\ made[life][c] = 0 /\ up
      BY <2>1 DEF IdInv, Shape, NotYetMade, TypeOK, Call
    <2>4. \A l \in Lives, d \in Cids : made'[l][d] =
            IF fate = "accepted" /\ l = life /\ d = c THEN 1 ELSE made[l][d]
      BY <1>12, <2>3 DEF SendPlace, TypeOK
    <2>5. \A q \in Calls : call[q].cid \in Cids
      BY DEF TypeOK, Call
    <2>6. sent[c] = "pending" /\ \A q \in Calls \ {r} : Owns(q) => call[q].cid # c
      BY <2>1 DEF IdInv, OneOwner
    <2>7. \A q \in Calls : Owns(q)' => Owns(q)
      BY <2>1, <2>2 DEF Owns
    <2>8. Shape'
      BY <2>1, <2>2, <2>3 DEF IdInv, Shape
    <2>9. OneOwner'
      BY <2>1, <2>2, <2>7 DEF IdInv, OneOwner
    <2>10. NotYetMade'
      <3>1. \A l \in Lives, d \in Cids : l > life => made'[l][d] = 0
        BY <2>3, <2>4 DEF IdInv, NotYetMade, TypeOK
      <3>2. \A d \in Cids : sent[d] = "free" => made'[life][d] = 0
        BY <2>3, <2>4, <2>6 DEF IdInv, NotYetMade
      <3>3. \A q \in Calls : Owns(q)' /\ call'[q].fate # "accepted"
                               => made'[life][call'[q].cid] = 0
        BY <2>2, <2>3, <2>4, <2>5, <2>6, <2>7 DEF IdInv, NotYetMade
      <3> QED
        BY <2>1, <3>1, <3>2, <3>3 DEF NotYetMade
    <2>11. Remembered' /\ OneTriggerPerId'
      BY <2>1, <2>4 DEF IdInv, Remembered, OneTriggerPerId
    <2> QED
      BY <2>8, <2>9, <2>10, <2>11 DEF IdInv
  <1>13. CASE \/ \E w \in Writes : GuardBlocks(w)
              \/ \E t \in Triggers : Fires(t)
              \/ Halt \/ UNCHANGED vars
    <2>1. UNCHANGED <<life, up, sent, call, journal, made>>
      BY <1>13 DEF GuardBlocks, Append, Fires, Halt, vars
    <2> QED
      BY <2>1, IdStutter
  <1> QED
    BY <1>1, <1>2, <1>3, <1>4, <1>5, <1>6, <1>7, <1>8, <1>9, <1>10, <1>11, <1>12, <1>13
    DEF Next, Progress

\* The broker creates at most one trigger for a client id in a life of the
\* process: place_gtt_stop reserves before its next await and frees nothing.
THEOREM OneTrigger == Spec => []OneTriggerPerId
<1>1. TypeOK /\ IdInv /\ [Next]_vars => IdInv'
  BY IdStep
<1>2. IdInv => OneTriggerPerId
  BY DEF IdInv
<1> QED
  BY <1>1, <1>2, IdInit, TypeCorrect, PTL DEF Spec

\* What Journal::replay recovers is enough for a stop whose line names its
\* trigger, and for a simulated one: it is never armed again, in any life.
THEOREM LinesHold == Spec => JournaledNeverRearmed
<1> DEFINE Settled(c) == \E e \in Events : <<c, e>> \in journal
           Kept == \A c \in Cids : Settled(c) => \A l \in Lives : made'[l][c] = made[l][c]
<1>1. TypeOK /\ IdInv /\ [Next]_vars => IdInv'
  BY IdStep
<1>2. TypeOK /\ IdInv /\ [Next]_vars => [Kept]_vars
  <2> SUFFICES ASSUME TypeOK, IdInv, [Next]_vars, NEW c \in Cids, Settled(c), NEW l \in Lives
               PROVE  made'[l][c] = made[l][c]
    OBVIOUS
  <2>1. ASSUME NEW r \in Calls, NEW t \in Triggers, NEW fate \in Fates, SendPlace(r, t, fate)
        PROVE  made'[l][c] = made[l][c]
    <3>1. sent[call[r].cid] = "pending" /\ up
      BY <2>1 DEF SendPlace, IdInv, Shape, OneOwner, Owns
    <3>2. call[r].cid # c
      BY <3>1 DEF IdInv, Remembered
    <3> QED
      BY <2>1, <3>2 DEF SendPlace, TypeOK, broker
  <2>2. \/ made' = made
        \/ \E r \in Calls, t \in Triggers, fate \in Fates : SendPlace(r, t, fate)
    BY RequestType
    DEF Next, Progress, vars, broker, Boot, Crash, GuardBlocks, RiskNoted, RiskAllowsDelete,
        RiskBlocksDelete, RiskFails, Reserve, DryRunGtt, DryRunChange, TickSize, TickFails,
        SnapBlocks, GttPlaced, Answered, Drop, Halt, Fires, SendModify, SendDelete
  <2> QED
    BY <2>1, <2>2
<1> QED
  BY <1>1, <1>2, IdInit, TypeCorrect, PTL DEF Spec, JournaledNeverRearmed
=============================================================================
