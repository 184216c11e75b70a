-------------------------- MODULE RiskLedgerProofs --------------------------
(***************************************************************************)
(* Proofs about RiskLedger: type correctness, and (when no operation is in *)
(* progress at midnight) the order cap, the position cap and the daily     *)
(* loss halt, for any number of processes, symbols, days and any limits.   *)
(***************************************************************************)
EXTENDS RiskLedger, TLAPS

\* RiskState::default() is a state of its day.
LEMMA DefaultType == \A d \in Days : Default(d) \in State
  BY DEF Default, State

LEMMA NonNegType == \A n \in Int : NonNeg(n) \in Nat
  BY DEF NonNeg

\* A manager that rolls ends up with a state of today.
LEMMA RolledType ==
  ASSUME TypeOK, NEW p \in Procs
  PROVE  Rolled(p) \in State /\ Rolled(p).day = today
  BY DefaultType DEF Rolled, TypeOK, Default, State

\* Leaving the locked section with a well-typed state keeps the ledger typed.
LEMMA LeaveType ==
  ASSUME TypeOK, NEW p \in Procs, NEW st \in State, NEW saves \in BOOLEAN,
         NEW out \in Outcomes, Leave(p, st, saves, out)
  PROVE  /\ today' \in Days
         /\ row' \in [Days -> [written : BOOLEAN, st : State]]
         /\ inner' \in [Procs -> State]
         /\ pc' \in [Procs -> {"down", "idle", "wait", "held"}]
         /\ txday' \in [Procs -> Days]
         /\ stuck' \subseteq Days
  <1>1. 0 \in Days
    BY LimitsAssumption DEF Days
  <1>2. [written |-> TRUE, st |-> st] \in [written : BOOLEAN, st : State]
    OBVIOUS
  <1> QED
    BY <1>1, <1>2 DEF Leave, TypeOK

LEMMA BookedType ==
  ASSUME NEW st \in State, NEW s \in Symbols, NEW side \in Sides, NEW v \in Values
  PROVE  Booked(st, s, side, v) \in State
  <1> DEFINE n == IF side = "BUY" THEN st.pos[s] + v ELSE NonNeg(st.pos[s] - v)
  <1>1. st.pos \in [Symbols -> Nat] /\ st.orders + 1 \in Nat /\ v \in Nat
    BY InputsAssumption DEF State
  <1>2. n \in Nat
    BY <1>1, NonNegType
  <1>3. [st EXCEPT !.orders = @ + 1, !.pos[s] = n] \in State
    <2> HIDE DEF n
    <2> QED BY <1>1, <1>2 DEF State
  <1> QED
    BY <1>3 DEF Booked

THEOREM TypeCorrect == Spec => []TypeOK
<1>1. Init => TypeOK
  <2>1. 0 \in Days
    BY LimitsAssumption DEF Days
  <2>2. NoRow \in [written : BOOLEAN, st : State]
    BY <2>1, DefaultType DEF NoRow
  <2> QED
    BY <2>1, <2>2, DefaultType DEF Init, TypeOK
<1>2. TypeOK /\ [Next]_vars => TypeOK'
  <2> SUFFICES ASSUME TypeOK, [Next]_vars PROVE TypeOK'
    OBVIOUS
  <2>0. 0 \in Days
    BY LimitsAssumption DEF Days
  <2>1. ASSUME NEW p \in Procs, Start(p) PROVE TypeOK'
    BY <2>1, DefaultType DEF Start, TypeOK, history
  <2>2. ASSUME NEW p \in Procs, Begin(p) PROVE TypeOK'
    BY <2>2 DEF Begin, TypeOK, ledger, history
  <2>3. ASSUME NEW p \in Procs, Acquire(p) PROVE TypeOK'
    <3>1. Reload(p) \in State
      BY DEF Reload, TypeOK
    <3> QED
      BY <2>3, <3>1 DEF Acquire, TypeOK, history
  <2>4. ASSUME NEW p \in Procs, LockFails(p) PROVE TypeOK'
    BY <2>4, <2>0 DEF LockFails, TypeOK, ledger, history
  <2>5. ASSUME NEW p \in Procs, NEW out \in Outcomes, New(p, out) PROVE TypeOK'
    BY <2>5, <2>0 DEF New, TypeOK, ledger, history
  <2>6. ASSUME NEW p \in Procs, NEW out \in Outcomes, RollFails(p, out) PROVE TypeOK'
    BY <2>6, RolledType, LeaveType DEF RollFails, TypeOK, history
  <2>7. ASSUME NEW p \in Procs, NEW s \in Symbols, NEW side \in Sides, NEW v \in Values,
               NEW gross \in Grosses, NEW out \in Outcomes,
               PreOrder(p, s, side, v, gross, out)
        PROVE  TypeOK'
    <3> DEFINE ok == Accepts(Rolled(p), s, side, v, gross)
               st == IF ok THEN Booked(Rolled(p), s, side, v) ELSE Rolled(p)
    <3>1. st \in State
      BY RolledType, BookedType
    <3>2. Leave(p, st, ok \/ Rolls(p), out)
      BY <2>7 DEF PreOrder
    <3>3. (ok \/ Rolls(p)) \in BOOLEAN
      BY DEF Rolls, Accepts
    <3>4. accepted' \in [Days -> Nat]
      BY <2>7 DEF PreOrder, TypeOK
    <3>5. exposure' \in [Days -> [Symbols -> Nat]]
      BY <2>7, NonNegType, InputsAssumption DEF PreOrder, TypeOK
    <3> HIDE DEF ok, st
    <3> QED
      BY <2>7, <3>1, <3>2, <3>3, <3>4, <3>5, LeaveType DEF PreOrder, TypeOK
  <2>8. ASSUME NEW p \in Procs, NEW out \in Outcomes, Kill(p, out) PROVE TypeOK'
    <3>1. [inner[p] EXCEPT !.killed = TRUE] \in State
      BY DEF TypeOK, State
    <3> QED
      BY <2>8, <3>1, LeaveType DEF Kill, TypeOK
  <2>9. ASSUME NEW p \in Procs, NEW pnl \in Pnls, NEW out \in Outcomes, OnPnl(p, pnl, out)
        PROVE  TypeOK'
    <3>1. [Rolled(p) EXCEPT !.killed = @ \/ pnl <= -MaxLoss] \in State
      BY RolledType DEF State
    <3>2. lossHalted' \subseteq Days
      BY <2>9 DEF OnPnl, TypeOK
    <3> QED
      BY <2>9, <3>1, <3>2, LeaveType DEF OnPnl, TypeOK
  <2>10. ASSUME NEW p \in Procs, NEW s \in Symbols, NEW v \in Values, NEW out \in Outcomes,
                Release(p, s, v, out)
         PROVE  TypeOK'
    <3>1. [Rolled(p) EXCEPT !.pos[s] = NonNeg(@ - v)] \in State
      BY RolledType, NonNegType, InputsAssumption DEF State
    <3>2. exposure' \in [Days -> [Symbols -> Nat]]
      BY <2>10, NonNegType, InputsAssumption DEF Release, TypeOK
    <3> QED
      BY <2>10, <3>1, <3>2, LeaveType DEF Release, TypeOK
  <2>11. ASSUME NEW p \in Procs, NEW held \in [Symbols -> Seeds], NEW out \in Outcomes,
                SeedPositions(p, held, out)
         PROVE  TypeOK'
    <3>1. [Rolled(p) EXCEPT
             !.pos = [s \in Symbols |-> IF held[s] > @[s] THEN held[s] ELSE @[s]]] \in State
      BY RolledType, InputsAssumption DEF State
    <3> QED
      BY <2>11, <3>1, LeaveType DEF SeedPositions, TypeOK, history
  <2>12. ASSUME NEW p \in Procs, NEW out \in Outcomes, Refresh(p, out) PROVE TypeOK'
    <3>1. (IF out = "ok" THEN Rolled(p) ELSE inner[p]) \in State
      BY RolledType DEF TypeOK
    <3> QED
      BY <2>12, <3>1, LeaveType DEF Refresh, TypeOK, history
  <2>13. ASSUME NEW p \in Procs, Crash(p) PROVE TypeOK'
    BY <2>13, <2>0, DefaultType DEF Crash, TypeOK, history
  <2>14. ASSUME Tick PROVE TypeOK'
    BY <2>14, LimitsAssumption DEF Tick, TypeOK, ledger, history, Days
  <2>15. ASSUME NEW p \in Procs, NEW locks \in BOOLEAN, Abandon(p, locks) PROVE TypeOK'
    BY <2>15, <2>0 DEF Abandon, TypeOK, ledger, history
  <2>16. ASSUME NEW d \in Days, Unstick(d) PROVE TypeOK'
    BY <2>16 DEF Unstick, TypeOK, ledger, history
  <2>17. CASE UNCHANGED vars
    BY <2>17 DEF vars, TypeOK
  <2> QED
    BY <2>1, <2>2, <2>3, <2>4, <2>5, <2>6, <2>7, <2>8, <2>9, <2>10, <2>11, <2>12, <2>13,
       <2>14, <2>15, <2>16, <2>17 DEF Next, Operation
<1> QED
  BY <1>1, <1>2, PTL DEF Spec

-----------------------------------------------------------------------------
\* Day d's row holds a state of day d.  A row can be written and still hold an
\* earlier day: kill() saves what was in memory without rolling it.
Current(d) == row[d].written /\ row[d].st.day = d

\* The row of day d covers what the callers were told that day.
Covers(d) ==
  /\ row[d].written => row[d].st.day <= d /\ d <= today
  /\ row[d].st.orders <= MaxOrders
  /\ IF Current(d)
       THEN /\ accepted[d] <= row[d].st.orders
            /\ \A s \in Symbols : exposure[d][s] <= row[d].st.pos[s]
            /\ d \in lossHalted => row[d].st.killed
       ELSE /\ accepted[d] = 0
            /\ \A s \in Symbols : exposure[d][s] = 0
            /\ d \notin lossHalted
  /\ \A s \in Symbols : exposure[d][s] <= PosCap

\* Open transactions are about today's row, one at a time, on its contents.
Serial ==
  /\ \A p \in Procs : /\ pc[p] \in {"wait", "held"} => txday[p] = today
                      /\ inner[p].day <= today
                      /\ inner[p].orders <= MaxOrders
                      /\ pc[p] = "held" /\ row[today].written => inner[p] = row[today].st
  /\ \A p, q \in Procs : pc[p] = "held" /\ pc[q] = "held" => p = q

\* The inductive invariant behind every result below.
LedgerInv == Serial /\ \A d \in Days : Covers(d)

LEMMA LedgerInit == Init => LedgerInv
  <1> SUFFICES ASSUME Init PROVE LedgerInv
    OBVIOUS
  <1>1. Default(0).day = 0 /\ Default(0).orders = 0
    BY DEF Default
  <1>2. \A p \in Procs : inner[p] = Default(0) /\ pc[p] = "down"
    BY DEF Init
  <1>3. Serial
    BY <1>1, <1>2, LimitsAssumption DEF Serial, Init
  <1>4. \A d \in Days : ~row[d].written /\ row[d].st = Default(0)
    BY DEF Init, NoRow
  <1>5. \A d \in Days : Covers(d)
    BY <1>1, <1>4, LimitsAssumption DEF Covers, Current, Init
  <1> QED
    BY <1>3, <1>5 DEF LedgerInv

\* What a manager decides on, once it holds the row and has rolled, covers
\* everything the callers were told today.
LEMMA HeldState ==
  ASSUME TypeOK, LedgerInv, NEW p \in Procs, pc[p] = "held"
  PROVE  /\ txday[p] = today
         /\ Rolled(p) \in State /\ Rolled(p).day = today
         /\ Rolled(p).orders <= MaxOrders
         /\ accepted[today] <= Rolled(p).orders
         /\ \A s \in Symbols : exposure[today][s] <= Rolled(p).pos[s]
         /\ today \in lossHalted => Rolled(p).killed
  <1> DEFINE st == Rolled(p)
  <1>1. today \in Days /\ Covers(today) /\ txday[p] = today
    BY DEF TypeOK, LedgerInv, Serial
  <1>2. st \in State /\ st.day = today
    BY RolledType
  <1>3. CASE Current(today)
    <2>1. st = row[today].st
      BY <1>3 DEF Current, LedgerInv, Serial, Rolled
    <2> QED
      BY <1>1, <1>2, <1>3, <2>1 DEF Covers
  <1>4. CASE ~Current(today)
    <2>1. accepted[today] = 0 /\ today \notin lossHalted /\ \A s \in Symbols : exposure[today][s] = 0
      BY <1>1, <1>4 DEF Covers
    <2>2. st.orders \in Nat /\ \A s \in Symbols : st.pos[s] \in Nat
      BY <1>2 DEF State
    <2>3. st.orders <= MaxOrders
      <3>1. st = inner[p] \/ st = Default(today)
        BY DEF Rolled
      <3>2. inner[p].orders <= MaxOrders
        BY DEF LedgerInv, Serial
      <3>3. Default(today).orders = 0
        BY DEF Default
      <3> QED
        BY <3>1, <3>2, <3>3, LimitsAssumption
    <2> QED
      BY <1>1, <1>2, <2>1, <2>2, <2>3
  <1> QED
    BY <1>3, <1>4

\* st may stand in today's row: it covers what the callers will have been told.
Fits(st, acc, exp, halts) ==
  IF st.day = today
    THEN /\ acc[today] <= st.orders
         /\ \A s \in Symbols : exp[today][s] <= st.pos[s]
         /\ today \in halts => st.killed
    ELSE acc[today] = 0 /\ today \notin halts /\ \A s \in Symbols : exp[today][s] = 0

\* Leaving the locked section keeps the invariant when what is saved fits, and
\* what is not saved has told nobody anything.
LEMMA LeaveKeeps ==
  ASSUME TypeOK, LedgerInv, NEW p \in Procs, NEW st \in State,
         NEW saves \in BOOLEAN, NEW out \in Outcomes, Leave(p, st, saves, out),
         st.day <= today, st.orders <= MaxOrders,
         \A d \in Days \ {today} : /\ accepted'[d] = accepted[d] /\ exposure'[d] = exposure[d]
                                   /\ d \in lossHalted' => d \in lossHalted,
         IF saves /\ out \in Saved THEN Fits(st, accepted', exposure', lossHalted')
                                   ELSE UNCHANGED <<accepted, exposure, lossHalted>>,
         \A s \in Symbols : exposure'[today][s] <= PosCap
  PROVE  LedgerInv'
  <1>1. pc[p] = "held" /\ txday[p] = today /\ today' = today /\ today \in Days
    BY DEF Leave, LedgerInv, Serial, TypeOK
  <1>2. pc' = [pc EXCEPT ![p] = "idle"] /\ txday' = [txday EXCEPT ![p] = 0]
          /\ inner' = [inner EXCEPT ![p] = st]
    BY DEF Leave
  <1>3. \A q \in Procs : q # p => /\ pc[q] # "held" /\ pc'[q] = pc[q] /\ txday'[q] = txday[q]
                                  /\ inner'[q] = inner[q]
    BY <1>1, <1>2 DEF LedgerInv, Serial, TypeOK
  <1>4. pc'[p] = "idle" /\ inner'[p] = st
    BY <1>2 DEF TypeOK
  <1>5. Serial'
    BY <1>1, <1>3, <1>4 DEF LedgerInv, Serial
  <1>6. ASSUME NEW d \in Days PROVE Covers(d)'
    <2>1. CASE saves /\ out \in Saved
      <3>1. row' = [row EXCEPT ![today] = [written |-> TRUE, st |-> st]]
        BY <1>1, <2>1 DEF Leave
      <3>2. CASE d = today
        <4>1. row'[d].written /\ row'[d].st = st
          BY <1>1, <3>1, <3>2 DEF TypeOK
        <4>2. today <= today
          BY <1>1, LimitsAssumption DEF Days
        <4> QED
          BY <1>1, <2>1, <3>2, <4>1, <4>2 DEF Covers, Current, Fits
      <3>3. CASE d # today
        <4>1. row'[d] = row[d]
          BY <3>1, <3>3 DEF TypeOK
        <4>2. Covers(d) /\ accepted'[d] = accepted[d] /\ exposure'[d] = exposure[d]
                /\ (d \in lossHalted' => d \in lossHalted)
          BY <3>3 DEF LedgerInv
        <4> QED
          BY <1>1, <4>1, <4>2 DEF Covers, Current
      <3> QED
        BY <3>2, <3>3
    <2>2. CASE ~(saves /\ out \in Saved)
      <3>1. row' = row /\ UNCHANGED <<accepted, exposure, lossHalted>>
        BY <2>2 DEF Leave
      <3> QED
        BY <1>1, <3>1 DEF LedgerInv, Covers, Current
    <2> QED
      BY <2>1, <2>2
  <1> QED
    BY <1>5, <1>6 DEF LedgerInv

\* What an accepted order does to the history, and that it respects the caps.
LEMMA PreOrderFits ==
  ASSUME TypeOK, LedgerInv, NEW p \in Procs, NEW s \in Symbols, NEW side \in Sides,
         NEW v \in Values, NEW gross \in Grosses, NEW out \in Outcomes,
         PreOrder(p, s, side, v, gross, out), Accepts(Rolled(p), s, side, v, gross)
  PROVE  /\ Booked(Rolled(p), s, side, v) \in State
         /\ Booked(Rolled(p), s, side, v).day = today
         /\ Booked(Rolled(p), s, side, v).orders <= MaxOrders
         /\ out \in Saved =>
              Fits(Booked(Rolled(p), s, side, v), accepted', exposure', lossHalted')
         /\ \A t \in Symbols : exposure'[today][t] <= PosCap
  <1> DEFINE st == Rolled(p)
             bk == Booked(st, s, side, v)
  <1>0. pc[p] = "held" /\ today \in Days /\ v \in Nat
    BY InputsAssumption DEF PreOrder, Leave, TypeOK
  <1>1. /\ st \in State /\ st.day = today /\ accepted[today] <= st.orders
        /\ \A t \in Symbols : exposure[today][t] <= st.pos[t]
    BY <1>0, HeldState
  <1>2. st.orders \in Nat /\ st.pos \in [Symbols -> Nat] /\ ~st.killed
          /\ today \notin lossHalted /\ lossHalted' = lossHalted
    BY <1>0, <1>1, HeldState DEF State, Accepts, PreOrder
  <1>3. bk \in State
    BY <1>1, BookedType
  <1>4. bk.day = today /\ bk.orders = st.orders + 1 /\ st.orders < MaxOrders
    BY <1>1 DEF Booked, State, Accepts
  <1>5. /\ \A t \in Symbols \ {s} : bk.pos[t] = st.pos[t]
        /\ side = "BUY" => bk.pos[s] = st.pos[s] + v /\ st.pos[s] + v <= PosCap
        /\ side = "SELL" => bk.pos[s] = NonNeg(st.pos[s] - v)
    BY <1>1, <1>2 DEF Booked, Accepts, Projected, State
  <1>6. accepted'[today] <= bk.orders
    BY <1>0, <1>1, <1>2, <1>4 DEF PreOrder, TypeOK
  <1>7. exposure[today] \in [Symbols -> Nat] /\ \A t \in Symbols : exposure[today][t] <= PosCap
    BY <1>0 DEF TypeOK, LedgerInv, Covers
  <1>8. /\ \A t \in Symbols \ {s} : exposure'[today][t] = exposure[today][t]
        /\ \/ exposure'[today][s] = exposure[today][s]
           \/ side = "BUY" /\ exposure'[today][s] = exposure[today][s] + v
           \/ side = "SELL" /\ exposure'[today][s] = NonNeg(exposure[today][s] - v)
        /\ side = "SELL" /\ out \in Saved => exposure'[today][s] = NonNeg(exposure[today][s] - v)
    BY <1>0, <1>7 DEF PreOrder, TypeOK, Sides
  <1>9. \A t \in Symbols : exposure'[today][t] <= PosCap
    <2>1. exposure'[today][s] <= PosCap
      BY <1>0, <1>1, <1>2, <1>5, <1>7, <1>8, LimitsAssumption DEF NonNeg
    <2> QED
      BY <1>7, <1>8, <2>1
  <1>10. ASSUME out \in Saved PROVE \A t \in Symbols : exposure'[today][t] <= bk.pos[t]
    <2>1. exposure'[today][s] <= bk.pos[s]
      BY <1>0, <1>1, <1>2, <1>5, <1>7, <1>8, <1>10 DEF NonNeg, Sides
    <2> QED
      BY <1>1, <1>5, <1>8, <2>1
  <1> QED
    <2> HIDE DEF st, bk
    <2>1. out \in Saved => Fits(bk, accepted', exposure', lossHalted')
      BY <1>2, <1>4, <1>6, <1>10 DEF Fits
    <2>2. bk.orders <= MaxOrders
      BY <1>2, <1>4, LimitsAssumption
    <2> QED
      BY <1>3, <1>4, <1>9, <2>1, <2>2 DEF st, bk

LEMMA LedgerStep ==
  ASSUME ~MidnightRace, TypeOK, LedgerInv, [Next]_vars
  PROVE  LedgerInv'
  <1> USE DEF ledger, history
  <1>0. today \in Days /\ 0 \in Days /\ today \in Nat
    BY LimitsAssumption DEF TypeOK, Days
  <1>a. ASSUME NEW d \in Days PROVE \A s \in Symbols : exposure[d][s] <= PosCap
    BY DEF LedgerInv, Covers
  <1>1. ASSUME NEW p \in Procs, Start(p) PROVE LedgerInv'
    <2>1. \A q \in Procs : /\ inner'[q] = IF q = p THEN Default(today) ELSE inner[q]
                           /\ pc'[q] = IF q = p THEN "idle" ELSE pc[q]
      BY <1>1 DEF Start, TypeOK
    <2>2. Default(today).day = today /\ Default(today).orders = 0
      BY DEF Default
    <2>3. Serial'
      BY <1>0, <1>1, <2>1, <2>2, LimitsAssumption DEF Start, LedgerInv, Serial
    <2>4. \A d \in Days : Covers(d)'
      BY <1>1 DEF Start, LedgerInv, Covers, Current
    <2> QED
      BY <2>3, <2>4 DEF LedgerInv
  <1>2. ASSUME NEW p \in Procs, Begin(p) PROVE LedgerInv'
    <2>1. Serial'
      BY <1>2 DEF Begin, LedgerInv, Serial, TypeOK
    <2>2. \A d \in Days : Covers(d)'
      BY <1>2 DEF Begin, LedgerInv, Covers, Current
    <2> QED
      BY <2>1, <2>2 DEF LedgerInv
  <1>3. ASSUME NEW p \in Procs, Acquire(p) PROVE LedgerInv'
    <2>1. txday[p] = today /\ Covers(today) /\ UNCHANGED <<today, row, txday>>
      BY <1>0, <1>3 DEF Acquire, LedgerInv, Serial
    <2>2. /\ row[today].written => Reload(p) = row[today].st
          /\ Reload(p).day <= today /\ Reload(p).orders <= MaxOrders
      BY <2>1 DEF Reload, LedgerInv, Serial, Covers
    <2>3. \A q \in Procs : /\ inner'[q] = IF q = p THEN Reload(p) ELSE inner[q]
                           /\ pc'[q] = IF q = p THEN "held" ELSE pc[q]
      BY <1>3 DEF Acquire, TypeOK
    <2>4. \A q \in Procs : pc[q] = "held" => q = p
      BY <1>3, <2>1 DEF Acquire, RowFree, LedgerInv, Serial
    <2>5. Serial'
      BY <2>1, <2>2, <2>3, <2>4 DEF LedgerInv, Serial
    <2>6. \A d \in Days : Covers(d)'
      BY <1>3 DEF Acquire, LedgerInv, Covers, Current
    <2> QED
      BY <2>5, <2>6 DEF LedgerInv
  <1>4. ASSUME NEW p \in Procs, \/ LockFails(p)
                                \/ \E locks \in BOOLEAN : Abandon(p, locks)
                                \/ \E out \in Outcomes : New(p, out)
        PROVE  LedgerInv'
    <2>1. UNCHANGED <<today, row, inner, accepted, exposure, lossHalted>>
      BY <1>4 DEF LockFails, Abandon, New
    <2>2. /\ pc'[p] \in {"idle", "down"}
          /\ \A q \in Procs : q # p => pc'[q] = pc[q] /\ txday'[q] = txday[q]
      BY <1>4 DEF LockFails, Abandon, New, TypeOK
    <2>3. Serial'
      BY <2>1, <2>2 DEF LedgerInv, Serial
    <2>4. \A d \in Days : Covers(d)'
      BY <2>1 DEF LedgerInv, Covers, Current
    <2> QED
      BY <2>3, <2>4 DEF LedgerInv
  <1>5. ASSUME NEW p \in Procs, NEW out \in Outcomes, RollFails(p, out) PROVE LedgerInv'
    <2>1. pc[p] = "held" /\ Leave(p, Rolled(p), TRUE, out)
      BY <1>5 DEF RollFails, Leave
    <2>2. /\ Rolled(p) \in State /\ Rolled(p).day <= today /\ Rolled(p).orders <= MaxOrders
          /\ Fits(Rolled(p), accepted, exposure, lossHalted)
      BY <1>0, <2>1, HeldState DEF Fits
    <2>3. UNCHANGED <<accepted, exposure, lossHalted>>
      BY <1>5 DEF RollFails
    <2> QED
      BY <1>0, <1>a, <2>1, <2>2, <2>3, LeaveKeeps
  <1>6. ASSUME NEW p \in Procs, NEW s \in Symbols, NEW side \in Sides, NEW v \in Values,
               NEW gross \in Grosses, NEW out \in Outcomes, PreOrder(p, s, side, v, gross, out)
        PROVE  LedgerInv'
    <2> DEFINE ok == Accepts(Rolled(p), s, side, v, gross)
    <2>0. pc[p] = "held" /\ Rolls(p) \in BOOLEAN
      BY <1>6 DEF PreOrder, Leave, Rolls
    <2>1. /\ Rolled(p) \in State /\ Rolled(p).day = today /\ Rolled(p).orders <= MaxOrders
          /\ Fits(Rolled(p), accepted, exposure, lossHalted)
      BY <2>0, HeldState DEF Fits
    <2>2. CASE ~ok
      <3>1. UNCHANGED <<accepted, exposure, lossHalted>>
        BY <1>6, <2>2 DEF PreOrder
      <3>2. Leave(p, IF ok THEN Booked(Rolled(p), s, side, v) ELSE Rolled(p), ok \/ Rolls(p), out)
        BY <1>6 DEF PreOrder
      <3>3. (IF ok THEN Booked(Rolled(p), s, side, v) ELSE Rolled(p)) = Rolled(p)
              /\ (ok \/ Rolls(p)) = Rolls(p)
        BY <2>0, <2>2
      <3>4. Leave(p, Rolled(p), Rolls(p), out)
        BY <3>2, <3>3
      <3> QED
        BY <1>0, <1>a, <2>0, <2>1, <3>1, <3>4, LeaveKeeps
    <2>3. CASE ok
      <3> DEFINE bk == Booked(Rolled(p), s, side, v)
      <3>1. Leave(p, bk, TRUE, out)
        BY <1>6, <2>3 DEF PreOrder
      <3>2. \A d \in Days \ {today} : /\ accepted'[d] = accepted[d] /\ exposure'[d] = exposure[d]
                                      /\ d \in lossHalted' => d \in lossHalted
        BY <1>6 DEF PreOrder, TypeOK
      <3>3. out \notin Saved => UNCHANGED <<accepted, exposure, lossHalted>>
        BY <1>6 DEF PreOrder, Saved
      <3>4. /\ bk \in State /\ bk.day = today /\ bk.orders <= MaxOrders
            /\ out \in Saved => Fits(bk, accepted', exposure', lossHalted')
            /\ \A t \in Symbols : exposure'[today][t] <= PosCap
        BY <1>6, <2>3, PreOrderFits
      <3>5. bk.day <= today
        BY <1>0, <3>4
      <3> HIDE DEF bk
      <3> QED
        BY <3>1, <3>2, <3>3, <3>4, <3>5, LeaveKeeps
    <2> QED
      BY <2>2, <2>3
  <1>7. ASSUME NEW p \in Procs, NEW out \in Outcomes, Kill(p, out) PROVE LedgerInv'
    <2> DEFINE st == [inner[p] EXCEPT !.killed = TRUE]
    <2>1. Leave(p, st, TRUE, out) /\ pc[p] = "held" /\ UNCHANGED <<accepted, exposure, lossHalted>>
      BY <1>7 DEF Kill, Leave
    <2>2. inner[p] \in State /\ inner[p].day <= today /\ inner[p].orders <= MaxOrders
      BY DEF TypeOK, LedgerInv, Serial
    <2>3. st \in State /\ st.day = inner[p].day /\ st.orders = inner[p].orders
            /\ st.pos = inner[p].pos /\ st.killed
      BY <2>2 DEF State
    <2>4. Fits(st, accepted, exposure, lossHalted)
      <3>1. CASE inner[p].day = today
        <4>1. Rolled(p) = inner[p]
          BY <3>1 DEF Rolled
        <4> QED
          BY <2>1, <2>3, <3>1, <4>1, HeldState DEF Fits
      <3>2. CASE inner[p].day # today
        <4>1. ~Current(today)
          BY <2>1, <3>2 DEF Current, LedgerInv, Serial
        <4> QED
          BY <1>0, <2>3, <3>2, <4>1 DEF LedgerInv, Covers, Fits
      <3> QED
        BY <3>1, <3>2
    <2>5. st.day <= today /\ st.orders <= MaxOrders
      BY <2>2, <2>3
    <2> HIDE DEF st
    <2> QED
      BY <1>0, <1>a, <2>1, <2>3, <2>4, <2>5, LeaveKeeps
  <1>8. ASSUME NEW p \in Procs, NEW pnl \in Pnls, NEW out \in Outcomes, OnPnl(p, pnl, out)
        PROVE  LedgerInv'
    <2> DEFINE trips == pnl <= -MaxLoss
               st == [Rolled(p) EXCEPT !.killed = @ \/ trips]
    <2>1. Leave(p, st, TRUE, out) /\ pc[p] = "held" /\ UNCHANGED <<accepted, exposure>>
      BY <1>8 DEF OnPnl, Leave
    <2>2. lossHalted' = IF trips /\ out = "ok" THEN lossHalted \cup {today} ELSE lossHalted
      BY <1>8 DEF OnPnl
    <2>3. Rolled(p) \in State
      BY RolledType
    <2>4. st \in State /\ st.day = Rolled(p).day /\ st.orders = Rolled(p).orders
            /\ st.pos = Rolled(p).pos /\ (st.killed <=> Rolled(p).killed \/ trips)
      BY <2>3 DEF State
    <2> HIDE DEF st
    <2>5. Fits(st, accepted, exposure, lossHalted')
      BY <2>1, <2>2, <2>4, HeldState DEF Fits
    <2>6. st.day <= today /\ st.orders <= MaxOrders
      BY <1>0, <2>1, <2>4, HeldState
    <2> HIDE DEF trips
    <2> QED
      BY <1>0, <1>a, <2>1, <2>2, <2>4, <2>5, <2>6, LeaveKeeps DEF Saved
  <1>9. ASSUME NEW p \in Procs, NEW s \in Symbols, NEW v \in Values, NEW out \in Outcomes,
               Release(p, s, v, out)
        PROVE  LedgerInv'
    <2> DEFINE st == [Rolled(p) EXCEPT !.pos[s] = NonNeg(@ - v)]
    <2>0. v \in Nat
      BY InputsAssumption
    <2>1. Leave(p, st, TRUE, out) /\ pc[p] = "held" /\ UNCHANGED <<accepted, lossHalted>>
      BY <1>9 DEF Release, Leave
    <2>2. Rolled(p) \in State /\ Rolled(p).pos \in [Symbols -> Nat]
      BY RolledType DEF State
    <2>3. st \in State /\ st.day = Rolled(p).day /\ st.orders = Rolled(p).orders
            /\ st.killed = Rolled(p).killed
      BY <2>0, <2>2, NonNegType DEF State
    <2>4. \A t \in Symbols : st.pos[t] = IF t = s THEN NonNeg(Rolled(p).pos[s] - v)
                                                 ELSE Rolled(p).pos[t]
      BY <2>2 DEF State
    <2>5. out \notin Saved => exposure' = exposure
      BY <1>9 DEF Release
    <2>6. \A d \in Days \ {today} : exposure'[d] = exposure[d]
      BY <1>9 DEF Release, TypeOK
    <2>7. exposure[today] \in [Symbols -> Nat]
      BY <1>0 DEF TypeOK
    <2>8. out \in Saved => \A t \in Symbols : exposure'[today][t] =
            IF t = s THEN NonNeg(exposure[today][s] - v) ELSE exposure[today][t]
      BY <1>0, <1>9, <2>7 DEF Release, TypeOK
    <2> HIDE DEF st
    <2>9. out \in Saved => \A t \in Symbols : exposure'[today][t] <= st.pos[t]
      BY <2>0, <2>1, <2>2, <2>4, <2>7, <2>8, HeldState DEF NonNeg
    <2>10. out \in Saved => Fits(st, accepted, exposure', lossHalted)
      BY <2>1, <2>3, <2>9, HeldState DEF Fits
    <2>11. \A t \in Symbols : exposure'[today][t] <= PosCap
      BY <1>0, <1>a, <2>0, <2>5, <2>7, <2>8, LimitsAssumption DEF NonNeg
    <2>12. st.day <= today /\ st.orders <= MaxOrders
      BY <1>0, <2>1, <2>3, HeldState
    <2> QED
      BY <2>1, <2>3, <2>5, <2>6, <2>10, <2>11, <2>12, LeaveKeeps
  <1>10. ASSUME NEW p \in Procs, NEW held \in [Symbols -> Seeds], NEW out \in Outcomes,
                SeedPositions(p, held, out)
         PROVE  LedgerInv'
    <2> DEFINE st == [Rolled(p) EXCEPT
                        !.pos = [s \in Symbols |-> IF held[s] > @[s] THEN held[s] ELSE @[s]]]
    <2>1. Leave(p, st, TRUE, out) /\ pc[p] = "held" /\ UNCHANGED <<accepted, exposure, lossHalted>>
      BY <1>10 DEF SeedPositions, Leave
    <2>2. Rolled(p) \in State /\ Rolled(p).pos \in [Symbols -> Nat]
      BY RolledType DEF State
    <2>3. st \in State /\ st.day = Rolled(p).day /\ st.orders = Rolled(p).orders
            /\ st.killed = Rolled(p).killed
      BY <2>2, InputsAssumption DEF State
    <2>4. \A s \in Symbols : st.pos[s] \in Nat /\ Rolled(p).pos[s] <= st.pos[s]
      BY <2>2, InputsAssumption DEF State
    <2> HIDE DEF st
    <2>5. \A s \in Symbols : exposure[today][s] \in Nat /\ exposure[today][s] <= Rolled(p).pos[s]
      BY <1>0, <2>1, HeldState DEF TypeOK
    <2>6. \A s \in Symbols : exposure[today][s] <= st.pos[s]
      BY <2>2, <2>4, <2>5
    <2>7. Fits(st, accepted, exposure, lossHalted)
      BY <2>1, <2>3, <2>6, HeldState DEF Fits
    <2>8. st.day <= today /\ st.orders <= MaxOrders
      BY <1>0, <2>1, <2>3, HeldState
    <2> QED
      BY <1>0, <1>a, <2>1, <2>3, <2>7, <2>8, LeaveKeeps
  <1>11. ASSUME NEW p \in Procs, NEW out \in Outcomes, Refresh(p, out) PROVE LedgerInv'
    <2> DEFINE st == IF out = "ok" THEN Rolled(p) ELSE inner[p]
    <2>1. Leave(p, st, FALSE, out) /\ pc[p] = "held" /\ UNCHANGED <<accepted, exposure, lossHalted>>
      BY <1>11 DEF Refresh, Leave
    <2>2. st \in State /\ st.day <= today /\ st.orders <= MaxOrders
      BY <1>0, <2>1, HeldState DEF TypeOK, LedgerInv, Serial
    <2> HIDE DEF st
    <2> QED
      BY <1>0, <1>a, <2>1, <2>2, LeaveKeeps
  <1>12. ASSUME NEW p \in Procs, Crash(p) PROVE LedgerInv'
    <2>1. \A q \in Procs : /\ inner'[q] = IF q = p THEN Default(0) ELSE inner[q]
                           /\ pc'[q] = IF q = p THEN "down" ELSE pc[q]
                           /\ txday'[q] = IF q = p THEN 0 ELSE txday[q]
      BY <1>12 DEF Crash, TypeOK
    <2>2. Default(0).day = 0 /\ Default(0).orders = 0
      BY DEF Default
    <2>3. Serial'
      BY <1>0, <1>12, <2>1, <2>2, LimitsAssumption DEF Crash, LedgerInv, Serial
    <2>4. \A d \in Days : Covers(d)'
      BY <1>12 DEF Crash, LedgerInv, Covers, Current
    <2> QED
      BY <2>3, <2>4 DEF LedgerInv
  <1>13. ASSUME Tick PROVE LedgerInv'
    <2>1. /\ today' = today + 1
          /\ \A p \in Procs : pc[p] \notin {"wait", "held"}
          /\ UNCHANGED <<row, inner, pc, txday, accepted, exposure, lossHalted>>
      BY <1>13 DEF Tick
    <2>2. \A p \in Procs : inner[p].day \in Nat
      BY LimitsAssumption DEF TypeOK, State, Days
    <2>3. Serial'
      BY <1>0, <2>1, <2>2 DEF LedgerInv, Serial
    <2>4. ASSUME NEW d \in Days PROVE Covers(d)'
      <3>1. d \in Nat /\ Covers(d)
        BY LimitsAssumption DEF Days, LedgerInv
      <3> QED
        BY <1>0, <2>1, <3>1 DEF Covers, Current
    <2> QED
      BY <2>3, <2>4 DEF LedgerInv
  <1>14. ASSUME NEW e \in Days, Unstick(e) PROVE LedgerInv'
    BY <1>14 DEF Unstick, LedgerInv, Serial, Covers, Current
  <1>15. CASE UNCHANGED vars
    BY <1>15 DEF vars, LedgerInv, Serial, Covers, Current
  <1> QED
    BY <1>1, <1>2, <1>3, <1>4, <1>5, <1>6, <1>7, <1>8, <1>9, <1>10, <1>11, <1>12, <1>13,
       <1>14, <1>15 DEF Next, Operation

\* Unless midnight passes inside an operation, the row always covers what the
\* callers were told, whoever crashes and whatever fails to commit.
THEOREM LedgerCovers == ASSUME ~MidnightRace PROVE Spec => []LedgerInv
<1>1. TypeOK /\ LedgerInv /\ [Next]_vars => LedgerInv'
  BY LedgerStep
<1> QED
  BY <1>1, LedgerInit, TypeCorrect, PTL DEF Spec

\* RiskManager never answers "go ahead" more often than max_orders_per_day.
THEOREM OrderCap == ASSUME ~MidnightRace PROVE Spec => []OrderCapRespected
<1>1. TypeOK /\ LedgerInv => OrderCapRespected
  <2> SUFFICES ASSUME TypeOK, LedgerInv, NEW d \in Days PROVE accepted[d] <= MaxOrders
    BY DEF OrderCapRespected
  <2>1. Covers(d) /\ accepted[d] \in Nat /\ row[d].st.orders \in Nat
    BY DEF LedgerInv, TypeOK, State
  <2> QED
    BY <2>1, LimitsAssumption DEF Covers
<1> QED
  BY <1>1, LedgerCovers, TypeCorrect, PTL

\* Nor lets the day's buys in a symbol exceed max_position_value.
THEOREM PositionCap == ASSUME ~MidnightRace PROVE Spec => []PositionCapRespected
<1>1. LedgerInv => PositionCapRespected
  BY DEF LedgerInv, Covers, PositionCapRespected
<1> QED
  BY <1>1, LedgerCovers, PTL

\* An accepted order finds the day not halted and headroom left.
LEMMA AcceptedOrder ==
  ASSUME TypeOK, LedgerInv, NEW p \in Procs, NEW s \in Symbols, NEW side \in Sides,
         NEW v \in Values, NEW gross \in Grosses, NEW out \in Outcomes,
         PreOrder(p, s, side, v, gross, out), Accepts(Rolled(p), s, side, v, gross)
  PROVE  /\ today \notin lossHalted
         /\ accepted[today] < MaxOrders
         /\ side = "BUY" => exposure[today][s] + v <= PosCap
  <1>1. pc[p] = "held" /\ today \in Days /\ v \in Nat
    BY InputsAssumption DEF PreOrder, Leave, TypeOK
  <1>2. Rolled(p).orders \in Nat /\ Rolled(p).pos[s] \in Nat /\ accepted[today] \in Nat
          /\ exposure[today][s] \in Nat
    BY <1>1, RolledType DEF State, TypeOK
  <1> QED
    BY <1>1, <1>2, HeldState, LimitsAssumption DEF Accepts, Projected

\* An acknowledged daily-loss trip (RiskManager::on_pnl) is obeyed by every
\* process for the rest of the day.
THEOREM LossHalt == ASSUME ~MidnightRace PROVE Spec => LossHaltHolds
<1>1. TypeOK /\ LedgerInv /\ [Next]_vars => [Cleared => today \notin lossHalted]_vars
  <2> SUFFICES ASSUME TypeOK, LedgerInv, Next, Cleared PROVE today \notin lossHalted
    BY DEF vars, Cleared
  <2>1. CASE accepted' # accepted
    <3>a. ASSUME NEW p \in Procs, \/ Start(p) \/ Begin(p) \/ Acquire(p) \/ LockFails(p)
                                  \/ Crash(p) \/ \E locks \in BOOLEAN : Abandon(p, locks)
          PROVE  accepted' = accepted
      BY <3>a DEF history, Start, Begin, Acquire, LockFails, Crash, Abandon
    <3>b. ASSUME NEW p \in Procs, NEW out \in Outcomes,
                 \/ New(p, out) \/ RollFails(p, out) \/ Kill(p, out) \/ Refresh(p, out)
                 \/ \E pnl \in Pnls : OnPnl(p, pnl, out)
                 \/ \E s \in Symbols, v \in Values : Release(p, s, v, out)
                 \/ \E held \in [Symbols -> Seeds] : SeedPositions(p, held, out)
          PROVE  accepted' = accepted
      BY <3>b DEF history, New, RollFails, Kill, Refresh, OnPnl, Release, SeedPositions
    <3>c. Tick \/ (\E d \in Days : Unstick(d)) => accepted' = accepted
      BY DEF history, Tick, Unstick
    <3>1. PICK p \in Procs, s \in Symbols, side \in Sides, v \in Values, gross \in Grosses,
               out \in Outcomes : PreOrder(p, s, side, v, gross, out)
      BY <2>1, <3>a, <3>b, <3>c DEF Next, Operation
    <3>2. Accepts(Rolled(p), s, side, v, gross)
      BY <2>1, <3>1 DEF PreOrder
    <3> QED
      BY <3>1, <3>2, AcceptedOrder
  <2>2. ASSUME NEW p \in Procs, Refresh(p, "ok"), KillSwitchReason(p) = ""
        PROVE  today \notin lossHalted
    <3>1. pc[p] = "held" /\ Rolled(p) = inner[p] /\ ~inner[p].killed
      BY <2>2 DEF Refresh, Leave, KillSwitchReason, Rolls, Rolled
    <3> QED
      BY <3>1, HeldState
  <2> QED
    BY <2>1, <2>2 DEF Cleared
<1> QED
  BY <1>1, LedgerCovers, TypeCorrect, PTL DEF Spec, LossHaltHolds

\* RiskManager over the shared row implements the account of AccountRisk.
THEOREM OneAccount == ASSUME ~MidnightRace PROVE Spec => ActsAsOneAccount
<1> DEFINE seen == <<accepted, exposure, lossHalted>>
<1>1. Init => Account!Init
  BY DEF Init, Account!Init
<1>2. TypeOK /\ LedgerInv /\ [Next]_vars => [Account!Next]_seen
  <2> SUFFICES ASSUME TypeOK, LedgerInv, [Next]_vars PROVE [Account!Next]_seen
    OBVIOUS
  <2>0. today \in Days
    BY DEF TypeOK
  <2>a. \A n \in Nat, v \in Nat : NonNeg(n - v) = Account!Lower(n, v)
    BY DEF NonNeg, Account!Lower
  <2>b. ASSUME NEW s \in Symbols, NEW v \in Values,
               exposure' = [exposure EXCEPT ![today][s] = NonNeg(@ - v)]
        PROVE  exposure' = [exposure EXCEPT ![today][s] = Account!Lower(@, v)]
    BY <2>0, <2>a, <2>b, InputsAssumption DEF TypeOK
  <2>1. ASSUME NEW p \in Procs, NEW s \in Symbols, NEW side \in Sides, NEW v \in Values,
               NEW gross \in Grosses, NEW out \in Outcomes, PreOrder(p, s, side, v, gross, out)
        PROVE  [Account!Next]_seen
    <3> DEFINE ok == Accepts(Rolled(p), s, side, v, gross)
    <3>0. lossHalted' = lossHalted
      BY <2>1 DEF PreOrder
    <3>1. CASE ~ok \/ out \notin Saved \/ (side = "BUY" /\ out # "ok")
      BY <2>1, <3>0, <3>1 DEF PreOrder, Saved
    <3>2. CASE ok /\ side = "BUY" /\ out = "ok"
      <4>1. accepted' = [accepted EXCEPT ![today] = @ + 1]
              /\ exposure' = [exposure EXCEPT ![today][s] = @ + v]
        BY <2>1, <3>2 DEF PreOrder
      <4>2. Account!AllowBuy(today, s, v)
        BY <2>1, <3>0, <3>2, <4>1, AcceptedOrder DEF Account!AllowBuy, Account!Spend
      <4> QED
        BY <2>0, <4>2 DEF Account!Next
    <3>3. CASE ok /\ side = "SELL" /\ out = "ok"
      <4>1. accepted' = [accepted EXCEPT ![today] = @ + 1]
              /\ exposure' = [exposure EXCEPT ![today][s] = NonNeg(@ - v)]
        BY <2>1, <3>3 DEF PreOrder, Saved
      <4>2. Account!AllowSell(today, s, v)
        BY <2>1, <2>b, <3>0, <3>3, <4>1, AcceptedOrder DEF Account!AllowSell, Account!Spend
      <4> QED
        BY <2>0, <4>2 DEF Account!Next
    <3>4. CASE ok /\ side = "SELL" /\ out \in Saved \ {"ok"}
      <4>1. accepted' = accepted /\ exposure' = [exposure EXCEPT ![today][s] = NonNeg(@ - v)]
        BY <2>1, <3>4 DEF PreOrder
      <4>2. Account!GiveBack(today, s, v)
        BY <2>b, <3>0, <4>1 DEF Account!GiveBack
      <4> QED
        BY <2>0, <4>2 DEF Account!Next
    <3> QED
      BY <3>1, <3>2, <3>3, <3>4 DEF Sides, Saved
  <2>2. ASSUME NEW p \in Procs, NEW pnl \in Pnls, NEW out \in Outcomes, OnPnl(p, pnl, out)
        PROVE  [Account!Next]_seen
    <3>1. CASE lossHalted' = lossHalted
      BY <2>2, <3>1 DEF OnPnl
    <3>2. CASE lossHalted' # lossHalted
      <4>1. Account!Halt(today)
        BY <2>2, <3>2 DEF OnPnl, Account!Halt
      <4> QED
        BY <2>0, <4>1 DEF Account!Next
    <3> QED
      BY <3>1, <3>2
  <2>3. ASSUME NEW p \in Procs, NEW s \in Symbols, NEW v \in Values, NEW out \in Outcomes,
               Release(p, s, v, out)
        PROVE  [Account!Next]_seen
    <3>1. CASE out \notin Saved
      BY <2>3, <3>1 DEF Release
    <3>2. CASE out \in Saved
      <4>1. Account!GiveBack(today, s, v)
        BY <2>3, <2>b, <3>2 DEF Release, Account!GiveBack
      <4> QED
        BY <2>0, <4>1 DEF Account!Next
    <3> QED
      BY <3>1, <3>2
  <2>4. CASE \/ \E p \in Procs : Start(p) \/ Begin(p) \/ Acquire(p) \/ LockFails(p)
                                   \/ Crash(p) \/ \E locks \in BOOLEAN : Abandon(p, locks)
             \/ \E p \in Procs, out \in Outcomes : \/ New(p, out) \/ RollFails(p, out)
                  \/ Kill(p, out) \/ Refresh(p, out)
                  \/ \E held \in [Symbols -> Seeds] : SeedPositions(p, held, out)
             \/ \E d \in Days : Unstick(d)
             \/ Tick
             \/ UNCHANGED vars
    BY <2>4 DEF history, vars, Start, Begin, Acquire, LockFails, RollFails, New, Kill, Refresh,
                SeedPositions, Crash, Tick, Abandon, Unstick
  <2> QED
    BY <2>1, <2>2, <2>3, <2>4 DEF Next, Operation
<1> QED
  BY <1>1, <1>2, LedgerCovers, TypeCorrect, PTL DEF Spec, ActsAsOneAccount, Account!Spec
=============================================================================
