---------------------------- MODULE AccountRisk -----------------------------
(***************************************************************************)
(* What the risk layer promises the rest of the desk, with nothing about   *)
(* processes, locks or rows: one account, one book of spent headroom per   *)
(* day, and a halt that lasts the day.  RiskLedger implements it;          *)
(* OrderGateway is built on it.                                            *)
(***************************************************************************)
EXTENDS Integers

CONSTANTS
  TradingDays,    \* the days the account trades
  Symbols,        \* traded symbols
  Values,         \* notionals
  MaxOrders,      \* orders per day
  PosCap          \* notional per symbol

VARIABLES
  spent,     \* orders allowed so far, per day
  exposure,  \* notional bought less given back, per day and symbol
  halted     \* days on which trading stopped

Init ==
  /\ spent = [d \in TradingDays |-> 0]
  /\ exposure = [d \in TradingDays |-> [s \in Symbols |-> 0]]
  /\ halted = {}

\* mutant: `.max(0.0)` forgotten
LowerUnclamped(n, v) == n - v

Lower(n, v) == IF n < v THEN 0 ELSE n - v

\* An order is allowed, once, against headroom nobody else has spent.
Spend(d) ==
  /\ d \notin halted
  /\ spent[d] < MaxOrders
  /\ spent' = [spent EXCEPT ![d] = @ + 1]

AllowBuy(d, s, v) ==
  /\ Spend(d)
  /\ exposure[d][s] + v <= PosCap
  /\ exposure' = [exposure EXCEPT ![d][s] = @ + v]
  /\ UNCHANGED halted

AllowSell(d, s, v) ==
  /\ Spend(d)
  /\ exposure' = [exposure EXCEPT ![d][s] = Lower(@, v)]
  /\ UNCHANGED halted

\* Headroom comes back: a release, or a sale whose answer was lost.
GiveBack(d, s, v) ==
  /\ exposure' = [exposure EXCEPT ![d][s] = Lower(@, v)]
  /\ UNCHANGED <<spent, halted>>

Halt(d) ==
  /\ halted' = halted \cup {d}
  /\ UNCHANGED <<spent, exposure>>

Next ==
  \E d \in TradingDays :
    \/ Halt(d)
    \/ \E s \in Symbols, v \in Values :
         AllowBuy(d, s, v) \/ AllowSell(d, s, v) \/ GiveBack(d, s, v)

Spec == Init /\ [][Next]_<<spent, exposure, halted>>
=============================================================================
