------------------------- MODULE OrderGatewayProofs -------------------------
(***************************************************************************)
(* Proofs about OrderGateway, for any number of calls, client ids,         *)
(* restarts and any limits: type correctness and, from it, that the wire   *)
(* stays within the ledger's cap; for a gateway built with the process,    *)
(* that no client id is sent twice in a life and none that is journalled   *)
(* is sent again; and that what any instance remembers as placed was.      *)
(***************************************************************************)
EXTENDS OrderGateway, FiniteSetTheorems, TLAPS

\* A record of no call is a call.
LEMMA NoCallType == NoCall \in Call
  BY CallsAssumption DEF NoCall, Call, AnyCid, Steps

LEMMA ReplayType == Replay \in [Cids -> Marks]
  BY DEF Replay, Marks

LEMMA AppendType ==
  ASSUME TypeOK, NEW w \in Writes, NEW lines \in SUBSET (Cids \X {"placed", "dry_run"}),
         Append(lines, w)
  PROVE  journal' \subseteq Cids \X {"placed", "dry_run"} /\ torn' \in BOOLEAN
  BY DEF Append, TypeOK

LEMMA ReturnType ==
  ASSUME TypeOK, NEW r \in Calls, Return(r)
  PROVE  call' \in [Calls -> Call]
  BY NoCallType DEF Return, TypeOK

LEMMA GotoType ==
  ASSUME TypeOK, NEW r \in Calls, NEW pc \in Steps, Goto(r, pc)
  PROVE  call' \in [Calls -> Call]
  BY DEF Goto, TypeOK, Call

LEMMA MarkType ==
  ASSUME TypeOK, NEW r \in Calls, NEW m \in Marks, Mark(r, m)
  PROVE  sent' \in [Instances -> [Cids -> Marks]]
  BY DEF Mark, TypeOK

\* The three variables of the risk layer have their types.
RiskTypeOK ==
  /\ spent \in [{0} -> Nat]
  /\ exposure \in [{0} -> [Symbols -> Nat]]
  /\ halted \subseteq {0}

LEMMA RiskTypes ==
  ASSUME RiskTypeOK, NEW s \in Symbols, NEW v \in Values
  PROVE  /\ Risk!AllowBuy(0, s, v) => RiskTypeOK'
         /\ Risk!AllowSell(0, s, v) => RiskTypeOK'
         /\ Risk!GiveBack(0, s, v) => RiskTypeOK'
         /\ Risk!Halt(0) => RiskTypeOK'
  <1>0. v \in Nat /\ exposure[0][s] \in Nat /\ spent[0] \in Nat
    BY RiskAssumption DEF RiskTypeOK
  <1>1. Risk!Lower(exposure[0][s], v) \in Nat
    BY <1>0 DEF Risk!Lower
  <1>2. Risk!AllowBuy(0, s, v) => RiskTypeOK'
    <2> SUFFICES ASSUME Risk!AllowBuy(0, s, v) PROVE RiskTypeOK'
      OBVIOUS
    <2>1. spent' = [spent EXCEPT ![0] = @ + 1]
      BY DEF Risk!AllowBuy, Risk!Spend
    <2>2. exposure' = [exposure EXCEPT ![0][s] = @ + v] /\ halted' = halted
      BY DEF Risk!AllowBuy
    <2>3. spent' \in [{0} -> Nat]
      BY <1>0, <2>1 DEF RiskTypeOK
    <2>4. exposure' \in [{0} -> [Symbols -> Nat]]
      <3> DEFINE n == exposure[0][s] + v
      <3>1. n \in Nat /\ exposure' = [exposure EXCEPT ![0][s] = n]
        BY <1>0, <2>2
      <3> HIDE DEF n
      <3> QED
        BY <3>1 DEF RiskTypeOK
    <2> QED
      BY <2>2, <2>3, <2>4 DEF RiskTypeOK
  <1>3. Risk!AllowSell(0, s, v) => RiskTypeOK'
    <2> SUFFICES ASSUME Risk!AllowSell(0, s, v) PROVE RiskTypeOK'
      OBVIOUS
    <2>1. spent' = [spent EXCEPT ![0] = @ + 1]
      BY DEF Risk!AllowSell, Risk!Spend
    <2>2. exposure' = [exposure EXCEPT ![0][s] = Risk!Lower(@, v)] /\ halted' = halted
      BY DEF Risk!AllowSell
    <2>3. spent' \in [{0} -> Nat]
      BY <1>0, <2>1 DEF RiskTypeOK
    <2>4. exposure' \in [{0} -> [Symbols -> Nat]]
      BY <1>0, <1>1, <2>2 DEF RiskTypeOK
    <2> QED
      BY <2>2, <2>3, <2>4 DEF RiskTypeOK
  <1>4. Risk!GiveBack(0, s, v) => RiskTypeOK'
    BY <1>0, <1>1 DEF Risk!GiveBack, RiskTypeOK
  <1>5. Risk!Halt(0) => RiskTypeOK'
    BY DEF Risk!Halt, RiskTypeOK
  <1> QED
    BY <1>2, <1>3, <1>4, <1>5

LEMMA TypeInit == Init => TypeOK
  <1> SUFFICES ASSUME Init PROVE TypeOK
    OBVIOUS
  <1>1. spent \in [{0} -> Nat] /\ exposure \in [{0} -> [Symbols -> Nat]] /\ halted = {}
    BY DEF Init, Risk!Init
  <1>2. life \in 0 .. MaxLives /\ gw \in Instances \cup {NoInst} /\ sends \in Nat
    BY GatewayAssumption DEF Init
  <1>3. sent \in [Instances -> [Cids -> Marks]] /\ placed \in [Lives -> [Cids -> Nat]]
    BY DEF Init, Marks
  <1>4. call \in [Calls -> Call]
    BY NoCallType DEF Init
  <1> QED
    BY <1>1, <1>2, <1>3, <1>4 DEF Init, TypeOK

\* Every step keeps the types: one case per action.
LEMMA TypeStep == TypeOK /\ [Next]_vars => TypeOK'
  <1> SUFFICES ASSUME TypeOK, [Next]_vars PROVE TypeOK'
    OBVIOUS
  <1> USE DEF gate, disk, history, risk
  <1>0. RiskTypeOK
    BY DEF TypeOK, RiskTypeOK
  <1>1. ASSUME NEW l \in BOOLEAN, Boot(l) PROVE TypeOK'
    <2>1. life' \in 0 .. MaxLives
      BY <1>1, GatewayAssumption DEF Boot, TypeOK
    <2>2. sent' \in [Instances -> [Cids -> Marks]] /\ gw' \in Instances \cup {NoInst}
      BY <1>1, ReplayType DEF Boot, Marks, Instances
    <2> QED
      BY <1>1, <2>1, <2>2 DEF Boot, TypeOK
  <1>2. ASSUME NEW tears \in BOOLEAN, Crash(tears) PROVE TypeOK'
    BY <1>2, NoCallType DEF Crash, TypeOK, Marks
  <1>3. ASSUME NEW w \in Writes, GuardBlocks(w) PROVE TypeOK'
    BY <1>3, AppendType DEF GuardBlocks, TypeOK
  <1>4. ASSUME NEW r \in Calls, NEW c \in Cids, Submit(r, c) PROVE TypeOK'
    <2>1. call' \in [Calls -> Call]
      BY <1>4, NoCallType DEF Submit, TypeOK, Call, NoCall, Steps
    <2> QED
      BY <1>4, <2>1 DEF Submit, TypeOK
  <1>5. ASSUME NEW r \in Calls, Build(r) PROVE TypeOK'
    <2>1. CASE torn
      BY <1>5, <2>1, ReturnType DEF Build, TypeOK
    <2>2. CASE ~torn
      <3>1. call' \in [Calls -> Call]
        <4>1. [call[r] EXCEPT !.pc = "risk", !.inst = r] \in Call
          BY DEF TypeOK, Call, Steps, Instances
        <4>2. call' = [call EXCEPT ![r] = [call[r] EXCEPT !.pc = "risk", !.inst = r]]
          BY <1>5, <2>2 DEF Build, TypeOK
        <4> QED
          BY <4>1, <4>2 DEF TypeOK
      <3> QED
        BY <1>5, <2>2, <3>1, ReplayType DEF Build, TypeOK, Instances
    <2> QED
      BY <2>1, <2>2
  <1>6. ASSUME NEW r \in Calls, RiskAccepts(r) PROVE TypeOK'
    <2>1. PICK s \in Symbols, v \in Values : Risk!AllowBuy(0, s, v) \/ Risk!AllowSell(0, s, v)
      BY <1>6 DEF RiskAccepts
    <2>2. RiskTypeOK'
      BY <1>0, <2>1, RiskTypes
    <2>3. call' \in [Calls -> Call]
      BY <1>6, GotoType DEF RiskAccepts, Steps
    <2> QED
      BY <1>6, <2>2, <2>3 DEF RiskAccepts, RiskTypeOK, TypeOK
  <1>7. ASSUME NEW r \in Calls, NEW w \in Writes, RiskRefuses(r, w) PROVE TypeOK'
    BY <1>7, AppendType, ReturnType DEF RiskRefuses, TypeOK
  <1>8. ASSUME NEW r \in Calls, RiskFails(r) PROVE TypeOK'
    <2>1. PICK s \in Symbols, v \in Values : Risk!GiveBack(0, s, v)
      BY <1>8 DEF RiskFails
    <2>2. RiskTypeOK'
      BY <1>0, <2>1, RiskTypes
    <2> QED
      BY <1>8, <2>2, ReturnType DEF RiskFails, RiskTypeOK, TypeOK
  <1>9. ASSUME NEW r \in Calls, Reserve(r) PROVE TypeOK'
    <2>1. CASE Reserved(r) # "free"
      BY <1>9, <2>1, ReturnType DEF Reserve, TypeOK
    <2>2. CASE Reserved(r) = "free"
      <3>1. call' \in [Calls -> Call]
        BY <1>9, <2>2, GotoType DEF Reserve, Steps
      <3>2. sent' \in [Instances -> [Cids -> Marks]]
        BY <1>9, <2>2, MarkType DEF Reserve, Marks
      <3> QED
        BY <1>9, <3>1, <3>2 DEF Reserve, TypeOK
    <2> QED
      BY <2>1, <2>2
  <1>10. ASSUME NEW r \in Calls, NEW w \in Writes, DryRun(r, w) PROVE TypeOK'
    <2>1. call[r].cid \in Cids
      BY DEF TypeOK, Call
    <2> QED
      BY <1>10, <2>1, AppendType, ReturnType, MarkType DEF DryRun, TypeOK, Marks
  <1>11. ASSUME NEW r \in Calls, NEW fate \in Fates, Send(r, fate) PROVE TypeOK'
    <2>1. call' \in [Calls -> Call]
      BY <1>11 DEF Send, TypeOK, Call, Steps
    <2>2. placed' \in [Lives -> [Cids -> Nat]]
      <3>1. CASE placed' = placed
        BY <3>1 DEF TypeOK
      <3>2. CASE placed' # placed
        <4> DEFINE c == call[r].cid
                   n == placed[life][c] + 1
        <4>1. placed' = [placed EXCEPT ![life][c] = n]
          BY <1>11, <3>2 DEF Send
        <4>2. life \in Lives /\ c \in Cids
          BY <3>2, <4>1 DEF TypeOK, Call
        <4>3. n \in Nat
          BY <4>2 DEF TypeOK
        <4> HIDE DEF n, c
        <4> QED
          BY <4>1, <4>2, <4>3 DEF TypeOK
      <3> QED
        BY <3>1, <3>2
    <2> QED
      BY <1>11, <2>1, <2>2 DEF Send, TypeOK
  <1>12. ASSUME NEW r \in Calls, NEW w \in Writes, Placed(r, w) PROVE TypeOK'
    <2>1. call[r].cid \in Cids
      BY DEF TypeOK, Call
    <2> QED
      BY <1>12, <2>1, AppendType, ReturnType, MarkType DEF Placed, TypeOK, Marks
  <1>13. ASSUME NEW r \in Calls, NEW w \in Writes, Rejected(r, w) PROVE TypeOK'
    BY <1>13, AppendType, ReturnType, MarkType DEF Rejected, TypeOK, Marks
  <1>14. ASSUME NEW r \in Calls, NEW w \in Writes, Error(r, w) PROVE TypeOK'
    BY <1>14, AppendType, ReturnType DEF Error, TypeOK
  <1>15. ASSUME NEW r \in Calls, Drop(r) PROVE TypeOK'
    BY <1>15, ReturnType DEF Drop, TypeOK
  <1>16. ASSUME Others PROVE TypeOK'
    <2>1. RiskTypeOK'
      <3>1. CASE Risk!Halt(0)
        BY <1>0, <3>1 DEF Risk!Halt, RiskTypeOK
      <3>2. CASE \E s \in Symbols, v \in Values :
                   Risk!AllowBuy(0, s, v) \/ Risk!AllowSell(0, s, v) \/ Risk!GiveBack(0, s, v)
        BY <1>0, <3>2, RiskTypes
      <3> QED
        BY <1>16, <3>1, <3>2 DEF Others, Risk!Next
    <2> QED
      BY <1>16, <2>1 DEF Others, RiskTypeOK, TypeOK
  <1>17. CASE UNCHANGED vars
    BY <1>17 DEF vars, TypeOK
  <1> QED
    BY <1>1, <1>2, <1>3, <1>4, <1>5, <1>6, <1>7, <1>8, <1>9, <1>10, <1>11, <1>12, <1>13,
       <1>14, <1>15, <1>16, <1>17 DEF Next, Progress

\* OrderGateway::place, its map, journal and callers keep their types for ever.
THEOREM TypeCorrect == Spec => []TypeOK
  BY TypeInit, TypeStep, PTL DEF Spec

-----------------------------------------------------------------------------
\* Calls the ledger has accepted that have not used the acceptance.
Cleared == {r \in Calls : call[r].pc \in {"reserve", "slot"}}

\* The inductive invariant behind WireWithinCap: acceptances used and
\* acceptances outstanding never exceed what the ledger has spent.
PaidFor ==
  /\ sends + Cardinality(Cleared) <= spent[0]
  /\ spent[0] <= MaxOrders

LEMMA ClearedFinite == IsFiniteSet(Cleared) /\ Cardinality(Cleared) \in Nat
  <1>1. Cleared \subseteq Calls
    BY DEF Cleared
  <1> QED
    BY <1>1, CallsAssumption, FS_Subset, FS_CardinalityType

\* Calls that leave take nothing with them.
LEMMA PaidWhenFewer ==
  ASSUME TypeOK, TypeOK', PaidFor, Cleared' \subseteq Cleared,
         sends' = sends, spent[0] <= spent'[0], spent'[0] <= MaxOrders
  PROVE  PaidFor'
  <1>1. Cardinality(Cleared') <= Cardinality(Cleared) /\ Cardinality(Cleared') \in Nat
    BY ClearedFinite, FS_Subset, FS_CardinalityType
  <1> QED
    BY <1>1, ClearedFinite, RiskAssumption DEF PaidFor, TypeOK

\* An acceptance raises the account's spent count by one, within the cap.
LEMMA SpendStep ==
  ASSUME TypeOK, Risk!Spend(0)
  PROVE  spent'[0] = spent[0] + 1 /\ spent'[0] <= MaxOrders
  BY RiskAssumption DEF Risk!Spend, TypeOK

LEMMA PaidStep == TypeOK /\ TypeOK' /\ PaidFor /\ [Next]_vars => PaidFor'
  <1> SUFFICES ASSUME TypeOK, TypeOK', PaidFor, [Next]_vars PROVE PaidFor'
    OBVIOUS
  <1> USE DEF gate, disk, history, risk
  <1>0. spent[0] \in Nat /\ sends \in Nat
    BY DEF TypeOK
  <1>1. ASSUME Cleared' \subseteq Cleared, UNCHANGED <<sends, spent>> PROVE PaidFor'
    BY <1>0, <1>1, PaidWhenFewer DEF PaidFor
  <1>2. ASSUME NEW r \in Calls, Return(r) PROVE Cleared' \subseteq Cleared
    BY <1>2 DEF Return, Cleared, NoCall, TypeOK
  <1>3. ASSUME NEW l \in BOOLEAN, Boot(l) PROVE PaidFor'
    BY <1>1, <1>3 DEF Boot, Cleared
  <1>4. ASSUME NEW tears \in BOOLEAN, Crash(tears) PROVE PaidFor'
    BY <1>1, <1>4 DEF Crash, Cleared, NoCall
  <1>5. ASSUME NEW w \in Writes, GuardBlocks(w) PROVE PaidFor'
    BY <1>1, <1>5 DEF GuardBlocks, Cleared
  <1>6. ASSUME NEW r \in Calls, NEW c \in Cids, Submit(r, c) PROVE PaidFor'
    <2>1. Cleared' \subseteq Cleared
      BY <1>6 DEF Submit, Cleared, NoCall, TypeOK
    <2> QED
      BY <1>1, <1>6, <2>1 DEF Submit
  <1>7. ASSUME NEW r \in Calls, Build(r) PROVE PaidFor'
    <2>1. Cleared' \subseteq Cleared
      <3>1. CASE torn
        BY <1>2, <1>7, <3>1 DEF Build
      <3>2. CASE ~torn
        <4>1. call' = [call EXCEPT ![r] = [call[r] EXCEPT !.pc = "risk", !.inst = r]]
          BY <1>7, <3>2 DEF Build, TypeOK
        <4>2. call'[r].pc = "risk" /\ \A q \in Calls \ {r} : call'[q] = call[q]
          BY <4>1 DEF TypeOK, Call
        <4> QED
          BY <4>2 DEF Cleared
      <3> QED
        BY <3>1, <3>2
    <2> QED
      BY <1>1, <1>7, <2>1 DEF Build
  <1>8. ASSUME NEW r \in Calls, RiskAccepts(r) PROVE PaidFor'
    <2>1. Cleared' \subseteq Cleared \cup {r}
      BY <1>8 DEF RiskAccepts, Goto, Cleared, TypeOK
    <2>2. r \notin Cleared
      BY <1>8 DEF RiskAccepts, Cleared
    <2>3. IsFiniteSet(Cleared \cup {r}) /\ Cardinality(Cleared \cup {r}) = Cardinality(Cleared) + 1
      BY <2>2, ClearedFinite, FS_AddElement
    <2>4. Cardinality(Cleared') \in Nat /\ Cardinality(Cleared') <= Cardinality(Cleared) + 1
      BY <2>1, <2>3, FS_Subset, FS_CardinalityType
    <2>5. Risk!Spend(0)
      BY <1>8 DEF RiskAccepts, Risk!AllowBuy, Risk!AllowSell
    <2>6. spent'[0] = spent[0] + 1 /\ spent'[0] <= MaxOrders
      BY <2>5, SpendStep
    <2>7. sends' = sends
      BY <1>8 DEF RiskAccepts
    <2> QED
      BY <1>0, <2>4, <2>6, <2>7, ClearedFinite, RiskAssumption DEF PaidFor
  <1>9. ASSUME NEW r \in Calls, NEW w \in Writes, RiskRefuses(r, w) PROVE PaidFor'
    BY <1>1, <1>2, <1>9 DEF RiskRefuses
  <1>10. ASSUME NEW r \in Calls, RiskFails(r) PROVE PaidFor'
    BY <1>1, <1>2, <1>10 DEF RiskFails, Risk!GiveBack
  <1>11. ASSUME NEW r \in Calls, Reserve(r) PROVE PaidFor'
    <2>1. Cleared' \subseteq Cleared
      BY <1>2, <1>11 DEF Reserve, Goto, Cleared, TypeOK
    <2> QED
      BY <1>1, <1>11, <2>1 DEF Reserve
  <1>12. ASSUME NEW r \in Calls, NEW w \in Writes, DryRun(r, w) PROVE PaidFor'
    BY <1>1, <1>2, <1>12 DEF DryRun
  <1>13. ASSUME NEW r \in Calls, NEW fate \in Fates, Send(r, fate) PROVE PaidFor'
    <2>1. Cleared' = Cleared \ {r}
      BY <1>13 DEF Send, Cleared, TypeOK
    <2>2. r \in Cleared
      BY <1>13 DEF Send, Cleared
    <2>3. Cardinality(Cleared \ {r}) = Cardinality(Cleared) - 1
      BY <2>2, ClearedFinite, FS_RemoveElement
    <2>4. sends' = sends + 1 /\ spent' = spent
      BY <1>13 DEF Send
    <2> QED
      BY <1>0, <2>1, <2>3, <2>4, ClearedFinite, RiskAssumption DEF PaidFor
  <1>14. ASSUME NEW r \in Calls, NEW w \in Writes, Placed(r, w) \/ Rejected(r, w) \/ Error(r, w)
         PROVE  PaidFor'
    BY <1>1, <1>2, <1>14 DEF Placed, Rejected, Error
  <1>15. ASSUME NEW r \in Calls, Drop(r) PROVE PaidFor'
    BY <1>1, <1>2, <1>15 DEF Drop
  <1>16. ASSUME Others PROVE PaidFor'
    <2>1. Cleared' \subseteq Cleared /\ sends' = sends
      BY <1>16 DEF Others, Cleared
    <2>2. spent' = spent \/ Risk!Spend(0)
      BY <1>16 DEF Others, Risk!Next, Risk!Halt, Risk!AllowBuy, Risk!AllowSell, Risk!GiveBack
    <2>3. spent[0] <= spent'[0] /\ spent'[0] <= MaxOrders
      BY <1>0, <2>2, SpendStep DEF PaidFor
    <2> QED
      BY <2>1, <2>3, PaidWhenFewer
  <1>17. CASE UNCHANGED vars
    BY <1>1, <1>17 DEF vars, Cleared
  <1> QED
    BY <1>3, <1>4, <1>5, <1>6, <1>7, <1>8, <1>9, <1>10, <1>11, <1>12, <1>13,
       <1>14, <1>15, <1>16, <1>17 DEF Next, Progress

\* However many calls, restarts, twins and gateway instances there are, the
\* requests OrderGateway::place puts on the wire stay within the day's cap.
THEOREM WireCapped == Spec => []WireWithinCap
<1>1. Init => PaidFor
  <2> SUFFICES ASSUME Init PROVE PaidFor
    OBVIOUS
  <2>1. Cleared = {} /\ sends = 0 /\ spent[0] = 0
    BY DEF Init, Cleared, NoCall, Risk!Init
  <2> QED
    BY <2>1, FS_EmptySet, RiskAssumption DEF PaidFor
<1>2. TypeOK /\ PaidFor => WireWithinCap
  BY ClearedFinite, RiskAssumption DEF TypeOK, PaidFor, WireWithinCap
<1> QED
  BY <1>1, <1>2, TypeCorrect, PaidStep, PTL DEF Spec

-----------------------------------------------------------------------------
Busy(r) == call[r].pc \in {"slot", "wire"}

\* All calls go through the one instance, which exists only while the process runs.
OneInstance ==
  /\ gw \in {Desk, NoInst}
  /\ ~up => gw = NoInst
  /\ gw = Desk => life \in Lives
  /\ \A r \in Calls : call[r].pc # "idle" => /\ call[r].pc # "build"
                                            /\ call[r].inst = Desk /\ gw = Desk

\* A reservation has one owner, and belongs to nobody else until it is settled.
OneOwner ==
  /\ \A r \in Calls : Busy(r) => sent[Desk][call[r].cid] = "pending"
  /\ \A r, q \in Calls : Busy(r) /\ Busy(q) /\ call[r].cid = call[q].cid => r = q

\* An id that is free, or reserved for a request that is not accepted, has no
\* order at the exchange from this life; later lives have none at all.
NotYetPlaced ==
  /\ \A l \in Lives, c \in Cids : l > life => placed[l][c] = 0
  /\ gw = Desk => \A c \in Cids : sent[Desk][c] = "free" => placed[life][c] = 0
  /\ \A r \in Calls : Busy(r) /\ call[r].fate # "accepted" => placed[life][call[r].cid] = 0
  /\ \A r \in Calls : call[r].fate = "accepted" => call[r].pc = "wire"

\* What the journal has settled, the running gateway remembers as settled.
Remembered ==
  gw = Desk => \A c \in Cids, e \in {"placed", "dry_run"} :
                 <<c, e>> \in journal => sent[Desk][c] \in {"dry", "placed"}

\* The inductive invariant behind NoDoubleSend and JournaledNeverResent.
DeskInv == OneInstance /\ OneOwner /\ NotYetPlaced /\ Remembered /\ NoDoubleSend

LEMMA DeskInit == Init => DeskInv
  <1> SUFFICES ASSUME Init PROVE DeskInv
    OBVIOUS
  <1>1. \A r \in Calls : call[r].pc = "idle" /\ call[r].fate = "none"
    BY DEF Init, NoCall
  <1>2. gw = NoInst /\ gw # Desk
    BY GatewayAssumption DEF Init
  <1>3. OneInstance /\ OneOwner
    BY <1>1, <1>2 DEF OneInstance, OneOwner, Busy
  <1>4. NotYetPlaced /\ Remembered /\ NoDoubleSend
    BY <1>1, <1>2 DEF Init, NotYetPlaced, Remembered, NoDoubleSend, Busy
  <1> QED
    BY <1>3, <1>4 DEF DeskInv

\* A call that returns without touching the map leaves the invariant alone.
LEMMA DeskReturns ==
  ASSUME TypeOK, DeskInv, NEW r \in Calls, Return(r),
         UNCHANGED <<life, up, gw, sent, placed, journal>>
  PROVE  DeskInv'
  <1>1. \A q \in Calls : call'[q] = IF q = r THEN NoCall ELSE call[q]
    BY DEF Return, TypeOK
  <1>2. NoCall.pc = "idle" /\ NoCall.fate = "none"
    BY DEF NoCall
  <1>3. OneInstance' /\ OneOwner'
    BY <1>1, <1>2 DEF DeskInv, OneInstance, OneOwner, Busy
  <1>4. NotYetPlaced' /\ Remembered' /\ NoDoubleSend'
    BY <1>1, <1>2 DEF DeskInv, NotYetPlaced, Remembered, NoDoubleSend, Busy
  <1> QED
    BY <1>3, <1>4 DEF DeskInv

\* A call that settles (or frees) the id it owns, and journals what it settled.
LEMMA DeskSettles ==
  ASSUME TypeOK, DeskInv, NEW r \in Calls, Busy(r), NEW m \in Marks, NEW lines, NEW w \in Writes,
         Mark(r, m), Append(lines, w), Return(r), UNCHANGED <<life, up, gw, placed>>,
         \/ m \in {"dry", "placed"} /\ lines \subseteq {call[r].cid} \X {"placed", "dry_run"}
         \/ m = "free" /\ call[r].fate # "accepted" /\ lines = {}
  PROVE  DeskInv'
  <1> DEFINE c == call[r].cid
  <1>1. \A q \in Calls : call'[q] = IF q = r THEN NoCall ELSE call[q]
    BY DEF Return, TypeOK
  <1>2. NoCall.pc = "idle" /\ NoCall.fate = "none"
    BY DEF NoCall
  <1>3. call[r].inst = Desk /\ gw = Desk /\ c \in Cids
    BY DEF DeskInv, OneInstance, Busy, TypeOK, Call
  <1>4. \A d \in Cids : sent'[Desk][d] = IF d = c THEN m ELSE sent[Desk][d]
    BY <1>3 DEF Mark, TypeOK, Instances
  <1>5. \A q \in Calls : call[q].cid \in Cids
    BY DEF TypeOK, Call
  <1>6. OneInstance'
    BY <1>1, <1>2 DEF DeskInv, OneInstance
  <1>7. OneOwner'
    BY <1>1, <1>2, <1>4, <1>5 DEF DeskInv, OneOwner, Busy
  <1>8. NotYetPlaced'
    BY <1>1, <1>2, <1>3, <1>4 DEF DeskInv, NotYetPlaced, Busy
  <1>9. Remembered'
    <2> SUFFICES ASSUME NEW d \in Cids, NEW e \in {"placed", "dry_run"}, <<d, e>> \in journal'
                 PROVE  sent'[Desk][d] \in {"dry", "placed"}
      BY DEF Remembered
    <2>1. <<d, e>> \in journal \/ <<d, e>> \in lines
      BY DEF Append
    <2>2. <<d, e>> \in journal => sent[Desk][d] \in {"dry", "placed"}
      BY <1>3 DEF DeskInv, Remembered
    <2>3. sent[Desk][c] = "pending"
      BY DEF DeskInv, OneOwner
    <2>4. <<d, e>> \in lines => d = c /\ m \in {"dry", "placed"}
      OBVIOUS
    <2> QED
      BY <1>3, <1>4, <2>1, <2>2, <2>3, <2>4
  <1>10. NoDoubleSend'
    BY DEF DeskInv, NoDoubleSend
  <1> QED
    BY <1>6, <1>7, <1>8, <1>9, <1>10 DEF DeskInv

LEMMA DeskStep ==
  ASSUME Prebuilt, TypeOK, DeskInv, [Next]_vars
  PROVE  DeskInv'
  <1> USE DEF gate, disk, history, risk
  <1>0. NoInst # Desk /\ Desk \in Instances
    BY GatewayAssumption DEF Instances
  <1>1. ASSUME NEW l \in BOOLEAN, Boot(l) PROVE DeskInv'
    <2>1. gw = NoInst /\ \A r \in Calls : call[r].pc = "idle" /\ call'[r] = call[r]
      BY <1>0, <1>1 DEF Boot, DeskInv, OneInstance
    <2>2. life' \in Lives /\ life' = life + 1 /\ placed' = placed /\ journal' = journal
      BY <1>1, GatewayAssumption DEF Boot, Lives, TypeOK
    <2>3. \A c \in Cids : placed'[life'][c] = 0
      BY <2>2 DEF DeskInv, NotYetPlaced, TypeOK
    <2>4. gw' = Desk => sent'[Desk] = Replay
      BY <1>0, <1>1 DEF Boot
    <2>5. gw' \in {Desk, NoInst} /\ up'
      BY <1>1 DEF Boot
    <2>6. OneInstance' /\ OneOwner'
      BY <2>1, <2>2, <2>5 DEF OneInstance, OneOwner, Busy
    <2>7. NotYetPlaced'
      BY <2>1, <2>2, <2>3 DEF DeskInv, NotYetPlaced, Busy, Lives, TypeOK
    <2>8. Remembered'
      BY <2>2, <2>4 DEF Remembered, Replay
    <2> QED
      BY <2>2, <2>6, <2>7, <2>8 DEF DeskInv, NoDoubleSend
  <1>2. ASSUME NEW tears \in BOOLEAN, Crash(tears) PROVE DeskInv'
    <2>1. \A r \in Calls : call'[r].pc = "idle" /\ call'[r].fate = "none"
      BY <1>2 DEF Crash, NoCall
    <2>2. gw' = NoInst /\ placed' = placed /\ life' = life
      BY <1>2 DEF Crash
    <2>3. OneInstance' /\ OneOwner' /\ Remembered'
      BY <1>0, <2>1, <2>2 DEF OneInstance, OneOwner, Remembered, Busy
    <2>4. NotYetPlaced' /\ NoDoubleSend'
      BY <1>0, <2>1, <2>2 DEF DeskInv, NotYetPlaced, NoDoubleSend, Busy
    <2> QED
      BY <2>3, <2>4 DEF DeskInv
  <1>3. ASSUME NEW w \in Writes, GuardBlocks(w) PROVE DeskInv'
    <2>1. UNCHANGED <<life, up, gw, sent, call, placed, journal>>
      BY <1>3 DEF GuardBlocks, Append
    <2> QED
      BY <2>1 DEF DeskInv, OneInstance, OneOwner, NotYetPlaced, Remembered, NoDoubleSend, Busy
  <1>4. ASSUME NEW r \in Calls, NEW c \in Cids, Submit(r, c) PROVE DeskInv'
    <2>1. gw = Desk
      BY <1>4 DEF Submit, DeskInv, OneInstance
    <2>2. NoCall.fate = "none"
      BY DEF NoCall
    <2>3. \A q \in Calls : /\ q # r => call'[q] = call[q]
                           /\ call'[r].pc = "risk" /\ call'[r].inst = Desk
                           /\ call'[r].cid = c /\ call'[r].fate = "none"
      <3>1. call' = [call EXCEPT ![r] = [NoCall EXCEPT !.pc = "risk", !.cid = c, !.inst = Desk]]
        BY <1>0, <1>4, <2>1 DEF Submit
      <3> QED
        BY <2>2, <3>1, NoCallType DEF TypeOK, Call
    <2>4. UNCHANGED <<life, up, gw, sent, placed, journal>>
      BY <1>4 DEF Submit
    <2>5. OneInstance' /\ OneOwner'
      BY <2>1, <2>3, <2>4 DEF DeskInv, OneInstance, OneOwner, Busy
    <2>6. NotYetPlaced' /\ Remembered' /\ NoDoubleSend'
      BY <2>3, <2>4 DEF DeskInv, NotYetPlaced, Remembered, NoDoubleSend, Busy
    <2> QED
      BY <2>5, <2>6 DEF DeskInv
  <1>5. ASSUME NEW r \in Calls, Build(r) PROVE DeskInv'
    BY <1>5 DEF Build, DeskInv, OneInstance
  <1>6. ASSUME NEW r \in Calls, RiskAccepts(r) PROVE DeskInv'
    <2>1. \A q \in Calls : /\ q # r => call'[q] = call[q]
                           /\ call'[r].pc = "reserve" /\ call'[r].inst = call[r].inst
                           /\ call'[r].fate = call[r].fate
      BY <1>6 DEF RiskAccepts, Goto, TypeOK, Call
    <2>2. UNCHANGED <<life, up, gw, sent, placed, journal>> /\ call[r].pc = "risk"
      BY <1>6 DEF RiskAccepts
    <2>3. OneInstance' /\ OneOwner'
      BY <2>1, <2>2 DEF DeskInv, OneInstance, OneOwner, Busy
    <2>4. NotYetPlaced' /\ Remembered' /\ NoDoubleSend'
      BY <2>1, <2>2 DEF DeskInv, NotYetPlaced, Remembered, NoDoubleSend, Busy
    <2> QED
      BY <2>3, <2>4 DEF DeskInv
  <1>7. ASSUME NEW r \in Calls, NEW w \in Writes, RiskRefuses(r, w) PROVE DeskInv'
    BY <1>7, DeskReturns DEF RiskRefuses, Append
  <1>8. ASSUME NEW r \in Calls, RiskFails(r) PROVE DeskInv'
    BY <1>8, DeskReturns DEF RiskFails
  <1>9. ASSUME NEW r \in Calls, Reserve(r) PROVE DeskInv'
    <2>1. CASE Reserved(r) # "free"
      BY <1>9, <2>1, DeskReturns DEF Reserve
    <2>2. CASE Reserved(r) = "free"
      <3> DEFINE c == call[r].cid
      <3>1. call[r].inst = Desk /\ gw = Desk /\ c \in Cids /\ call[r].fate # "accepted"
        BY <1>9 DEF Reserve, DeskInv, OneInstance, NotYetPlaced, TypeOK, Call
      <3>2. sent[Desk][c] = "free"
        BY <2>2, <3>1 DEF Reserved
      <3>3. \A d \in Cids : sent'[Desk][d] = IF d = c THEN "pending" ELSE sent[Desk][d]
        BY <1>0, <1>9, <2>2, <3>1 DEF Reserve, Mark, TypeOK
      <3>4. \A q \in Calls : /\ q # r => call'[q] = call[q]
                             /\ call'[r].pc = "slot" /\ call'[r].inst = Desk
                             /\ call'[r].cid = c /\ call'[r].fate = call[r].fate
        BY <1>9, <2>2, <3>1 DEF Reserve, Goto, TypeOK, Call
      <3>5. UNCHANGED <<life, up, gw, placed, journal>>
        BY <1>9 DEF Reserve
      <3>6. \A q \in Calls : call[q].cid \in Cids
        BY DEF TypeOK, Call
      <3>7. OneInstance'
        BY <3>1, <3>4, <3>5 DEF DeskInv, OneInstance
      <3>8. OneOwner'
        BY <3>2, <3>3, <3>4, <3>6 DEF DeskInv, OneOwner, Busy
      <3>9. NotYetPlaced'
        BY <3>1, <3>2, <3>3, <3>4, <3>5 DEF DeskInv, NotYetPlaced, Busy
      <3>10. Remembered' /\ NoDoubleSend'
        BY <3>1, <3>2, <3>3, <3>5 DEF DeskInv, Remembered, NoDoubleSend
      <3> QED
        BY <3>7, <3>8, <3>9, <3>10 DEF DeskInv
    <2> QED
      BY <2>1, <2>2
  <1>10. ASSUME NEW r \in Calls, NEW w \in Writes, DryRun(r, w) PROVE DeskInv'
    BY <1>10, DeskSettles DEF DryRun, Busy, Marks
  <1>11. ASSUME NEW r \in Calls, NEW fate \in Fates, Send(r, fate) PROVE DeskInv'
    <2> DEFINE c == call[r].cid
    <2>1. \A q \in Calls : /\ q # r => call'[q] = call[q]
                           /\ call'[r].pc = "wire" /\ call'[r].fate = fate
                           /\ call'[r].inst = call[r].inst /\ call'[r].cid = c
      BY <1>11 DEF Send, TypeOK, Call
    <2>2. UNCHANGED <<life, up, gw, sent, journal>> /\ call[r].pc = "slot"
      BY <1>11 DEF Send
    <2>3. gw = Desk /\ life \in Lives /\ c \in Cids /\ placed[life][c] = 0
      BY <2>2 DEF DeskInv, OneInstance, NotYetPlaced, Busy, TypeOK, Call
    <2>4. \A l \in Lives, d \in Cids : placed'[l][d] =
            IF fate = "accepted" /\ l = life /\ d = c THEN 1 ELSE placed[l][d]
      BY <1>11, <2>3 DEF Send, TypeOK
    <2>5. \A q \in Calls : call[q].cid \in Cids
      BY DEF TypeOK, Call
    <2>6. OneInstance' /\ OneOwner'
      BY <2>1, <2>2 DEF DeskInv, OneInstance, OneOwner, Busy
    <2>7. sent[Desk][c] = "pending"
      BY <2>2 DEF DeskInv, OneOwner, Busy
    <2>8. \A q \in Calls \ {r} : Busy(q) => call[q].cid # c
      BY <2>2 DEF DeskInv, OneOwner, Busy
    <2>9. NotYetPlaced'
      <3>1. \A l \in Lives, d \in Cids : l > life => placed'[l][d] = 0
        BY <2>3, <2>4 DEF DeskInv, NotYetPlaced, TypeOK
      <3>2. \A d \in Cids : sent[Desk][d] = "free" => placed'[life][d] = 0
        BY <2>3, <2>4, <2>7 DEF DeskInv, NotYetPlaced
      <3>3. \A q \in Calls : Busy(q)' /\ call'[q].fate # "accepted"
                               => placed'[life][call'[q].cid] = 0
        BY <2>1, <2>3, <2>4, <2>5, <2>8 DEF DeskInv, NotYetPlaced, Busy
      <3> QED
        BY <2>1, <2>2, <3>1, <3>2, <3>3 DEF DeskInv, NotYetPlaced, Busy
    <2>10. Remembered' /\ NoDoubleSend'
      BY <2>2, <2>4 DEF DeskInv, Remembered, NoDoubleSend
    <2> QED
      BY <2>6, <2>9, <2>10 DEF DeskInv
  <1>12. ASSUME NEW r \in Calls, NEW w \in Writes, Placed(r, w) PROVE DeskInv'
    BY <1>12, DeskSettles DEF Placed, Busy, Marks
  <1>13. ASSUME NEW r \in Calls, NEW w \in Writes, Rejected(r, w) PROVE DeskInv'
    BY <1>13, DeskSettles DEF Rejected, Busy, Marks
  <1>14. ASSUME NEW r \in Calls, NEW w \in Writes, Error(r, w) PROVE DeskInv'
    BY <1>14, DeskReturns DEF Error, Append
  <1>15. ASSUME NEW r \in Calls, Drop(r) PROVE DeskInv'
    BY <1>15, DeskReturns DEF Drop
  <1>16. CASE Others \/ UNCHANGED vars
    <2>1. UNCHANGED <<life, up, gw, sent, call, placed, journal>>
      BY <1>16 DEF Others, vars
    <2> QED
      BY <2>1 DEF DeskInv, OneInstance, OneOwner, NotYetPlaced, Remembered, NoDoubleSend, Busy
  <1> QED
    BY <1>1, <1>2, <1>3, <1>4, <1>5, <1>6, <1>7, <1>8, <1>9, <1>10, <1>11, <1>12, <1>13,
       <1>14, <1>15, <1>16 DEF Next, Progress

\* A gateway built with its process never has two orders of one client id
\* accepted in a life: OrderGateway::place reserves before its next await.
THEOREM NeverTwice == ASSUME Prebuilt PROVE Spec => []NoDoubleSend
<1>1. TypeOK /\ DeskInv /\ [Next]_vars => DeskInv'
  BY DeskStep
<1>2. DeskInv => NoDoubleSend
  BY DEF DeskInv
<1> QED
  BY <1>1, <1>2, DeskInit, TypeCorrect, PTL DEF Spec

\* What Journal::replay recovers is enough: a client id with a placed or
\* dry_run line is never sent again, in any life.
THEOREM JournalHolds == ASSUME Prebuilt PROVE Spec => JournaledNeverResent
<1> DEFINE Settled(c) == \E e \in {"placed", "dry_run"} : <<c, e>> \in journal
           Kept == \A c \in Cids : Settled(c) => \A l \in Lives : placed'[l][c] = placed[l][c]
<1>1. TypeOK /\ DeskInv /\ [Next]_vars => DeskInv'
  BY DeskStep
<1>2. TypeOK /\ DeskInv /\ [Next]_vars => [Kept]_vars
  <2> SUFFICES ASSUME TypeOK, DeskInv, [Next]_vars, NEW c \in Cids, Settled(c), NEW l \in Lives
               PROVE  placed'[l][c] = placed[l][c]
    OBVIOUS
  <2>1. CASE \E r \in Calls, fate \in Fates : Send(r, fate)
    <3>1. PICK r \in Calls, fate \in Fates : Send(r, fate)
      BY <2>1
    <3>2. sent[Desk][call[r].cid] = "pending" /\ gw = Desk
      BY <3>1 DEF Send, DeskInv, OneOwner, OneInstance, Busy
    <3>3. call[r].cid # c
      BY <3>2 DEF DeskInv, Remembered
    <3> QED
      BY <3>1, <3>3 DEF Send, TypeOK
  <2>2. CASE placed' = placed
    BY <2>2
  <2>3. placed' = placed \/ \E r \in Calls, fate \in Fates : Send(r, fate)
    BY DEF Next, Progress, vars, history, Boot, Crash, GuardBlocks, Submit, Build, RiskAccepts,
           RiskRefuses, RiskFails, Reserve, DryRun, Placed, Rejected, Error, Drop, Others
  <2> QED
    BY <2>1, <2>2, <2>3
<1> QED
  BY <1>1, <1>2, DeskInit, TypeCorrect, PTL DEF Spec, JournaledNeverResent

-----------------------------------------------------------------------------
\* The client ids of which the exchange accepted an order, in this life or before.
Accepted == {c \in Cids : \E l \in 1 .. life : placed[l][c] > 0}

\* The inductive invariant behind PlacedIsReal: what an instance remembers, what
\* the journal holds and what a call at the wire is about to learn are all true;
\* and only a process that has started has calls.
TruthInv ==
  /\ up => life \in Lives
  /\ \A r \in Calls : call[r].pc # "idle" => up
  /\ \A r \in Calls : call[r].fate = "accepted" => call[r].cid \in Accepted
  /\ \A c \in Cids : <<c, "placed">> \in journal => c \in Accepted
  /\ PlacedIsReal

\* What the exchange accepted stays accepted, over every step of place() and
\* every restart.
LEMMA AcceptedStays ==
  ASSUME TypeOK, TypeOK', [Next]_vars, NEW c \in Cids, c \in Accepted
  PROVE  c \in Accepted'
  <1> USE DEF gate, disk, history, risk
  <1>1. PICK l \in 1 .. life : placed[l][c] > 0
    BY DEF Accepted
  <1>2. life' = life \/ life' = life + 1
    BY DEF Next, Progress, vars, Boot, Crash, GuardBlocks, Submit, Build, RiskAccepts,
           RiskRefuses, RiskFails, Reserve, DryRun, Send, Placed, Rejected, Error, Drop, Others
  <1>3. l \in 1 .. life' /\ l \in Lives
    BY <1>2, GatewayAssumption DEF TypeOK, Lives
  <1>4. placed'[l][c] >= placed[l][c] /\ placed[l][c] \in Nat /\ placed'[l][c] \in Nat
    <2>1. placed' = placed \/ \E r \in Calls, fate \in Fates : Send(r, fate)
      BY DEF Next, Progress, vars, Boot, Crash, GuardBlocks, Submit, Build, RiskAccepts,
             RiskRefuses, RiskFails, Reserve, DryRun, Placed, Rejected, Error, Drop, Others
    <2>2. placed[l][c] \in Nat /\ placed'[l][c] \in Nat
      BY <1>3 DEF TypeOK
    <2>3. ASSUME NEW r \in Calls, NEW fate \in Fates, Send(r, fate), placed' # placed
          PROVE  placed'[l][c] >= placed[l][c]
      <3> DEFINE d == call[r].cid
                 n == placed[life][d] + 1
      <3>1. placed' = [placed EXCEPT ![life][d] = n]
        BY <2>3 DEF Send
      <3>2. life \in Lives /\ d \in Cids
        BY <2>3, <3>1 DEF TypeOK, Call
      <3>3. placed[life][d] \in Nat /\ n = placed[life][d] + 1
        BY <3>2 DEF TypeOK
      <3> HIDE DEF d, n
      <3>4. placed'[l][c] = IF l = life /\ c = d THEN n ELSE placed[l][c]
        BY <1>3, <3>1, <3>2 DEF TypeOK
      <3> QED
        BY <2>2, <3>3, <3>4
    <2> QED
      BY <2>1, <2>2, <2>3
  <1> QED
    BY <1>1, <1>3, <1>4 DEF Accepted

\* A step that learns nothing new keeps the memory true.
LEMMA TruthKept ==
  ASSUME TypeOK, TypeOK', TruthInv, [Next]_vars, UNCHANGED <<life, up>>,
         \A r \in Calls : call'[r].pc # "idle" => up,
         \A r \in Calls : call'[r].fate = "accepted" => call'[r].cid \in Accepted',
         \A c \in Cids : <<c, "placed">> \in journal' => <<c, "placed">> \in journal \/ c \in Accepted',
         \A i \in Instances, c \in Cids :
           sent'[i][c] = "placed" => sent[i][c] = "placed" \/ c \in Accepted'
  PROVE  TruthInv'
  <1>1. \A c \in Cids : <<c, "placed">> \in journal' => c \in Accepted'
    BY AcceptedStays DEF TruthInv
  <1>2. \A i \in Instances, c \in Cids : sent'[i][c] = "placed" => c \in Accepted'
    BY AcceptedStays DEF TruthInv, PlacedIsReal, Accepted
  <1>3. PlacedIsReal'
    BY <1>2 DEF PlacedIsReal, Accepted
  <1> QED
    BY <1>1, <1>3 DEF TruthInv

\* A call that returns leaves a call that learns nothing.
LEMMA TruthReturns ==
  ASSUME TypeOK, TypeOK', TruthInv, [Next]_vars, NEW r \in Calls, Return(r)
  PROVE  /\ \A q \in Calls : call'[q].pc # "idle" => up
         /\ \A q \in Calls : call'[q].fate = "accepted" => call'[q].cid \in Accepted'
  <1>1. \A q \in Calls : call'[q] = IF q = r THEN NoCall ELSE call[q]
    BY DEF Return, TypeOK
  <1>2. \A q \in Calls : call[q].cid \in Cids
    BY DEF TypeOK, Call
  <1> QED
    BY <1>1, <1>2, AcceptedStays DEF TruthInv, NoCall

\* What a replay recovers as placed was accepted.
LEMMA ReplayTrue ==
  ASSUME TruthInv, NEW c \in Cids, Replay[c] = "placed"
  PROVE  c \in Accepted
  BY DEF Replay, TruthInv

LEMMA TruthStep == TypeOK /\ TypeOK' /\ TruthInv /\ [Next]_vars => TruthInv'
  <1> SUFFICES ASSUME TypeOK, TypeOK', TruthInv, [Next]_vars PROVE TruthInv'
    OBVIOUS
  <1> USE DEF gate, disk, history, risk
  <1>0. /\ \A q \in Calls : call[q].cid \in Cids
        /\ \A q \in Calls : call[q].pc # "idle" => up
        /\ \A q \in Calls : call[q].fate = "accepted" => call[q].cid \in Accepted'
    <2>1. \A q \in Calls : call[q].cid \in Cids
      BY DEF TypeOK, Call
    <2> QED
      BY <2>1, AcceptedStays DEF TruthInv
  <1>1. ASSUME NEW l \in BOOLEAN, Boot(l) PROVE TruthInv'
    <2>1. life' \in Lives /\ UNCHANGED <<call, journal>> /\ ~up
      BY <1>1, GatewayAssumption DEF Boot, TypeOK, Lives
    <2>2. \A c \in Cids : <<c, "placed">> \in journal' => c \in Accepted'
      BY <2>1, AcceptedStays DEF TruthInv
    <2>3. \A i \in Instances, c \in Cids : sent'[i][c] = "placed" => c \in Accepted
      BY <1>1, ReplayTrue DEF Boot
    <2>4. PlacedIsReal'
      BY <2>3, AcceptedStays DEF PlacedIsReal, Accepted
    <2> QED
      BY <1>0, <2>1, <2>2, <2>4 DEF TruthInv
  <1>2. ASSUME NEW tears \in BOOLEAN, Crash(tears) PROVE TruthInv'
    <2>1. /\ \A q \in Calls : call'[q].pc = "idle" /\ call'[q].fate = "none"
          /\ \A i \in Instances, c \in Cids : sent'[i][c] = "free"
          /\ UNCHANGED <<life, journal>> /\ up' = FALSE
      BY <1>2 DEF Crash, NoCall
    <2>2. \A c \in Cids : <<c, "placed">> \in journal' => c \in Accepted'
      BY <2>1, AcceptedStays DEF TruthInv
    <2> QED
      BY <2>1, <2>2 DEF TruthInv, PlacedIsReal
  <1>3. ASSUME NEW w \in Writes, GuardBlocks(w) PROVE TruthInv'
    BY <1>0, <1>3, TruthKept DEF GuardBlocks, Append
  <1>4. ASSUME NEW r \in Calls, NEW c \in Cids, Submit(r, c) PROVE TruthInv'
    <2>1. /\ call'[r].fate = "none" /\ up /\ \A q \in Calls \ {r} : call'[q] = call[q]
          /\ UNCHANGED <<life, up, sent, journal>>
      BY <1>4 DEF Submit, NoCall, TypeOK
    <2> QED
      BY <1>0, <2>1, TruthKept
  <1>5. ASSUME NEW r \in Calls, Build(r) PROVE TruthInv'
    <2>1. CASE torn
      BY <1>5, <2>1, TruthReturns, TruthKept DEF Build
    <2>2. CASE ~torn
      <3>1. call' = [call EXCEPT ![r] = [call[r] EXCEPT !.pc = "risk", !.inst = r]]
        BY <1>5, <2>2 DEF Build, TypeOK
      <3>2. /\ call'[r].fate = call[r].fate /\ call'[r].cid = call[r].cid
            /\ \A q \in Calls \ {r} : call'[q] = call[q]
        BY <3>1 DEF TypeOK, Call
      <3>3. up /\ UNCHANGED <<life, up, journal>>
        BY <1>0, <1>5 DEF Build
      <3>4. \A i \in Instances : sent'[i] = IF i = r THEN Replay ELSE sent[i]
        BY <1>5, <2>2 DEF Build, TypeOK, Instances
      <3>5. \A i \in Instances, c \in Cids :
              sent'[i][c] = "placed" => sent[i][c] = "placed" \/ c \in Accepted'
        BY <3>4, ReplayTrue, AcceptedStays
      <3>6. /\ \A q \in Calls : call'[q].pc # "idle" => up
            /\ \A q \in Calls : call'[q].fate = "accepted" => call'[q].cid \in Accepted'
        BY <1>0, <3>2, <3>3
      <3> QED
        BY <3>3, <3>5, <3>6, TruthKept
    <2> QED
      BY <2>1, <2>2
  <1>6. ASSUME NEW r \in Calls, NEW pc \in Steps, Goto(r, pc), call[r].pc # "idle"
        PROVE  /\ \A q \in Calls : call'[q].pc # "idle" => up
               /\ \A q \in Calls : call'[q].fate = "accepted" => call'[q].cid \in Accepted'
    <2>1. /\ call'[r].fate = call[r].fate /\ call'[r].cid = call[r].cid
          /\ \A q \in Calls \ {r} : call'[q] = call[q]
      BY <1>6 DEF Goto, TypeOK, Call
    <2> QED
      BY <1>0, <1>6, <2>1
  <1>7. ASSUME NEW r \in Calls, RiskAccepts(r) PROVE TruthInv'
    BY <1>6, <1>7, TruthKept DEF RiskAccepts, Steps
  <1>8. ASSUME NEW r \in Calls, NEW w \in Writes, RiskRefuses(r, w) \/ Error(r, w) PROVE TruthInv'
    BY <1>8, TruthReturns, TruthKept DEF RiskRefuses, Error, Append
  <1>9. ASSUME NEW r \in Calls, RiskFails(r) \/ Drop(r) PROVE TruthInv'
    BY <1>9, TruthReturns, TruthKept DEF RiskFails, Drop
  <1>10. ASSUME NEW r \in Calls, NEW m \in Marks, Mark(r, m), m = "placed" => call[r].cid \in Accepted'
         PROVE  \A i \in Instances, c \in Cids :
                  sent'[i][c] = "placed" => sent[i][c] = "placed" \/ c \in Accepted'
    <2>1. \A i \in Instances, c \in Cids :
            sent'[i][c] = IF i = call[r].inst /\ c = call[r].cid THEN m ELSE sent[i][c]
      BY <1>0, <1>10 DEF Mark, TypeOK
    <2> QED
      BY <1>10, <2>1
  <1>11. ASSUME NEW r \in Calls, Reserve(r) PROVE TruthInv'
    <2>1. CASE Reserved(r) # "free"
      BY <1>11, <2>1, TruthReturns, TruthKept DEF Reserve
    <2>2. CASE Reserved(r) = "free"
      <3>1. Goto(r, "slot") /\ Mark(r, "pending") /\ call[r].pc # "idle"
        BY <1>11, <2>2 DEF Reserve
      <3>2. UNCHANGED <<life, up, journal>>
        BY <1>11 DEF Reserve
      <3>3. /\ \A q \in Calls : call'[q].pc # "idle" => up
            /\ \A q \in Calls : call'[q].fate = "accepted" => call'[q].cid \in Accepted'
        BY <1>6, <3>1 DEF Steps
      <3>4. \A i \in Instances, c \in Cids :
              sent'[i][c] = "placed" => sent[i][c] = "placed" \/ c \in Accepted'
        BY <1>10, <3>1 DEF Marks
      <3> QED
        BY <3>2, <3>3, <3>4, TruthKept
    <2> QED
      BY <2>1, <2>2
  <1>12. ASSUME NEW r \in Calls, NEW w \in Writes, DryRun(r, w) PROVE TruthInv'
    <2>1. \A i \in Instances, c \in Cids :
            sent'[i][c] = "placed" => sent[i][c] = "placed" \/ c \in Accepted'
      BY <1>10, <1>12 DEF DryRun, Marks
    <2>2. \A c \in Cids : <<c, "placed">> \in journal' => <<c, "placed">> \in journal
      BY <1>12 DEF DryRun, Append
    <2> QED
      BY <1>12, <2>1, <2>2, TruthReturns, TruthKept DEF DryRun
  <1>13. ASSUME NEW r \in Calls, NEW fate \in Fates, Send(r, fate) PROVE TruthInv'
    <2>1. /\ call'[r].fate = fate /\ call'[r].cid = call[r].cid
          /\ \A q \in Calls \ {r} : call'[q] = call[q]
      BY <1>13 DEF Send, TypeOK, Call
    <2>2. UNCHANGED <<life, up, sent, journal>> /\ up /\ life \in Lives
      BY <1>0, <1>13 DEF Send, TruthInv
    <2>3. fate = "accepted" => call[r].cid \in Accepted'
      <3> SUFFICES ASSUME fate = "accepted" PROVE call[r].cid \in Accepted'
        OBVIOUS
      <3> DEFINE d == call[r].cid
                 n == placed[life][d] + 1
      <3>1. placed' = [placed EXCEPT ![life][d] = n] /\ life' = life /\ call'[r].cid = d
        BY <1>13, <2>1 DEF Send
      <3>2. life \in Lives /\ d \in Cids /\ n \in Nat /\ n > 0 /\ life \in 1 .. life
        BY <1>0, <2>2 DEF TypeOK, Lives
      <3> HIDE DEF n, d
      <3>3. placed'[life][d] = n
        BY <3>1, <3>2 DEF TypeOK
      <3>4. call'[r].cid \in Accepted'
        BY <3>1, <3>2, <3>3 DEF Accepted
      <3> QED
        BY <2>1, <3>4
    <2>4. /\ \A q \in Calls : call'[q].pc # "idle" => up
          /\ \A q \in Calls : call'[q].fate = "accepted" => call'[q].cid \in Accepted'
      BY <1>0, <2>1, <2>2, <2>3
    <2> QED
      BY <2>2, <2>4, TruthKept
  <1>14. ASSUME NEW r \in Calls, NEW w \in Writes, Placed(r, w) PROVE TruthInv'
    <2>1. call[r].cid \in Accepted'
      BY <1>0, <1>14 DEF Placed
    <2>2. \A i \in Instances, c \in Cids :
            sent'[i][c] = "placed" => sent[i][c] = "placed" \/ c \in Accepted'
      BY <1>10, <1>14, <2>1 DEF Placed, Marks
    <2>3. \A c \in Cids : <<c, "placed">> \in journal' => <<c, "placed">> \in journal \/ c \in Accepted'
      BY <1>14, <2>1 DEF Placed, Append
    <2> QED
      BY <1>14, <2>2, <2>3, TruthReturns, TruthKept DEF Placed
  <1>15. ASSUME NEW r \in Calls, NEW w \in Writes, Rejected(r, w) PROVE TruthInv'
    <2>1. \A i \in Instances, c \in Cids :
            sent'[i][c] = "placed" => sent[i][c] = "placed" \/ c \in Accepted'
      BY <1>10, <1>15 DEF Rejected, Marks
    <2> QED
      BY <1>15, <2>1, TruthReturns, TruthKept DEF Rejected, Append
  <1>16. CASE Others \/ UNCHANGED vars
    <2>1. UNCHANGED <<life, up, sent, call, journal>>
      BY <1>16 DEF Others, vars
    <2> QED
      BY <1>0, <2>1, TruthKept
  <1> QED
    BY <1>1, <1>2, <1>3, <1>4, <1>5, <1>7, <1>8, <1>9, <1>11, <1>12, <1>13,
       <1>14, <1>15, <1>16 DEF Next, Progress

\* A DUPLICATE that carries a broker's order id tells the truth, for the desk's
\* gateway and for a sleeve's, over any number of restarts and instances.
THEOREM DuplicateTellsTruth == Spec => []PlacedIsReal
<1>1. Init => TruthInv
  BY DEF Init, TruthInv, PlacedIsReal, NoCall
<1>2. TruthInv => PlacedIsReal
  BY DEF TruthInv
<1> QED
  BY <1>1, <1>2, TypeCorrect, TruthStep, PTL DEF Spec
=============================================================================
