---------------------------- MODULE OrderGateway ----------------------------
(***************************************************************************)
(* `OrderGateway::place` (baskfy-desk, lanes/exec_core/order_gateway.rs):  *)
(* guards, risk, idempotency, rate limit, then DRY_RUN or the broker, with *)
(* an append-only journal replayed when a gateway is built.                *)
(*                                                                         *)
(* A place() call is one sequence of steps cut at its awaits; any number   *)
(* of calls interleave, a call may be dropped at an await (its client hung *)
(* up), and the process may die and start again.  The desk's own gateway   *)
(* is built when the process starts (Prebuilt); a sleeve's is built by the *)
(* first call that finds none cached.  The risk layer is AccountRisk, the  *)
(* specification RiskLedger implements.  What happens to a request at the  *)
(* broker is decided when it is sent and learnt, or not, from the reply.   *)
(***************************************************************************)
EXTENDS Integers, FiniteSets

CONSTANTS
  Calls,      \* slots for place() calls in progress
  Cids,       \* client ids
  Symbols, Values, MaxOrders, PosCap,   \* the risk layer's
  Prebuilt,   \* TRUE: the desk's gateway; FALSE: a sleeve's, built on demand
  MaxLives,   \* bound: how often the process is started
  Desk,       \* the instance built with the process
  NoInst      \* no gateway

ASSUME GatewayAssumption ==
  /\ Prebuilt \in BOOLEAN /\ MaxLives \in Nat
  /\ Desk \notin Calls /\ NoInst \notin Calls \cup {Desk}
ASSUME CallsAssumption == IsFiniteSet(Calls) /\ Cids # {}
ASSUME RiskAssumption == MaxOrders \in Nat /\ PosCap \in Nat /\ Values \subseteq Nat

VARIABLES
  life,      \* how many times the process has started
  up,        \* the process runs
  live,      \* this life's DRY_RUN switch is off
  gw,        \* the gateway later calls will find
  sent,      \* each instance's `sent` map
  call,      \* the place() calls
  journal,   \* the lines replay looks at: <<client id, event>>
  torn,      \* the journal holds a line that is not JSON
  placed,    \* history: orders the exchange accepted, per life and client id
  sends,     \* history: requests put on the wire
  spent, exposure, halted   \* the risk layer's day

gate    == <<gw, sent>>
disk    == <<journal, torn>>
history == <<placed, sends>>
risk    == <<spent, exposure, halted>>
vars    == <<life, up, live, gw, sent, call, journal, torn, placed, sends,
             spent, exposure, halted>>

Risk == INSTANCE AccountRisk WITH TradingDays <- {0}

Lives     == 1 .. MaxLives
Instances == Calls \cup {Desk}
Writes    == {"ok", "failed", "torn"}          \* Journal::write
Fates     == {"accepted", "refused", "lost"}   \* of a request at the broker
Marks     == {"free", "pending", "dry", "placed"}
Steps     == {"idle", "build", "risk", "reserve", "slot", "wire"}
Call      == [pc : Steps, cid : Cids, inst : Instances \cup {NoInst},
              fate : Fates \cup {"none"}]

AnyCid == CHOOSE c \in Cids : TRUE
NoCall == [pc |-> "idle", cid |-> AnyCid, inst |-> NoInst, fate |-> "none"]

-----------------------------------------------------------------------------
Init ==
  /\ life = 0 /\ up = FALSE /\ live = FALSE
  /\ gw = NoInst
  /\ sent = [i \in Instances |-> [c \in Cids |-> "free"]]
  /\ call = [r \in Calls |-> NoCall]
  /\ journal = {} /\ torn = FALSE
  /\ placed = [l \in Lives |-> [c \in Cids |-> 0]]
  /\ sends = 0
  /\ Risk!Init

\* mutant: only live orders are recovered
ReplayPlacedOnly ==
  [c \in Cids |-> IF <<c, "placed">> \in journal THEN "placed" ELSE "free"]

\* Journal::replay: placed and dry_run lines; errors and refusals leave nothing.
Replay ==
  [c \in Cids |-> IF <<c, "placed">> \in journal THEN "placed"
                  ELSE IF <<c, "dry_run">> \in journal THEN "dry" ELSE "free"]

\* A journal line that replay looks at (or {} for one it ignores) is appended,
\* or the append fails, or leaves half a line behind.
Append(lines, w) ==
  /\ journal' = IF w = "ok" THEN journal \cup lines ELSE journal
  /\ torn' = (torn \/ w = "torn")

Goto(r, pc)  == call' = [call EXCEPT ![r].pc = pc]
Return(r)    == call' = [call EXCEPT ![r] = NoCall]
Mark(r, m)   == sent' = [sent EXCEPT ![call[r].inst][call[r].cid] = m]
Reserved(r)  == sent[call[r].inst][call[r].cid]

-----------------------------------------------------------------------------
\* The process starts.  A journal that cannot be replayed leaves it without a
\* gateway: orders are refused, never sent without their history.
Boot(l) ==
  /\ ~up /\ life < MaxLives
  /\ up' = TRUE /\ life' = life + 1 /\ live' = l
  /\ gw' = IF Prebuilt /\ ~torn THEN Desk ELSE NoInst
  /\ sent' = [i \in Instances |->
                IF i = Desk /\ Prebuilt /\ ~torn THEN Replay ELSE [c \in Cids |-> "free"]]
  /\ UNCHANGED <<call, disk, history, risk>>

\* The process dies, perhaps half way through a journal line.
Crash(tears) ==
  /\ up
  /\ tears => \E r \in Calls : call[r].pc \in {"risk", "slot", "wire"}
  /\ up' = FALSE
  /\ torn' = (torn \/ tears)
  /\ gw' = NoInst
  /\ sent' = [i \in Instances |-> [c \in Cids |-> "free"]]
  /\ call' = [r \in Calls |-> NoCall]
  /\ UNCHANGED <<life, live, journal, history, risk>>

\* place() is called and the guards admit the order; a sleeve's caller that
\* finds no cached gateway goes on to build one.
Submit(r, c) ==
  /\ up /\ call[r].pc = "idle"
  /\ gw # NoInst \/ ~Prebuilt
  /\ call' = [call EXCEPT ![r] =
       [NoCall EXCEPT !.pc = IF gw # NoInst THEN "risk" ELSE "build",
                      !.cid = c, !.inst = gw]]
  /\ UNCHANGED <<life, up, live, gate, disk, history, risk>>

\* A guard refuses the order: a block line, BLOCKED.
GuardBlocks(w) ==
  /\ up /\ gw # NoInst
  /\ Append({}, w)
  /\ UNCHANGED <<life, up, live, gate, call, history, risk>>

\* The sleeve's gateway is built over a replay of its journal; the first one
\* built is the one later calls find.  No gateway, no order.
Build(r) ==
  /\ call[r].pc = "build"
  /\ IF torn
       THEN Return(r) /\ UNCHANGED gate
       ELSE /\ call' = [call EXCEPT ![r].pc = "risk", ![r].inst = r]
            /\ sent' = [sent EXCEPT ![r] = Replay]
            /\ gw' = IF gw = NoInst THEN r ELSE gw
  /\ UNCHANGED <<life, up, live, disk, history, risk>>

\* Layer 2: pre_order accepts; refuses, with a risk_block line, or fails; or
\* fails after it gave headroom back (a sale whose commit was not heard of).
RiskAccepts(r) ==
  /\ call[r].pc = "risk"
  /\ \E s \in Symbols, v \in Values : Risk!AllowBuy(0, s, v) \/ Risk!AllowSell(0, s, v)
  /\ Goto(r, "reserve")
  /\ UNCHANGED <<life, up, live, gate, disk, history>>

RiskRefuses(r, w) ==
  /\ call[r].pc = "risk"
  /\ Append({}, w)
  /\ Return(r)
  /\ UNCHANGED <<life, up, live, gate, history, risk>>

RiskFails(r) ==
  /\ call[r].pc = "risk"
  /\ \E s \in Symbols, v \in Values : Risk!GiveBack(0, s, v)
  /\ Return(r)
  /\ UNCHANGED <<life, up, live, gate, disk, history>>

\* mutants: look up without reserving; wait for the twin instead of answering
ReserveLater(r) ==
  /\ call[r].pc = "reserve"
  /\ IF Reserved(r) # "free"
       THEN Return(r) /\ UNCHANGED sent
       ELSE Goto(r, "slot") /\ UNCHANGED sent
  /\ UNCHANGED <<life, up, live, gw, disk, history, risk>>
ReserveWaits(r) ==
  /\ call[r].pc = "reserve" /\ Reserved(r) # "pending"
  /\ IF Reserved(r) # "free"
       THEN Return(r) /\ UNCHANGED sent
       ELSE Goto(r, "slot") /\ Mark(r, "pending")
  /\ UNCHANGED <<life, up, live, gw, disk, history, risk>>

\* Layer 3: DUPLICATE, or the client id is reserved before the next await.
Reserve(r) ==
  /\ call[r].pc = "reserve"
  /\ IF Reserved(r) # "free"
       THEN Return(r) /\ UNCHANGED sent
       ELSE Goto(r, "slot") /\ Mark(r, "pending")
  /\ UNCHANGED <<life, up, live, gw, disk, history, risk>>

\* Layer 4, then DRY_RUN: the id is settled first, journalled second.
DryRun(r, w) ==
  /\ call[r].pc = "slot" /\ ~live
  /\ Mark(r, "dry")
  /\ Append({<<call[r].cid, "dry_run">>}, w)
  /\ Return(r)
  /\ UNCHANGED <<life, up, live, gw, history, risk>>

\* Layer 4, then the request goes out.
Send(r, fate) ==
  /\ call[r].pc = "slot" /\ live
  /\ call' = [call EXCEPT ![r].pc = "wire", ![r].fate = fate]
  /\ sends' = sends + 1
  /\ placed' = IF fate = "accepted" THEN [placed EXCEPT ![life][call[r].cid] = @ + 1]
                                   ELSE placed
  /\ UNCHANGED <<life, up, live, gate, disk, risk>>

\* The broker answers with an order id: settled first, journalled second.
Placed(r, w) ==
  /\ call[r].pc = "wire" /\ call[r].fate = "accepted"
  /\ Mark(r, "placed")
  /\ Append({<<call[r].cid, "placed">>}, w)
  /\ Return(r)
  /\ UNCHANGED <<life, up, live, gw, history, risk>>

\* A definitive refusal frees the client id for a corrected retry.
Rejected(r, w) ==
  /\ call[r].pc = "wire" /\ call[r].fate = "refused"
  /\ Mark(r, "free")
  /\ Append({}, w)
  /\ Return(r)
  /\ UNCHANGED <<life, up, live, gw, history, risk>>

\* mutants: an unknown outcome counts as placed; it is sent again
ErrorSettles(r, w) ==
  /\ call[r].pc = "wire"
  /\ Mark(r, "placed")
  /\ Append({}, w)
  /\ Return(r)
  /\ UNCHANGED <<life, up, live, gw, history, risk>>
ErrorRetries(r, w) ==
  /\ call[r].pc = "wire"
  /\ Append({}, w)
  /\ Goto(r, "slot")
  /\ UNCHANGED <<life, up, live, gate, history, risk>>

\* Anything else (a timeout, a connection reset, a 5xx): ERROR, whatever became
\* of the request; the id stays reserved.
Error(r, w) ==
  /\ call[r].pc = "wire"
  /\ Append({}, w)
  /\ Return(r)
  /\ UNCHANGED <<life, up, live, gate, history, risk>>

\* The client hangs up and the handler is dropped at an await.
Drop(r) ==
  /\ call[r].pc \in {"risk", "reserve", "slot", "wire"}
  /\ Return(r)
  /\ UNCHANGED <<life, up, live, gate, disk, history, risk>>

\* The account's other processes trade, release and trip the loss halt.
Others ==
  /\ Risk!Next
  /\ UNCHANGED <<life, up, live, gate, call, disk, history>>

Progress(r) ==
  \/ Build(r)
  \/ RiskAccepts(r) \/ RiskFails(r)
  \/ Reserve(r)
  \/ \E fate \in Fates : Send(r, fate)
  \/ \E w \in Writes : \/ RiskRefuses(r, w) \/ DryRun(r, w) \/ Placed(r, w)
                       \/ Rejected(r, w) \/ Error(r, w)

Next ==
  \/ \E l \in BOOLEAN : Boot(l)
  \/ \E tears \in BOOLEAN : Crash(tears)
  \/ \E w \in Writes : GuardBlocks(w)
  \/ \E r \in Calls : Progress(r) \/ Drop(r) \/ \E c \in Cids : Submit(r, c)
  \/ Others

Spec == Init /\ [][Next]_vars

\* Every step of a place() call is a bounded wait: the store and the HTTP client
\* time out, the rate limiter serves in turn.  Nothing obliges a client to call.
FairSpec == Spec /\ \A r \in Calls : WF_vars(Progress(r))

-----------------------------------------------------------------------------
\* Every variable holds a value of its type.
TypeOK ==
  /\ life \in 0 .. MaxLives /\ up \in BOOLEAN /\ live \in BOOLEAN
  /\ gw \in Instances \cup {NoInst}
  /\ sent \in [Instances -> [Cids -> Marks]]
  /\ call \in [Calls -> Call]
  /\ journal \subseteq Cids \X {"placed", "dry_run"}
  /\ torn \in BOOLEAN
  /\ placed \in [Lives -> [Cids -> Nat]]
  /\ sends \in Nat
  /\ spent \in [{0} -> Nat]
  /\ exposure \in [{0} -> [Symbols -> Nat]]
  /\ halted \subseteq {0}

\* "a twin request cannot also pass and double-send (AF 3.4)" (order_gateway.rs,
\* layer 3): while the process runs, the exchange accepts at most one order for
\* a client id, however calls interleave, are dropped, retried or time out.
NoDoubleSend == \A l \in Lives, c \in Cids : placed[l][c] <= 1

\* Every request on the wire was paid for in the ledger by its own pre_order,
\* so a day's requests stay within max_orders_per_day: over restarts, retries
\* and twins, and even when two instances of a sleeve's gateway exist.
WireWithinCap == sends <= MaxOrders

\* A DUPLICATE that carries a broker's order id tells the truth: what an
\* instance remembers as placed, the exchange accepted in this life or before.
PlacedIsReal ==
  \A i \in Instances, c \in Cids :
    sent[i][c] = "placed" => \E l \in 1 .. life : placed[l][c] > 0

\* A client id with a placed or dry_run line in the journal is never sent
\* again, in this life or after any number of restarts (Journal::replay).
JournaledNeverResent ==
  [][\A c \in Cids : (\E e \in {"placed", "dry_run"} : <<c, e>> \in journal)
       => \A l \in Lives : placed'[l][c] = placed[l][c]]_vars

\* "so a restart cannot double-send a client_id that already reached the broker
\* (AF 3.4)" (journal.rs, replay): what the exchange accepted in one life is not
\* accepted again in a later one.
RestartNeverResends ==
  \A l, m \in Lives, c \in Cids : l # m => placed[l][c] = 0 \/ placed[m][c] = 0

\* Every call is answered (or its process dies): no twin, lost reply or full
\* ledger leaves a caller waiting.
EveryCallIsAnswered ==
  \A r \in Calls : call[r].pc # "idle" ~> call[r].pc = "idle"
=============================================================================
