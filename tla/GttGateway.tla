----------------------------- MODULE GttGateway -----------------------------
(***************************************************************************)
(* The resting stops of the gateway (baskfy-desk, lanes/exec_core/         *)
(* order_gateway.rs): place_gtt_stop, modify_gtt_value, delete_gtt_value,  *)
(* for one instrument, with the journal of OrderGateway and the broker's   *)
(* book of triggers.                                                       *)
(*                                                                         *)
(* A call is cut at its awaits; calls interleave, may be dropped, and the  *)
(* process may die and start again.  Prices are in paise.  Unlike place(), *)
(* a stop does not obey the kill switch, spends no headroom, and keeps its *)
(* client id reserved after every failure.                                 *)
(***************************************************************************)
EXTENDS Integers, FiniteSets

CONSTANTS
  Calls,        \* slots for calls in progress
  Cids,         \* client ids of stops
  Prices,       \* triggers and last prices callers name
  Requests,     \* the <<trigger, last price>> pairs they ask for
  Tick,         \* the instrument's tick size
  MaxTriggers,  \* bound: triggers the broker ever creates
  MaxLives      \* bound: how often the process is started

ASSUME GttAssumption ==
  /\ Prices \subseteq Nat \ {0} /\ Requests \subseteq Prices \X Prices
  /\ Tick \in Nat \ {0}
  /\ MaxTriggers \in Nat /\ MaxLives \in Nat
ASSUME SlotsAssumption == IsFiniteSet(Calls) /\ Cids # {} /\ Prices # {}

VARIABLES
  life, up, live,   \* as in OrderGateway
  sent,      \* the `gtt_sent` map
  cached,    \* the exchange's tick sizes are in memory
  call,      \* the calls
  journal,   \* the gtt lines: <<client id, event>>
  torn,      \* the journal holds a line that is not JSON
  killed,    \* the account's kill switch
  book,      \* the broker's triggers
  made       \* history: triggers created, per life and client id

process == <<life, up, live>>
disk    == <<journal, torn>>
broker  == <<book, made>>
vars    == <<life, up, live, sent, cached, call, journal, torn, killed, book, made>>

Lives    == 1 .. MaxLives
Triggers == 1 .. MaxTriggers
Writes   == {"ok", "failed", "torn"}
Fates    == {"accepted", "refused"}      \* of a request at the broker
Marks    == {"free", "pending", "dry", "placed"}
Events   == {"gtt_placed", "gtt_dry_run"}   \* that replay looks at
Ops      == {"place", "modify", "delete"}
Steps    == {"idle", "risk", "reserve", "slot", "snap", "wire"}
Call     == [op : Ops, pc : Steps, cid : Cids, gtt : Triggers \cup {0},
             trig : Prices, last : Prices, floor : Prices \cup {0},
             fate : Fates \cup {"none"}]
Trigger  == [st : {"none", "resting", "gone"}, level : Nat, last : Nat]

SomeCid   == CHOOSE c \in Cids : TRUE
SomePrice == CHOOSE p \in Prices : TRUE
NoCall    == [op |-> "place", pc |-> "idle", cid |-> SomeCid, gtt |-> 0,
              trig |-> SomePrice, last |-> SomePrice, floor |-> 0, fate |-> "none"]
NoTrigger == [st |-> "none", level |-> 0, last |-> 0]

-----------------------------------------------------------------------------
\* to_tick: the nearest multiple of the tick, a tie to the even one.
ToTick(p) ==
  LET steps == p \div Tick
      over  == 2 * (p % Tick)
  IN  Tick * (IF over < Tick \/ (over = Tick /\ steps % 2 = 0) THEN steps ELSE steps + 1)

\* refuse_stop, for a positive quantity.
IsStop(trig, last) == 0 < trig /\ trig < last

Init ==
  /\ life = 0 /\ up = FALSE /\ live = FALSE
  /\ sent = [c \in Cids |-> "free"]
  /\ cached = FALSE
  /\ call = [r \in Calls |-> NoCall]
  /\ journal = {} /\ torn = FALSE
  /\ killed = FALSE
  /\ book = [t \in Triggers |-> NoTrigger]
  /\ made = [l \in Lives |-> [c \in Cids |-> 0]]

\* mutants: the event is recovered instead of a handle; simulated stops are forgotten
ReplayEvents ==
  [c \in Cids |-> IF <<c, "gtt_dry_run">> \in journal THEN "gtt_dry_run"
                  ELSE IF <<c, "gtt_placed">> \in journal THEN "placed" ELSE "free"]
ReplayLiveOnly ==
  [c \in Cids |-> IF <<c, "gtt_placed">> \in journal THEN "placed" ELSE "free"]

\* Journal::replay: a gtt_placed line without a trigger id recovers nothing.
Replay ==
  [c \in Cids |-> IF <<c, "gtt_placed">> \in journal THEN "placed"
                  ELSE IF <<c, "gtt_dry_run">> \in journal THEN "dry" ELSE "free"]

Append(lines, w) ==
  /\ journal' = IF w = "ok" THEN journal \cup lines ELSE journal
  /\ torn' = (torn \/ w = "torn")

Goto(r, pc) == call' = [call EXCEPT ![r].pc = pc]
Return(r)   == call' = [call EXCEPT ![r] = NoCall]
Mark(r, m)  == sent' = [sent EXCEPT ![call[r].cid] = m]
Snapped(r)  == ToTick(call[r].trig)

-----------------------------------------------------------------------------
\* The process starts and builds its gateway; on a torn journal it does not.
Boot(l) ==
  /\ ~up /\ life < MaxLives /\ ~torn
  /\ up' = TRUE /\ life' = life + 1 /\ live' = l
  /\ sent' = Replay
  /\ UNCHANGED <<cached, call, disk, killed, broker>>

\* The process dies (half way through a line: a torn append, then this).
Crash ==
  /\ up
  /\ up' = FALSE
  /\ sent' = [c \in Cids |-> "free"]
  /\ cached' = FALSE
  /\ call' = [r \in Calls |-> NoCall]
  /\ UNCHANGED <<life, live, disk, killed, broker>>

\* place_gtt_stop is called for something that is a stop.
PlaceGttStop(r, c, trig, last) ==
  /\ up /\ call[r].pc = "idle"
  /\ IsStop(trig, last)
  /\ call' = [call EXCEPT ![r] =
       [NoCall EXCEPT !.pc = "risk", !.cid = c, !.trig = trig, !.last = last]]
  /\ UNCHANGED <<process, sent, cached, disk, killed, broker>>

\* mutant: the floor is not compared
ModifyAnywhere(r, t, trig, last, floor) ==
  /\ up /\ call[r].pc = "idle"
  /\ book[t].st # "none"
  /\ IsStop(trig, last)
  /\ call' = [call EXCEPT ![r] =
       [NoCall EXCEPT !.op = "modify", !.pc = "risk", !.gtt = t,
                      !.trig = trig, !.last = last, !.floor = floor]]
  /\ UNCHANGED <<process, sent, cached, disk, killed, broker>>

\* modify_gtt_value is called for a trigger the broker once named, for a stop
\* that is not below the floor (0: no fo_plan, so no floor).
ModifyGtt(r, t, trig, last, floor) ==
  /\ up /\ call[r].pc = "idle"
  /\ book[t].st # "none"
  /\ trig >= floor
  /\ IsStop(trig, last)
  /\ call' = [call EXCEPT ![r] =
       [NoCall EXCEPT !.op = "modify", !.pc = "risk", !.gtt = t,
                      !.trig = trig, !.last = last, !.floor = floor]]
  /\ UNCHANGED <<process, sent, cached, disk, killed, broker>>

\* delete_gtt_value is called for a trigger the broker once named.
DeleteGtt(r, t) ==
  /\ up /\ call[r].pc = "idle"
  /\ book[t].st # "none"
  /\ call' = [call EXCEPT ![r] = [NoCall EXCEPT !.op = "delete", !.pc = "risk", !.gtt = t]]
  /\ UNCHANGED <<process, sent, cached, disk, killed, broker>>

\* Layers 1 and 1b refuse: a block line, BLOCKED.
GuardBlocks(w) ==
  /\ up
  /\ Append({}, w)
  /\ UNCHANGED <<process, sent, cached, call, killed, broker>>

\* Layer 2 of place and modify: the kill switch is noted, not obeyed (place also
\* notes a stop outside the band); a note that cannot be written ends the call.
RiskNoted(r, w) ==
  /\ call[r].pc = "risk" /\ call[r].op # "delete"
  /\ w # "ok" => killed \/ call[r].op = "place"
  /\ Append({}, w)
  /\ IF w # "ok" THEN Return(r)
                 ELSE Goto(r, IF call[r].op = "place" THEN "reserve" ELSE "slot")
  /\ UNCHANGED <<process, sent, cached, killed, broker>>

\* Layer 2 of delete: "cancelling removes protection, so the kill switch refuses it".
RiskAllowsDelete(r) ==
  /\ call[r].pc = "risk" /\ call[r].op = "delete" /\ ~killed
  /\ Goto(r, "slot")
  /\ UNCHANGED <<process, sent, cached, disk, killed, broker>>

RiskBlocksDelete(r, w) ==
  /\ call[r].pc = "risk" /\ call[r].op = "delete" /\ killed
  /\ Append({}, w)
  /\ Return(r)
  /\ UNCHANGED <<process, sent, cached, killed, broker>>

\* The risk store fails: the call ends with its error.
RiskFails(r) ==
  /\ call[r].pc = "risk"
  /\ Return(r)
  /\ UNCHANGED <<process, sent, cached, disk, killed, broker>>

\* Layer 3 of place: DUPLICATE, or the client id is reserved.
Reserve(r) ==
  /\ call[r].pc = "reserve"
  /\ IF sent[call[r].cid] # "free"
       THEN Return(r) /\ UNCHANGED sent
       ELSE Goto(r, "slot") /\ Mark(r, "pending")
  /\ UNCHANGED <<process, cached, disk, killed, broker>>

\* Layer 4, then DRY_RUN: journalled first, settled second.
DryRunGtt(r, w) ==
  /\ call[r].pc = "slot" /\ ~live /\ call[r].op = "place"
  /\ Append({<<call[r].cid, "gtt_dry_run">>}, w)
  /\ IF w = "ok" THEN Mark(r, "dry") ELSE UNCHANGED sent
  /\ Return(r)
  /\ UNCHANGED <<process, cached, killed, broker>>

DryRunChange(r, w) ==
  /\ call[r].pc = "slot" /\ ~live /\ call[r].op # "place"
  /\ Append({}, w)
  /\ Return(r)
  /\ UNCHANGED <<process, sent, cached, killed, broker>>

\* tick_size: from memory, or the instrument dump is fetched and remembered.
TickSize(r) ==
  /\ call[r].pc = "slot" /\ live /\ call[r].op # "delete"
  /\ cached' = TRUE
  /\ Goto(r, "snap")
  /\ UNCHANGED <<process, sent, disk, killed, broker>>

\* The dump cannot be fetched, or is empty: GTT_ERROR, the id stays reserved.
TickFails(r, w) ==
  /\ call[r].pc = "slot" /\ live /\ call[r].op # "delete" /\ ~cached
  /\ Append({}, w)
  /\ Return(r)
  /\ UNCHANGED <<process, sent, cached, killed, broker>>

\* "a coarse tick can round a trigger UP through the price": BLOCKED.
SnapBlocks(r, w) ==
  /\ call[r].pc = "snap" /\ ~IsStop(Snapped(r), call[r].last)
  /\ Append({}, w)
  /\ Return(r)
  /\ UNCHANGED <<process, sent, cached, killed, broker>>

OnTheWire(r, fate) == call' = [call EXCEPT ![r].pc = "wire", ![r].fate = fate]
Resting(r) == [st |-> "resting", level |-> Snapped(r), last |-> call[r].last]

\* mutant: the snapped trigger is not checked again
SendUnchecked(r, t, fate) ==
  /\ call[r].pc = "snap" /\ call[r].op = "place"
  /\ OnTheWire(r, fate)
  /\ IF fate = "accepted"
       THEN /\ book[t].st = "none" /\ \A u \in Triggers : u < t => book[u].st # "none"
            /\ book' = [book EXCEPT ![t] = Resting(r)]
            /\ made' = [made EXCEPT ![life][call[r].cid] = @ + 1]
       ELSE UNCHANGED broker
  /\ UNCHANGED <<process, sent, cached, disk, killed>>

\* kite.place_gtt: the broker creates the next trigger, or does not.
SendPlace(r, t, fate) ==
  /\ call[r].pc = "snap" /\ call[r].op = "place"
  /\ IsStop(Snapped(r), call[r].last)
  /\ OnTheWire(r, fate)
  /\ IF fate = "accepted"
       THEN /\ book[t].st = "none" /\ \A u \in Triggers : u < t => book[u].st # "none"
            /\ book' = [book EXCEPT ![t] = Resting(r)]
            /\ made' = [made EXCEPT ![life][call[r].cid] = @ + 1]
       ELSE UNCHANGED broker
  /\ UNCHANGED <<process, sent, cached, disk, killed>>

\* kite.modify_gtt: only a resting trigger can be modified.
SendModify(r, fate) ==
  /\ call[r].pc = "snap" /\ call[r].op = "modify"
  /\ IsStop(Snapped(r), call[r].last)
  /\ OnTheWire(r, fate)
  /\ IF fate = "accepted"
       THEN /\ book[call[r].gtt].st = "resting"
            /\ book' = [book EXCEPT ![call[r].gtt] = Resting(r)]
       ELSE UNCHANGED book
  /\ UNCHANGED <<process, sent, cached, disk, killed, made>>

\* kite.delete_gtt.
SendDelete(r, fate) ==
  /\ call[r].pc = "slot" /\ live /\ call[r].op = "delete"
  /\ OnTheWire(r, fate)
  /\ IF fate = "accepted"
       THEN /\ book[call[r].gtt].st = "resting"
            /\ book' = [book EXCEPT ![call[r].gtt].st = "gone"]
       ELSE UNCHANGED book
  /\ UNCHANGED <<process, sent, cached, disk, killed, made>>

\* place_gtt answers: settled first, journalled second.  The broker may name no
\* trigger id, and replay ignores a line without one.
GttPlaced(r, named, w) ==
  /\ call[r].pc = "wire" /\ call[r].op = "place" /\ call[r].fate = "accepted"
  /\ Mark(r, "placed")
  /\ Append(IF named THEN {<<call[r].cid, "gtt_placed">>} ELSE {}, w)
  /\ Return(r)
  /\ UNCHANGED <<process, cached, killed, broker>>

\* mutant: a failed stop frees its id for a retry, as place() does
ErrorFrees(r, w) ==
  /\ call[r].pc = "wire"
  /\ IF call[r].op = "place" THEN Mark(r, "free") ELSE UNCHANGED sent
  /\ Append({}, w)
  /\ Return(r)
  /\ UNCHANGED <<process, cached, killed, broker>>

\* Any other answer, or none: GTT_ERROR, GTT_MODIFIED, GTT_DELETED and the like.
\* Whatever became of the request, a stop's id stays reserved.
Answered(r, w) ==
  /\ call[r].pc = "wire"
  /\ Append({}, w)
  /\ Return(r)
  /\ UNCHANGED <<process, sent, cached, killed, broker>>

\* The client hangs up and the handler is dropped at an await.
Drop(r) ==
  /\ call[r].pc \notin {"idle", "snap"}
  /\ Return(r)
  /\ UNCHANGED <<process, sent, cached, disk, killed, broker>>

\* The price falls through a stop and the broker fires it.
Fires(t) ==
  /\ book[t].st = "resting"
  /\ book' = [book EXCEPT ![t].st = "gone"]
  /\ UNCHANGED <<process, sent, cached, call, disk, killed, made>>

\* A loss at the cap, or an operator, trips the kill switch.
Halt ==
  /\ ~killed
  /\ killed' = TRUE
  /\ UNCHANGED <<process, sent, cached, call, disk, broker>>

Request(r) ==
  \/ \E c \in Cids, q \in Requests : PlaceGttStop(r, c, q[1], q[2])
  \/ \E t \in Triggers : DeleteGtt(r, t)
  \/ \E t \in Triggers, q \in Requests, floor \in Prices \cup {0} :
       ModifyGtt(r, t, q[1], q[2], floor)

Progress(r) ==
  \/ RiskAllowsDelete(r) \/ RiskFails(r) \/ Reserve(r) \/ TickSize(r)
  \/ \E w \in Writes : \/ RiskNoted(r, w) \/ RiskBlocksDelete(r, w)
                       \/ DryRunGtt(r, w) \/ DryRunChange(r, w)
                       \/ TickFails(r, w) \/ SnapBlocks(r, w) \/ Answered(r, w)
                       \/ \E named \in BOOLEAN : GttPlaced(r, named, w)
  \/ \E fate \in Fates : \/ SendModify(r, fate) \/ SendDelete(r, fate)
                         \/ \E t \in Triggers : SendPlace(r, t, fate)

Next ==
  \/ \E l \in BOOLEAN : Boot(l)
  \/ Crash
  \/ \E w \in Writes : GuardBlocks(w)
  \/ \E r \in Calls : Request(r) \/ Progress(r) \/ Drop(r)
  \/ \E t \in Triggers : Fires(t)
  \/ Halt

Spec == Init /\ [][Next]_vars

-----------------------------------------------------------------------------
\* Every variable holds a value of its type.
TypeOK ==
  /\ life \in 0 .. MaxLives /\ up \in BOOLEAN /\ live \in BOOLEAN
  /\ sent \in [Cids -> Marks]
  /\ cached \in BOOLEAN
  /\ call \in [Calls -> Call]
  /\ journal \subseteq Cids \X Events
  /\ torn \in BOOLEAN /\ killed \in BOOLEAN
  /\ book \in [Triggers -> Trigger]
  /\ made \in [Lives -> [Cids -> Nat]]

\* "two triggers on one position sell twice what is held" (order_gateway.rs, GTT
\* layer 3): while the process runs, the broker creates at most one trigger for
\* a client id, however calls interleave, fail, are dropped or retried.
OneTriggerPerId == \A l \in Lives, c \in Cids : made[l][c] <= 1

\* What rests at the broker was a stop when it was sent: positive and below the
\* last price, after snapping to the tick too ("that is not a stop, it would fire
\* immediately and sell the position", gtt.rs, refuse_stop).
RestingIsAStop ==
  \A t \in Triggers : book[t].st = "resting" => IsStop(book[t].level, book[t].last)

\* "a trail is never lowered" (order_gateway.rs, modify_gtt_value): though the floor
\* is compared before the trigger is snapped, no modify leaves a trigger below
\* where its floor would rest.
FloorKept ==
  [][\A r \in Calls, fate \in Fates :
       SendModify(r, fate) /\ fate = "accepted"
         => book'[call[r].gtt].level >= ToTick(call[r].floor)]_vars

\* A client id with a line that names its trigger, or with a dry-run line, is
\* never armed again, in this life or after any number of restarts.
JournaledNeverRearmed ==
  [][\A c \in Cids : (\E e \in Events : <<c, e>> \in journal)
       => \A l \in Lives : made'[l][c] = made[l][c]]_vars
=============================================================================
