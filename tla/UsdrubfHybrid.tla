---------------------------- MODULE UsdrubfHybrid ----------------------------
(***************************************************************************)
(* The strategy alor_usdrubf_hybrid in live mode, with a broker and a      *)
(* gateway that carries its commands out one after the other.  Entries and *)
(* exits are market orders; a mean reversion position (MR) is protected by *)
(* a take profit and a stop order, a breakout position (BO) is closed on a *)
(* bar.  What the strategy knows of its orders comes over four streams     *)
(* with no order between them: answers, order events, stop order events    *)
(* and position events; the last word is the position's                    *)
(* (docs/alor-usdrubf-live-hardening-tz-2026-04-06.md:99).                 *)
(*                                                                         *)
(* Prices and times of day are abstracted: a bar says whether it carries a *)
(* signal and whether the position at hand is to be closed.  A period of   *)
(* three seconds that was started lasts until the timer ends it.           *)
(***************************************************************************)
EXTENDS Integers, Sequences, FiniteSets, SequencesExt

CONSTANTS
  Target,      \* live_fixed_units
  None,        \* no entry, no position, no signal
  BarsPerDay,  \* bars of a model session; the last one closes positions
  MaxBars,     \* bound: bars
  MaxOrders,   \* bound: orders placed
  MaxRefused   \* bound: orders refused

ASSUME TargetAssumption == Target \in Nat \ {0}
ASSUME BarsAssumption == BarsPerDay \in Nat \ {0} /\ MaxBars \in Nat /\ MaxRefused \in Nat

VARIABLES
  s,           \* memory of the strategy
  bars,        \* bars handled
  cmds,        \* commands published, in the order of publication
  acks, orderQ, stopQ, positionQ,   \* entries of the streams not handled yet
  known,       \* ctx.position_qty, the position the runtime handled last
  account,     \* the position at the broker
  book,        \* working orders at the broker
  lastId,      \* the last order number given
  refused,     \* the roles of the orders refused so far
  forgot       \* history: reset_day dropped a position that is still open

queues == <<acks, orderQ, stopQ, positionQ>>
broker == <<account, book, lastId, refused>>
vars == <<s, bars, cmds, queues, known, broker, forgot>>

Signals == {[owner |-> "MR", side |-> -1], [owner |-> "BO", side |-> 1], [owner |-> "BO", side |-> -1]}

(* pend is pending_entry, open is open_position (levels: it has stop and   *)
(* take profit, or stop1 and stop2); entryIn and exitIn are the in-flight  *)
(* flags, defer exit_reject_deferred_until_bar_ts; tp, sl and slx are the  *)
(* tracked ids of the protection (0: none), pendTp and pendSl say that it  *)
(* was sent; rec is bracket_terminal_reconcile_started_ms, done the sides  *)
(* of bo_was_long_today and bo_was_short_today.                            *)
Start ==
  [pend |-> None, open |-> None, entryIn |-> FALSE, exitIn |-> FALSE, defer |-> FALSE,
   tracked |-> {}, tp |-> 0, sl |-> 0, slx |-> 0, pendTp |-> FALSE, pendSl |-> FALSE,
   rec |-> FALSE, done |-> {}]

Init ==
  /\ s = Start
  /\ bars = 0
  /\ cmds = << >>
  /\ acks = << >> /\ orderQ = << >> /\ stopQ = << >> /\ positionQ = << >>
  /\ known = 0
  /\ account = 0
  /\ book = {}
  /\ lastId = 0
  /\ refused = {}
  /\ forgot = FALSE

Abs(q) == IF q < 0 THEN -q ELSE q
Sign(q) == IF q < 0 THEN -1 ELSE 1
IsOpen(m, owner) == m.open # None /\ m.open.owner = owner

-----------------------------------------------------------------------------
(* Intents.  A step of the strategy is the memory it leaves and the        *)
(* commands it emits.                                                      *)
Order(role, side, qty) == [do |-> role, side |-> side, qty |-> qty, id |-> 0]
Cancel(id) == [do |-> "cancel", side |-> 0, qty |-> 0, id |-> id]
Delete(id) == [do |-> "delete", side |-> 0, qty |-> 0, id |-> id]
Step(m, out) == [mem |-> m, out |-> out]
IfKnown(id, command) == IF id = 0 THEN << >> ELSE <<command>>

ClearProtection(m) ==
  [m EXCEPT !.pendTp = FALSE, !.pendSl = FALSE, !.tp = 0, !.sl = 0, !.slx = 0]

(* emit_cancel_all_protection: only what has an id can be cancelled.       *)
CancelProtection(m) ==
  IfKnown(m.tp, Cancel(m.tp)) \o IfKnown(m.sl, Delete(m.sl)) \o IfKnown(m.slx, Cancel(m.slx))

Exit(m, side, qty) ==
  Step([ClearProtection(m) EXCEPT !.exitIn = TRUE],
       CancelProtection(m) \o <<Order("exit", side, qty)>>)

(* emit_broker_residual_emergency_exit.                                    *)
Emergency(m, q) == IF m.exitIn \/ q = 0 THEN Step(m, << >>) ELSE Exit(m, -Sign(q), Abs(q))

(* maybe_emit_live_exit_intent.                                            *)
LiveExit(m) ==
  IF m.open = None \/ m.exitIn THEN Step(m, << >>) ELSE Exit(m, -m.open.side, m.open.size)

(* maybe_emit_live_entry_intent.                                           *)
LiveEntry(m) ==
  IF m.pend = None \/ m.entryIn \/ m.open # None
    THEN Step(m, << >>)
    ELSE Step([m EXCEPT !.entryIn = TRUE, !.pend.partial = FALSE],
              <<Order("entry", m.pend.side, Target)>>)

(* maybe_emit_live_mr_brackets.                                            *)
Brackets(m) ==
  LET due == ~ m.exitIn /\ IsOpen(m, "MR")
      tp == due /\ m.tp = 0 /\ ~ m.pendTp
      sl == due /\ m.sl = 0 /\ ~ m.pendSl
      Protect(role) == <<Order(role, -m.open.side, m.open.size)>>
  IN  Step([m EXCEPT !.pendTp = @ \/ tp, !.pendSl = @ \/ sl],
           (IF tp THEN Protect("tp") ELSE << >>) \o (IF sl THEN Protect("sl") ELSE << >>))

(* A second step, taken from the memory the first one leaves.              *)
Then(first, second) == [second EXCEPT !.out = first.out \o @]

-----------------------------------------------------------------------------
(* on_bar.  The reset of a new day forgets entry, position and orders, but *)
(* not the protection.                                                     *)
ResetDay(m) ==
  [m EXCEPT !.pend = None, !.open = None, !.tracked = {}, !.entryIn = FALSE, !.exitIn = FALSE,
            !.defer = FALSE, !.done = {}]

Accept(m, signal) ==
  LET taken == [m EXCEPT !.pend = [owner |-> signal.owner, side |-> signal.side, partial |-> FALSE],
                         !.done = IF signal.owner = "BO" THEN @ \cup {signal.side} ELSE @]
      wanted == /\ signal # None /\ m.open = None /\ m.pend = None /\ ~ m.entryIn
                /\ signal.owner = "BO" => signal.side \notin m.done
  IN  IF wanted THEN LiveEntry(taken) ELSE Step(m, << >>)

OnBar(m, newDay, close, signal) ==
  LET today == IF newDay THEN ResetDay(m) ELSE m
      retried == [today EXCEPT !.defer = FALSE]
      protected == Brackets(retried)
      entered == Then(protected, LiveEntry(protected.mem))
  IN  IF today.defer /\ today.open # None /\ ~ today.exitIn
        THEN LiveExit(retried)
        ELSE IF today.open # None /\ today.open.levels /\ close
        THEN Then(protected, LiveExit(protected.mem))
        ELSE Then(entered, Accept(entered.mem, signal))

(* on_ack: any refusal or error, whatever command it answers.              *)
OnAck(m, a) ==
  LET named == IF a.id = 0 THEN m ELSE [m EXCEPT !.tracked = @ \cup {a.id}]
  IN  IF a.ok
        THEN named
        ELSE [named EXCEPT !.entryIn = FALSE, !.exitIn = FALSE,
                           !.defer = @ \/ (m.exitIn /\ m.open # None)]

(* on_order.                                                               *)
OnOrder(m, e) ==
  LET over == e.status \in {"filled", "cancelled"}
      tracked == IF over THEN m.tracked \ {e.id} ELSE m.tracked \cup {e.id}
      bracket == [m EXCEPT !.pendTp = FALSE, !.tp = IF over THEN 0 ELSE e.id,
                           !.rec = @ \/ e.status = "filled",
                           !.exitIn = @ \/ e.status = "filled"]
      seen == IF IsOpen(m, "MR") /\ e.role = "tp" THEN bracket ELSE m
  IN  [seen EXCEPT !.tracked = tracked, !.entryIn = @ /\ ~ (tracked = {} /\ m.open = None)]

(* on_stop_order.                                                          *)
OnStopOrder(m, e) ==
  LET kept == IF e.status = "working" THEN e.id ELSE 0
  IN  IF ~ IsOpen(m, "MR")
        THEN Step(m, << >>)
        ELSE IF e.status = "triggered"
        THEN Step([m EXCEPT !.pendSl = FALSE, !.sl = kept, !.slx = e.exch, !.tp = 0,
                            !.rec = TRUE, !.exitIn = TRUE],
                  IfKnown(m.tp, Cancel(m.tp)))
        ELSE Step([m EXCEPT !.pendSl = FALSE, !.sl = kept,
                            !.slx = IF e.status = "cancelled" THEN 0 ELSE @], << >>)

(* on_position.                                                            *)
OnFlat(m) ==
  Step([ClearProtection(m) EXCEPT !.open = None, !.exitIn = FALSE, !.defer = FALSE,
                                  !.rec = FALSE, !.tracked = {}],
       CancelProtection(m))

(* A variant of Position that keeps the signed quantity.                   *)
PositionSigned(owner, q, levels) ==
  [owner |-> owner, side |-> Sign(q), size |-> q, levels |-> levels]

Position(owner, q, levels) ==
  [owner |-> owner, side |-> Sign(q), size |-> Abs(q), levels |-> levels]

(* A variant of AwaitsTarget that takes the first fill of a breakout for   *)
(* the whole entry.                                                        *)
AwaitsTargetForMR(m) == m.pend # None /\ m.pend.owner = "MR" /\ Target > 1

AwaitsTarget(m) == m.pend # None /\ Target > 1

OnPosition(m, q) ==
  LET opened == [m EXCEPT !.open = IF m.pend # None
                                     THEN Position(m.pend.owner, m.pend.side * Abs(q), TRUE)
                                     ELSE [@ EXCEPT !.side = Sign(q), !.size = Abs(q)],
                          !.pend = None, !.entryIn = FALSE, !.exitIn = FALSE]
      signed == m.open.side * m.open.size
  IN  IF q = 0 THEN OnFlat(m)
      ELSE IF AwaitsTarget(m) /\ m.pend.side * q # Target
      THEN IF m.pend.side * q \in 1 .. Target - 1
             THEN Step([m EXCEPT !.pend.partial = TRUE], << >>)
             ELSE Emergency([m EXCEPT !.pend = None], q)
      ELSE
        CASE m.open = None /\ m.pend = None ->
             Emergency([m EXCEPT !.open = Position("BO", q, FALSE)], q)
        [] m.open # None /\ (m.exitIn \/ m.rec) -> Step(m, << >>)
        [] OTHER ->
             IF m.open = None \/ signed = q
               THEN Brackets(IF IsOpen(opened, "MR") THEN opened ELSE ClearProtection(opened))
               ELSE IF IsOpen(m, "MR") /\ Sign(q) = m.open.side /\ Abs(q) < m.open.size
               THEN Step([m EXCEPT !.rec = TRUE, !.exitIn = TRUE], << >>)
               ELSE LET step == Emergency(m, q)
                    IN  [step EXCEPT !.mem.open.side = Sign(q), !.mem.open.size = Abs(q)]

(* What is known of the entry is cancelled, in the order of a BTreeSet.    *)
CancelTracked(m) ==
  Step([m EXCEPT !.pend = None],
       LET ids == SetToSortSeq(m.tracked, <) IN [i \in DOMAIN ids |-> Cancel(ids[i])])

(* A variant of CutEntry that leaves the partial position at the broker.   *)
CutEntryUnflattened(m) == CancelTracked(m)

(* partial_entry_fill_timeout: the entry is cut off, and the position      *)
(* known is flattened.                                                     *)
CutEntry(m) ==
  LET cut == CancelTracked(m)
  IN  Then(cut, Emergency(cut.mem, known))

(* on_timer: the two periods of three seconds.                             *)
OnTimer(m) ==
  LET settled == [m EXCEPT !.rec = FALSE]
  IN  IF m.rec /\ known # 0
        THEN Emergency([settled EXCEPT !.exitIn = FALSE], known)
        ELSE IF m.pend # None /\ m.pend.partial /\ known # 0
        THEN CutEntry(settled)
        ELSE Step(settled, << >>)

-----------------------------------------------------------------------------
(* The gateway and the broker.  An order that is placed is reported on its *)
(* stream, and the answer names an order that is not a stop order.         *)
Markets == {"entry", "exit", "slx"}
Removals == {"cancel", "delete"}

Place(c) ==
  LET id == lastId + 1
      news == [id |-> id, role |-> c.do, status |-> "working", exch |-> 0]
  IN  /\ id <= MaxOrders
      /\ lastId' = id
      /\ book' = book \cup {[id |-> id, role |-> c.do, side |-> c.side, left |-> c.qty]}
      /\ orderQ' = IF c.do = "tp" THEN Append(orderQ, news) ELSE orderQ
      /\ stopQ' = IF c.do = "sl" THEN Append(stopQ, news) ELSE stopQ

Answer(ok, id) == acks' = Append(acks, [ok |-> ok, id |-> id])

Carry ==
  /\ cmds # << >> /\ Head(cmds).do \notin Removals
  /\ cmds' = Tail(cmds)
  /\ Place(Head(cmds))
  /\ Answer(TRUE, IF Head(cmds).do = "sl" THEN 0 ELSE lastId')
  /\ UNCHANGED <<s, bars, positionQ, known, account, refused, forgot>>

Finish(o, status) ==
  LET news == [id |-> o.id, role |-> o.role, status |-> status, exch |-> 0]
  IN  IF o.role = "sl"
        THEN stopQ' = Append(stopQ, news) /\ UNCHANGED orderQ
        ELSE orderQ' = Append(orderQ, news) /\ UNCHANGED stopQ

CarryCancel ==
  /\ cmds # << >> /\ Head(cmds).do \in Removals
  /\ cmds' = Tail(cmds)
  /\ \/ \E o \in book :
          /\ o.id = Head(cmds).id
          /\ book' = book \ {o}
          /\ Finish(o, "cancelled")
          /\ \E id \in {0, IF o.role = "sl" THEN 0 ELSE o.id} : Answer(TRUE, id)
     \/ /\ \A o \in book : o.id # Head(cmds).id
        /\ Answer(FALSE, 0)
        /\ UNCHANGED <<book, orderQ, stopQ>>
  /\ UNCHANGED <<s, bars, positionQ, known, account, lastId, refused, forgot>>

(* The broker refuses an order, a market order included.                   *)
Refuse ==
  /\ cmds # << >> /\ Head(cmds).do \notin Removals
  /\ Cardinality(refused) < MaxRefused /\ Head(cmds).do \notin refused
  /\ refused' = refused \cup {Head(cmds).do}
  /\ cmds' = Tail(cmds)
  /\ Answer(FALSE, 0)
  /\ UNCHANGED <<s, bars, orderQ, stopQ, positionQ, known, account, book, lastId, forgot>>

Fill(o) ==
  /\ o \in book /\ o.role # "sl"
  /\ account' = account + o.side
  /\ positionQ' = Append(positionQ, account')
  /\ IF o.left = 1
       THEN book' = book \ {o} /\ Finish(o, "filled")
       ELSE book' = (book \ {o}) \cup {[o EXCEPT !.left = @ - 1]} /\ UNCHANGED <<orderQ, stopQ>>
  /\ UNCHANGED <<s, bars, cmds, acks, known, lastId, refused, forgot>>

(* The stop order is triggered and becomes an order of its own.            *)
Trigger(o) ==
  /\ o \in book /\ o.role = "sl"
  /\ lastId' = lastId + 1
  /\ book' = (book \ {o}) \cup {[o EXCEPT !.id = lastId', !.role = "slx"]}
  /\ stopQ' = Append(stopQ, [id |-> o.id, role |-> "sl", status |-> "triggered", exch |-> lastId'])
  /\ UNCHANGED <<s, bars, cmds, acks, orderQ, positionQ, known, account, refused, forgot>>

-----------------------------------------------------------------------------
(* The runtime hands what it reads to the strategy and publishes what the  *)
(* strategy emits.                                                         *)
(* A request id is made of the kind of the command and the time of the     *)
(* callback (deterministic_request_id), so that all cancels of a callback  *)
(* have the same one: the gateway answers Duplicate to those after the     *)
(* first, and on_ack ignores that answer.                                  *)
Heard(out) ==
  LET first == SelectInSeq(out, LAMBDA c : c.do = "cancel")
  IN  IF first = 0
        THEN out
        ELSE SubSeq(out, 1, first)
               \o SelectSeq(SubSeq(out, first + 1, Len(out)), LAMBDA c : c.do # "cancel")

Publish(step) ==
  /\ s' = step.mem
  /\ cmds' = cmds \o Heard(step.out)

HandleAck ==
  /\ acks # << >>
  /\ acks' = Tail(acks)
  /\ Publish(Step(OnAck(s, Head(acks)), << >>))
  /\ UNCHANGED <<bars, orderQ, stopQ, positionQ, known, broker, forgot>>

HandleOrder ==
  /\ orderQ # << >>
  /\ orderQ' = Tail(orderQ)
  /\ Publish(Step(OnOrder(s, Head(orderQ)), << >>))
  /\ UNCHANGED <<bars, acks, stopQ, positionQ, known, broker, forgot>>

HandleStopOrder ==
  /\ stopQ # << >>
  /\ stopQ' = Tail(stopQ)
  /\ Publish(OnStopOrder(s, Head(stopQ)))
  /\ UNCHANGED <<bars, acks, orderQ, positionQ, known, broker, forgot>>

HandlePosition ==
  /\ positionQ # << >>
  /\ positionQ' = Tail(positionQ)
  /\ known' = Head(positionQ)
  /\ Publish(OnPosition(s, Head(positionQ)))
  /\ UNCHANGED <<bars, acks, orderQ, stopQ, broker, forgot>>

(* The timer of the runtime, three seconds after a period was started.  It *)
(* ends a poll, after what the streams held by then; any event may still   *)
(* be on its way, and an answer be five seconds late.                      *)
TimerDue == s.rec \/ (s.pend # None /\ s.pend.partial /\ known # 0)

HandleTimer ==
  /\ TimerDue
  /\ Publish(OnTimer(s))
  /\ UNCHANGED <<bars, queues, known, broker, forgot>>

(* A bar comes ten minutes after the one before: by then the commands are  *)
(* answered, market orders are executed and the timer has run.  The last   *)
(* bars of a day close the position, unless it is MR and the bar reached a *)
(* level that its own orders are there for.                                *)
Quiet ==
  /\ acks = << >> /\ orderQ = << >> /\ stopQ = << >> /\ positionQ = << >>
  /\ cmds = << >> /\ ~ TimerDue
  /\ \A o \in book : o.role \notin Markets

NewDay == bars % BarsPerDay = 0
LastBar == (bars + 1) % BarsPerDay = 0

HandleBar(close, signal) ==
  /\ Quiet
  /\ bars < MaxBars
  /\ LastBar => close \/ IsOpen(s, "MR")
  /\ bars' = bars + 1
  /\ Publish(OnBar(s, NewDay, close, signal))
  /\ forgot' = ((forgot /\ account # 0) \/ (NewDay /\ s.open # None))
  /\ UNCHANGED <<queues, known, broker>>

Next ==
  \/ Carry \/ CarryCancel \/ Refuse
  \/ \E o \in book : Fill(o) \/ Trigger(o)
  \/ HandleAck \/ HandleOrder \/ HandleStopOrder \/ HandlePosition
  \/ HandleTimer
  \/ \E close \in BOOLEAN, signal \in Signals \cup {None} : HandleBar(close, signal)

Spec == Init /\ [][Next]_vars
-----------------------------------------------------------------------------
Owners == {"MR", "BO"}
Sides == {-1, 1}
Ids == 0 .. 2 * MaxOrders

Command == [do : {"entry", "exit", "tp", "sl", "cancel", "delete"}, side : Sides \cup {0}, qty : Nat, id : Ids]
Event == [id : Ids, role : Markets \cup {"tp", "sl"}, exch : Ids,
          status : {"working", "triggered", "filled", "cancelled"}]

(* Types of the strategy's memory and of what is on the way.               *)
TypeOK ==
  /\ s.pend \in [owner : Owners, side : Sides, partial : BOOLEAN] \cup {None}
  /\ s.open \in [owner : Owners, side : Sides, size : Nat \ {0}, levels : BOOLEAN] \cup {None}
  /\ \A f \in {"entryIn", "exitIn", "defer", "pendTp", "pendSl", "rec"} : s[f] \in BOOLEAN
  /\ s.tracked \subseteq Ids /\ {s.tp, s.sl, s.slx} \subseteq Ids /\ s.done \subseteq Sides
  /\ bars \in 0 .. MaxBars
  /\ cmds \in Seq(Command)
  /\ acks \in Seq([ok : BOOLEAN, id : Ids])
  /\ orderQ \in Seq(Event) /\ stopQ \in Seq(Event)
  /\ positionQ \in Seq(Int) /\ known \in Int /\ account \in Int

Emits(role) == \E i \in Len(cmds) + 1 .. Len(cmds') : cmds'[i].do = role

(* An entry is sent on a flat account only, whatever order the events of   *)
(* the four streams came in and whatever was filled in parts, cut off or   *)
(* stopped before (maybe_emit_live_entry_intent).  What the code does not  *)
(* survive is named: a refused exit, after which on_ack may forget the     *)
(* position, and the first bar of a day, at which reset_day drops a        *)
(* position that is still open (alor_usdrubf_hybrid.rs:441 rules it out    *)
(* "by design").                                                           *)
EntryWhenFlat ==
  [][Emits("entry") /\ "exit" \notin refused
       => account = 0 \/ forgot']_vars

(* The side the strategy means to be on.                                   *)
Side ==
  IF s.pend # None THEN s.pend.side ELSE IF s.open # None /\ s.open.levels THEN s.open.side ELSE 0

(* The fills of its own entry never make the strategy flatten it, the      *)
(* incident of docs/alor-usdrubf-bo-partial-fill-hardening-2026-07-23.md:  *)
(* no position event that brings the account towards the target emits an   *)
(* exit (on_position).                                                     *)
OwnFillsAreKept ==
  [][positionQ' # positionQ /\ Emits("exit") /\ "exit" \notin refused
       => ~ (Side * (known' - known) > 0 /\ Side * known' \in 1 .. Target)]_vars
=============================================================================
