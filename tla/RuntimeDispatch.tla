--------------------------- MODULE RuntimeDispatch ---------------------------
(***************************************************************************)
(* The strategy runtime in live mode (strategy-runtime/src/runtime.rs): it *)
(* reads acknowledgements, position events and bars from Redis streams     *)
(* through a consumer group, calls the strategy for each of them, turns    *)
(* its intents into commands, and saves the state of the strategy in the   *)
(* same transaction that publishes the command.  A crash may come between  *)
(* any two of these steps; a restart loads the snapshots, the last saved   *)
(* state, and the entries that were delivered and not acknowledged.        *)
(*                                                                         *)
(* The strategy is MarketBuyAndClose.tla.  Broker and gateway are the      *)
(* environment: they fill an order lot by lot, answer every command once,  *)
(* refuse a request id they have seen, and report the position.  The bar   *)
(* that closes at t is published at t.  The streams of orders and trades,  *)
(* which this strategy ignores, are in TradeOwnership.tla.                 *)
(***************************************************************************)
EXTENDS MarketBuyAndClose, Sequences

CONSTANTS
  Held,          \* lots somebody else holds in the portfolio
  Count,         \* entries of a stream read at once
  MaxSilence,    \* max_silence_bars_sec; 0 turns the check off
  FastRestarts,  \* a restart may come before claim_idle_ms has passed
  MaxTime,       \* bound: bars
  MaxRepeated,   \* bound: length of the bars stream up to which bars are repeated
  MaxReports,    \* bound: position events
  MaxDeaths      \* bound: crashes

Streams == {"acks", "positions", "bars"}

ASSUME DispatchAssumption ==
  /\ {Held, MaxSilence} \subseteq Nat /\ FastRestarts \in BOOLEAN
  /\ Count \in [Streams -> Nat \ {0}]
  /\ {MaxTime, MaxRepeated, MaxReports, MaxDeaths} \subseteq Nat

VARIABLES
  log,       \* what was published on each stream
  cursor,    \* how much of it the consumer group has delivered
  pending,   \* delivered and not XACKed
  cmds,      \* the commands published, with their fate at the broker
  saved,     \* the last entry of the runtime_state stream
  clock,     \* time; bars close at 1, 2, ...
  position,  \* lots in the portfolio
  filledAt,  \* time of the last execution
  up,        \* "down", "recovering" or "running"
  hand,      \* entries in hand, per stream
  handled,   \* the first of them was handled and is not XACKed yet
  next,      \* what poll_once does next: a stream or the timer
  mem,       \* the memory of the process (see Memories)
  deaths,    \* counter for the bound
  trigger    \* close_trigger of the configuration

redis == <<log, cursor, pending, saved>>
broker == <<clock, position, filledAt>>
process == <<up, hand, handled, next, mem>>
vars == <<redis, cmds, broker, process, deaths, trigger>>

After == [acks |-> "positions", positions |-> "bars", bars |-> "timer", timer |-> "acks"]
Statuses == {"Accepted", "Rejected", "Error", "Duplicate"}

Positions == [qty : Int, ts : Nat]
Acks == [req : RequestIds, status : Statuses, ts : Nat]

Commands ==
  [req : RequestIds, side : Sides, filled : 0 .. Qty,
   answer : Statuses \cup {"none"}]

Snapshots == [strat : StrategyStates, lastBar : Nat \cup {NoBar}]

(* mark is the last_processed_bar_ts of the strategy, lastBar that of the  *)
(* runtime, pos state.positions, now strategy_now_ts_utc; hasBars says     *)
(* that bars_read_total is positive.                                       *)
Memories ==
  [strat : StrategyStates, mark : Nat \cup {NoBar}, lastBar : Nat \cup {NoBar},
   pos : Int, now : Nat, hasBars : BOOLEAN]

Nothing == [s \in Streams |-> {}]

Fresh == [strat |-> Idle, lastBar |-> NoBar]

Loaded(s, pos) ==
  [strat |-> s.strat, mark |-> NoBar, lastBar |-> s.lastBar,
   pos |-> pos, now |-> 0, hasBars |-> FALSE]

Init ==
  /\ log = [acks |-> << >>, positions |-> << >>, bars |-> << >>]
  /\ cursor = [s \in Streams |-> 0]
  /\ pending = Nothing
  /\ cmds = << >>
  /\ saved = Fresh
  /\ clock = 0
  /\ position = Held
  /\ filledAt = 0
  /\ up = "running"
  /\ hand = Nothing
  /\ handled = FALSE
  /\ next = "acks"
  /\ mem = Loaded(Fresh, Held)
  /\ deaths = 0
  /\ trigger \in CloseTriggers

Repeated(i) == \E j \in 1 .. i - 1 : cmds[j].req = cmds[i].req

-----------------------------------------------------------------------------
(* Broker and gateway.                                                     *)

CloseBar ==
  /\ clock < MaxTime
  /\ clock' = clock + 1
  /\ log' = [log EXCEPT !.bars = Append(@, clock + 1)]
  /\ UNCHANGED <<cursor, pending, saved, cmds, position, filledAt, process, deaths, trigger>>

(* A gateway that was restarted publishes the bars of its history again,   *)
(* from some bar up to the last one.                                       *)
RepeatBars(b) ==
  /\ b \in 1 .. clock
  /\ Len(log.bars) + clock - b < MaxRepeated
  /\ log' = [log EXCEPT !.bars = @ \o [k \in 1 .. clock - b + 1 |-> b + k - 1]]
  /\ UNCHANGED <<cursor, pending, saved, cmds, broker, process, deaths, trigger>>

(* A command may be executed before or after its answer, and also when the *)
(* answer says that its outcome is unknown.                                *)
Execute(i) ==
  /\ i \in 1 .. Len(cmds)
  /\ cmds[i].filled < Qty
  /\ cmds[i].answer # "Rejected" /\ ~ Repeated(i)
  /\ cmds' = [cmds EXCEPT ![i].filled = @ + 1]
  /\ position' = IF cmds[i].side = "buy" THEN position + 1 ELSE position - 1
  /\ filledAt' = clock
  /\ UNCHANGED <<redis, clock, process, deaths, trigger>>

Answer(i, status) ==
  /\ i \in 1 .. Len(cmds)
  /\ cmds[i].answer = "none"
  /\ status = "Duplicate" <=> Repeated(i)
  /\ status = "Rejected" => cmds[i].filled = 0
  /\ cmds' = [cmds EXCEPT ![i].answer = status]
  /\ log' = [log EXCEPT !.acks = Append(@, [req |-> cmds[i].req, status |-> status, ts |-> clock])]
  /\ UNCHANGED <<cursor, pending, saved, broker, process, deaths, trigger>>

(* The event carries the broker's time of the last change, or the time of  *)
(* its arrival at the gateway when the broker gives none.                  *)
Report(ts) ==
  /\ Len(log.positions) < MaxReports
  /\ ts \in {filledAt, clock}
  /\ log' = [log EXCEPT !.positions = Append(@, [qty |-> position, ts |-> ts])]
  /\ UNCHANGED <<cursor, pending, saved, cmds, broker, process, deaths, trigger>>

-----------------------------------------------------------------------------
(* From the intent of a callback to a command.                             *)

(* resolve_intent_class                                                    *)
IntentClass(side, pos) ==
  IF OrderStyle = "market" /\ ((pos > 0 /\ side = "sell") \/ (pos < 0 /\ side = "buy"))
  THEN "Exit" ELSE "Entry"

CommandId(created, side) == LiveRequestId(created, side)

(* check_silence_period_at: the last bar is too old for an entry.          *)
Silent(lastBar) ==
  MaxSilence # 0 /\ (lastBar = NoBar \/ clock - lastBar > MaxSilence)

(* apply_intents: what becomes of the result r of a callback that found    *)
(* the strategy in state before.  open is the trading window, ready the    *)
(* decision of the live guard.                                             *)
Dropped(class, lastBar, open, ready) ==
  \/ class = "Entry" /\ (~ open \/ Silent(lastBar))
  \/ ~ ready /\ class # "Exit"

ApplyIntents(before, r, created, lastBar, open, ready) ==
  LET class == IntentClass(r.order, mem.pos)
      id == CommandId(created, r.order)
      keeping(s) == [strat |-> s, new |-> << >>]
  IN  IF r.order = "none" THEN keeping(r.state)
      ELSE IF Dropped(class, lastBar, open, ready) THEN keeping(before)
      ELSE IF class = "Exit" /\ ~ open THEN keeping(OnAck(r.state, id, "Rejected"))
      ELSE [strat |-> r.state,
            new |-> <<[req |-> id, side |-> r.order, filled |-> 0, answer |-> "none"]>>]

(* evaluate_guard_decision: readiness of the gateway is arbitrary, but no  *)
(* entry is allowed before a bar was read by poll_once.                    *)
GuardMayAllow == up = "running" /\ mem.hasBars

(* Mutant: a command is published without the state.                       *)
PersistSeparately(applied) ==
  /\ saved' = IF applied.new # << >> THEN saved
              ELSE [strat |-> applied.strat, lastBar |-> mem.lastBar]
  /\ cmds' = cmds \o applied.new

(* persist_state and publish_command_and_state: one transaction.           *)
Persist(applied) ==
  /\ saved' = [strat |-> applied.strat, lastBar |-> mem.lastBar]
  /\ cmds' = cmds \o applied.new

Normalized(ts) == IF ts > mem.now THEN ts ELSE mem.now

Context(event) ==
  [lastBar |-> mem.lastBar, pos |-> mem.pos, event |-> event, now |-> clock,
   trigger |-> trigger]

-----------------------------------------------------------------------------
(* The process.                                                            *)

(* drain_stream and poll_once: one XREADGROUP; when it fails, the stream is *)
(* skipped until the next round.                                           *)
Read ==
  /\ up = "running" /\ hand = Nothing /\ next \in Streams
  /\ next' = After[next]
  /\ \/ UNCHANGED <<cursor, pending, hand, mem>>
     \/ LET left == Len(log[next]) - cursor[next]
            last == cursor[next] + (IF left < Count[next] THEN left ELSE Count[next])
            new == cursor[next] + 1 .. last
        IN  /\ left > 0
            /\ cursor' = [cursor EXCEPT ![next] = last]
            /\ pending' = [pending EXCEPT ![next] = @ \cup new]
            /\ hand' = [hand EXCEPT ![next] = new]
            /\ mem' = [mem EXCEPT !.hasBars = @ \/ next = "bars"]
  /\ UNCHANGED <<log, saved, cmds, broker, up, handled, deaths, trigger>>

(* Entries in hand are dispatched stream by stream, in the order of each.  *)
Before == [acks |-> {}, positions |-> {"acks"}, bars |-> {"acks", "positions"}]

IsFirst(stream, i) ==
  /\ i \in hand[stream] /\ \A j \in hand[stream] : i <= j
  /\ \A s \in Before[stream] : hand[s] = {}

InHand(stream, i) == up # "down" /\ ~ handled /\ IsFirst(stream, i)

HandleAck(i) ==
  /\ InHand("acks", i)
  /\ LET ack == log.acks[i]
         s == OnAck(mem.strat, ack.req, ack.status)
     IN  /\ Persist([strat |-> s, new |-> << >>])
         /\ mem' = [mem EXCEPT !.strat = s, !.now = Normalized(ack.ts)]
  /\ handled' = TRUE
  /\ UNCHANGED <<log, cursor, pending, broker, up, hand, next, deaths, trigger>>

HandlePosition(i, open, ready) ==
  /\ InHand("positions", i)
  /\ ready => GuardMayAllow
  /\ LET event == log.positions[i]
         r == OnPosition(mem.strat, Context(event.ts), event.qty, event.ts)
         created == Normalized(event.ts)
         applied == ApplyIntents(mem.strat, r, created, mem.lastBar, open, ready)
     IN  /\ Persist(applied)
         /\ mem' = [mem EXCEPT !.strat = applied.strat, !.now = created, !.pos = event.qty]
  /\ handled' = TRUE
  /\ UNCHANGED <<log, cursor, pending, broker, up, hand, next, deaths, trigger>>

(* A bar seen before changes nothing.  blocked says that the strategy's    *)
(* should_block_live refuses the bar; so it does while the runtime has not *)
(* read the health of the gateway, which is before poll_once.              *)
SeenBar(ts) == mem.lastBar # NoBar /\ ts <= mem.lastBar

(* Mutant: bars are handled in recovery as they are later.                *)
HandleBarInRecovery(i, blocked, open, ready) ==
  /\ InHand("bars", i)
  /\ ~ SeenBar(log.bars[i])
  /\ ready => GuardMayAllow
  /\ LET ts == log.bars[i]
         created == Normalized(ts)
         old == mem.mark # NoBar /\ ts <= mem.mark
         r == IF blocked THEN Stay(mem.strat)
              ELSE OnBar(mem.strat, mem.mark, Context(created), ts)
         applied == ApplyIntents(mem.strat, r, created, ts, open, ready)
     IN  /\ Persist(applied)
         /\ mem' = [mem EXCEPT !.strat = applied.strat, !.now = created, !.lastBar = ts,
                               !.mark = IF old /\ ~ blocked THEN @ ELSE ts]
  /\ handled' = TRUE
  /\ UNCHANGED <<log, cursor, pending, broker, up, hand, next, deaths, trigger>>

HandleBar(i, blocked, open, ready) ==
  /\ InHand("bars", i)
  /\ ~ SeenBar(log.bars[i])
  /\ ready => GuardMayAllow
  /\ (up = "recovering") => blocked
  /\ LET ts == log.bars[i]
         created == Normalized(ts)
         old == mem.mark # NoBar /\ ts <= mem.mark
         r == IF blocked THEN Stay(mem.strat)
              ELSE OnBar(mem.strat, mem.mark, Context(created), ts)
         applied == ApplyIntents(mem.strat, r, created, ts, open, ready)
     IN  /\ Persist(applied)
         /\ mem' = [mem EXCEPT !.strat = applied.strat, !.now = created, !.lastBar = ts,
                               !.mark = IF old /\ ~ blocked THEN @ ELSE ts]
  /\ handled' = TRUE
  /\ UNCHANGED <<log, cursor, pending, broker, up, hand, next, deaths, trigger>>

SkipBar(i) ==
  /\ InHand("bars", i)
  /\ SeenBar(log.bars[i])
  /\ handled' = TRUE
  /\ UNCHANGED <<redis, cmds, broker, up, hand, next, mem, deaths, trigger>>

(* Mutant: the whole batch is acknowledged with its first entry.           *)
XackBatch(stream, i) ==
  /\ up # "down" /\ handled /\ IsFirst(stream, i)
  /\ pending' = [pending EXCEPT ![stream] = @ \ hand[stream]]
  /\ hand' = [hand EXCEPT ![stream] = @ \ {i}]
  /\ handled' = FALSE
  /\ UNCHANGED <<log, cursor, saved, cmds, broker, up, next, mem, deaths, trigger>>

Xack(stream, i) ==
  /\ up # "down" /\ handled /\ IsFirst(stream, i)
  /\ pending' = [pending EXCEPT ![stream] = @ \ {i}]
  /\ hand' = [hand EXCEPT ![stream] = @ \ {i}]
  /\ handled' = FALSE
  /\ UNCHANGED <<log, cursor, saved, cmds, broker, up, next, mem, deaths, trigger>>

(* The end of poll_once: on_timer has no intent, but saves the state.      *)
Timer ==
  /\ up = "running" /\ hand = Nothing /\ next = "timer"
  /\ Persist([strat |-> mem.strat, new |-> << >>])
  /\ next' = After[next]
  /\ UNCHANGED <<log, cursor, pending, broker, up, hand, handled, mem, deaths, trigger>>

(* A crash, or a Redis error that ends the runtime.                        *)
Die ==
  /\ up # "down"
  /\ deaths < MaxDeaths
  /\ deaths' = deaths + 1
  /\ up' = "down"
  /\ hand' = Nothing
  /\ handled' = FALSE
  /\ next' = "acks"
  /\ mem' = Loaded(Fresh, Held)
  /\ UNCHANGED <<redis, cmds, broker, trigger>>

(* bootstrap: load_snapshots reads a position that may be as old as the    *)
(* last event reported; recover_pending claims the entries that have been  *)
(* idle for claim_idle_ms, stream by stream: all of them, or, when the     *)
(* restart is faster than that, none.  No later call claims them.          *)
Claims == {pending} \cup (IF FastRestarts THEN {Nothing} ELSE {})

LastReported ==
  IF log.positions = << >> THEN Held ELSE log.positions[Len(log.positions)].qty

(* Mutant: the bars stream is not recovered.                               *)
StartWithoutBars(pos, claimed) ==
  /\ up = "down"
  /\ up' = "recovering"
  /\ hand' = [claimed EXCEPT !.bars = {}]
  /\ mem' = Loaded(saved, pos)
  /\ UNCHANGED <<redis, cmds, broker, handled, next, deaths, trigger>>

Start(pos, claimed) ==
  /\ up = "down"
  /\ up' = "recovering"
  /\ hand' = claimed
  /\ mem' = Loaded(saved, pos)
  /\ UNCHANGED <<redis, cmds, broker, handled, next, deaths, trigger>>

BeginPolling ==
  /\ up = "recovering" /\ hand = Nothing
  /\ up' = "running"
  /\ UNCHANGED <<redis, cmds, broker, hand, handled, next, mem, deaths, trigger>>

-----------------------------------------------------------------------------
Environment ==
  \/ CloseBar
  \/ \E b \in 1 .. clock : RepeatBars(b)
  \/ \E i \in 1 .. Len(cmds) : Execute(i) \/ \E status \in Statuses : Answer(i, status)
  \/ \E ts \in {filledAt, clock} : Report(ts)

Handle ==
  \/ \E i \in hand.acks : HandleAck(i)
  \/ \E i \in hand.positions, open, ready \in BOOLEAN : HandlePosition(i, open, ready)
  \/ \E i \in hand.bars :
       SkipBar(i) \/ \E blocked, open, ready \in BOOLEAN : HandleBar(i, blocked, open, ready)

Acknowledge == \E stream \in Streams : \E i \in hand[stream] : Xack(stream, i)

Restart ==
  \E pos \in {LastReported, position}, claimed \in Claims : Start(pos, claimed)

Next ==
  Environment \/ Read \/ Handle \/ Acknowledge \/ Timer \/ Die \/ Restart \/ BeginPolling

Spec == Init /\ [][Next]_vars

(* The loop of the runtime keeps running, a supervisor starts the process  *)
(* again, and recovery ends.                                               *)
FairSpec ==
  Spec /\ WF_vars(Handle) /\ WF_vars(Acknowledge) /\ WF_vars(Restart) /\ WF_vars(BeginPolling)

-----------------------------------------------------------------------------
TypeOK ==
  /\ DOMAIN log = Streams /\ DOMAIN cursor = Streams
  /\ DOMAIN pending = Streams /\ DOMAIN hand = Streams
  /\ log.acks \in Seq(Acks) /\ log.positions \in Seq(Positions) /\ log.bars \in Seq(Nat)
  /\ \A s \in Streams :
       cursor[s] \in 0 .. Len(log[s]) /\ pending[s] \subseteq 1 .. cursor[s] /\ hand[s] \subseteq pending[s]
  /\ cmds \in Seq(Commands)
  /\ saved \in Snapshots /\ mem \in Memories
  /\ position \in Int /\ filledAt \in 0 .. clock /\ clock \in 0 .. MaxTime
  /\ up \in {"down", "recovering", "running"} /\ next \in Streams \cup {"timer"}
  /\ (handled => hand # Nothing) /\ (up = "down" => hand = Nothing)
  /\ deaths \in 0 .. MaxDeaths /\ trigger \in CloseTriggers

(* The account never holds more than one position of the strategy, nor the *)
(* opposite one: no entry and no exit is sent twice, in spite of bars      *)
(* delivered again, a crash between any two steps of handle_bar and        *)
(* handle_position, and late position events.                              *)
OneExposure == position - Held \in 0 .. Qty

(* A command and the state that says so are one transaction (runtime.rs    *)
(* :2364, redis_transport.rs:169): a restart, which knows the saved state  *)
(* only, finds Idle when nothing was published, a pending phase or a       *)
(* position when the entry was, and PendingExit or Done when both were.    *)
(* The exception is the exit on a position event whose time is older than  *)
(* what was handled before it: the runtime refuses it out of the trading   *)
(* window under the request id of the later time (runtime.rs:2270, 2272),  *)
(* which the strategy does not know, and the exit is pending for ever.     *)
SavedStateKnowsCommands ==
  /\ saved.strat.phase = "Idle" => cmds = << >>
  /\ saved.strat.phase \in {"PendingEntry", "InPosition"} => Len(cmds) = 1
  /\ saved.strat.phase = "PendingExit" =>
       Len(cmds) = 2 \/ (trigger = "position_update" /\ Len(cmds) = 1)
  /\ saved.strat.phase = "Done" => Len(cmds) = 2

(* Bars that are handled again after a restart produce no order: a command *)
(* is published in the recovery phase for a position event only.           *)
NoOrderFromRecoveredBar ==
  [][up = "recovering" /\ Len(cmds') > Len(cmds) => hand.acks = {} /\ hand.positions # {}]_vars

(* Whatever was delivered to the runtime is handled and acknowledged, also *)
(* when it crashes in between: again and again, nothing is left.           *)
DeliveredIsHandled == []<>(\A s \in Streams : pending[s] = {})
=============================================================================
