-------------------------- MODULE MarketBuyAndClose --------------------------
(***************************************************************************)
(* The live mode of the strategy market_buy_and_close                      *)
(* (strategies/market_buy_and_close.rs): buy on a bar, close the position  *)
(* on a later bar or on the next position event, and stop.  Each callback  *)
(* is an operator that returns the next state of the strategy and the      *)
(* order it wants; RuntimeDispatch.tla calls them the way the runtime does.*)
(*                                                                         *)
(* The side is Buy.  The context of a callback is a record with lastBar    *)
(* (NoBar when there is none), pos (the position the runtime knows of),    *)
(* event (event_ts_utc), now (now_ts_utc, the clock of the host, which     *)
(* does not run backwards) and trigger (close_trigger of its config).      *)
(***************************************************************************)
EXTENDS Integers

CONSTANTS
  Qty,            \* quantity of the entry and of the exit
  CloseTriggers,  \* the configurations: "next_bar", "position_update" or both
  OrderStyle,     \* "market" or "marketable_limit"
  AckTimeout,     \* entry_ack_timeout_ms and exit_ack_timeout_ms, in ticks
  FillTimeout,    \* entry_fill_timeout_ms and exit_fill_timeout_ms
  NoBar           \* no bar processed yet

Sides == {"buy", "sell"}
Waiting == {"PendingEntry", "PendingExit"}

ASSUME StrategyAssumption ==
  /\ Qty \in Nat \ {0}
  /\ CloseTriggers \subseteq {"next_bar", "position_update"}
  /\ OrderStyle \in {"market", "marketable_limit"}
  /\ AckTimeout \in [Waiting -> Nat]
  /\ FillTimeout \in [Waiting -> Nat]
  /\ NoBar \in Int /\ NoBar < 0

RequestIds == Nat \X (Sides \cup {"any"})

(* StrategyState, without the variants of the paper mode.                  *)
Idle == [phase |-> "Idle"]
Blocked == [phase |-> "Blocked"]
Done == [phase |-> "Done"]

AwaitAck(phase, req, baseline, at) ==
  [phase |-> phase, req |-> req, baseline |-> baseline, sent |-> at, acked |-> FALSE]

InPosition(baseline, at) == [phase |-> "InPosition", baseline |-> baseline, opened |-> at]

StrategyStates ==
  {Idle, Blocked, Done}
  \cup [phase : Waiting, req : RequestIds, baseline : Int, sent : Nat, acked : BOOLEAN]
  \cup [phase : {"InPosition"}, baseline : Int, opened : Nat]

(* live_request_id: a market order has a sequence number per side, a limit *)
(* order the same one for both.                                            *)
LiveRequestId(ts, side) == <<ts, IF OrderStyle = "market" THEN side ELSE "any">>

Then(s, order) == [state |-> s, order |-> order]
Stay(s) == Then(s, "none")

SendEntry(ctx) ==
  Then(AwaitAck("PendingEntry", LiveRequestId(ctx.event, "buy"), ctx.pos, ctx.now), "buy")

SendExit(s, ctx) ==
  Then(AwaitAck("PendingExit", LiveRequestId(ctx.event, "sell"), s.baseline, ctx.now), "sell")

(* check_live_timeouts                                                     *)
TimedOut(s, now) ==
  /\ s.phase \in Waiting
  /\ \/ ~ s.acked /\ now - s.sent > AckTimeout[s.phase]
     \/ now - s.sent > FillTimeout[s.phase]

(* Mutant: an order whose answer is late is sent again.                    *)
OnBarRetrying(s, mark, ctx, ts) ==
  IF mark # NoBar /\ ts <= mark THEN Stay(s)
  ELSE CASE TimedOut(s, ctx.now) -> SendEntry(ctx)
         [] s.phase = "Idle" /\ ctx.lastBar # NoBar -> SendEntry(ctx)
         [] s.phase = "InPosition" /\ ctx.trigger = "next_bar" /\ ts > s.opened ->
              SendExit(s, ctx)
         [] OTHER -> Stay(s)

(* on_bar for a bar closed at ts, when the strategy is not blocked by its  *)
(* context; mark is its own last_processed_bar_ts.                         *)
OnBar(s, mark, ctx, ts) ==
  IF mark # NoBar /\ ts <= mark THEN Stay(s)
  ELSE CASE TimedOut(s, ctx.now) -> Stay(Blocked)
         [] s.phase = "Idle" /\ ctx.lastBar # NoBar -> SendEntry(ctx)
         [] s.phase = "InPosition" /\ ctx.trigger = "next_bar" /\ ts > s.opened ->
              SendExit(s, ctx)
         [] OTHER -> Stay(s)

(* on_ack: Duplicate counts as a success.                                  *)
OnAck(s, req, status) ==
  IF s.phase \notin Waiting \/ s.req # req THEN s
  ELSE IF status \in {"Accepted", "Duplicate"} THEN [s EXCEPT !.acked = TRUE] ELSE Blocked

(* on_position for a position event of quantity qty at ts.                 *)
OnPosition(s, ctx, qty, ts) ==
  LET at == IF ctx.lastBar = NoBar THEN ts ELSE ctx.lastBar
  IN  CASE s.phase = "PendingEntry" /\ qty # s.baseline -> Stay(InPosition(s.baseline, at))
        [] s.phase = "InPosition" /\ qty = s.baseline -> Stay(Idle)
        [] s.phase = "InPosition" /\ qty # s.baseline /\ ctx.trigger = "position_update"
             -> SendExit(s, ctx)
        [] s.phase = "PendingExit" /\ qty = s.baseline -> Stay(Done)
        [] s.phase = "Idle" /\ qty # 0 -> Stay(InPosition(0, at))
        [] OTHER -> Stay(s)
=============================================================================
