----------------------------- MODULE SessionGap -----------------------------
(***************************************************************************)
(* The live mode of the strategy session_gap_standalone                    *)
(* (strategies/session_gap_standalone.rs): at most one entry for a trading *)
(* session, an exit at a target, a stop or the end of the session.  Each   *)
(* callback is an operator that returns the next memory of the strategy    *)
(* and the order it wants.  In live mode the size of an entry is one lot.  *)
(*                                                                         *)
(* Prices are left out: whether a bar gives a signal or hits a target is   *)
(* chosen by the caller.  Entries are long; a short one is the mirror      *)
(* image.  Times are integers; the bar of time t closes at t.  The context *)
(* of a callback is a record with pos (the position the runtime knows of,  *)
(* 0 when it knows none), event, now (the clock of the host) and lastBar.  *)
(***************************************************************************)
EXTENDS Integers

CONSTANTS
  Day,           \* length of a calendar day
  Gap,           \* session_gap_min
  CloseAt,       \* close_hour and close_minute, as a time of the day
  ExitOffset,    \* exit_offset_min
  MaxEntryAt,    \* max_entry_hour, as a time of the day
  AckTimeout,    \* entry_ack_timeout_ms and exit_ack_timeout_ms
  FillTimeout,   \* entry_fill_timeout_ms and exit_fill_timeout_ms
  VerifyWindow   \* entry_recovery_verification_window_ms

ASSUME SessionGapAssumption ==
  /\ {Day, Gap, CloseAt, ExitOffset, MaxEntryAt} \subseteq Nat /\ Day > 0
  /\ {AckTimeout, FillTimeout, VerifyWindow} \subseteq Nat

Greater(a, b) == IF a > b THEN a ELSE b

(* SessionGapLivePhase, a record with the fields that decide what happens  *)
(* next.  lots is signed: the size of the order that is awaited, or of the *)
(* position held; tracked says that target and stop are known.             *)
Flat == [name |-> "Flat"]
Blocked == [name |-> "Blocked"]
NotWarmed == [name |-> "NotWarmed"]
EntryDeferred(lots) == [name |-> "EntryDeferred", lots |-> lots]

Order(name, req, lots, baseline, tracked, sent) ==
  [name |-> name, req |-> req, lots |-> lots, baseline |-> baseline,
   tracked |-> tracked, sent |-> sent, acked |-> FALSE]

InPosition(lots, baseline, tracked, opened) ==
  [name |-> "InPosition", lots |-> lots, baseline |-> baseline,
   tracked |-> tracked, opened |-> opened]

ExitDeferred(baseline) == [name |-> "ExitDeferred", baseline |-> baseline]
CloseOnly(baseline) == [name |-> "CloseOnly", baseline |-> baseline]

Entering == {"PendingEntry", "EntryRecovery"}
Exiting == {"PendingExit", "ExitRecovery"}
Exposed == Exiting \cup {"InPosition", "ExitDeferred", "CloseOnly"}

Phases ==
  {Flat, Blocked, NotWarmed}
  \cup [name : {"EntryDeferred"}, lots : Int]
  \cup [name : Entering \cup Exiting, req : Int, lots : Int, baseline : Int,
        tracked : BOOLEAN, sent : Int, acked : BOOLEAN]
  \cup [name : {"InPosition"}, lots : Int, baseline : Int, tracked : BOOLEAN, opened : Int]
  \cup [name : {"ExitDeferred", "CloseOnly"}, baseline : Int]

(* StrategyState as it is saved: rolls is the number of session changes    *)
(* seen, up to the two that give the close before last, the last close and *)
(* its range; start is the first bar of the session, lastDt the last bar.  *)
States == [phase : Phases, traded : BOOLEAN, rolls : 0 .. 2,
           start : Int, lastDt : Int, lastBar : Int]

(* The fields of the strategy; st is its state, pend is pending_entry and  *)
(* mark last_processed_bar_ts.                                             *)
Memories == [st : States, traded : BOOLEAN, pend : BOOLEAN, rolls : 0 .. 2,
             start : Int, lastDt : Int, mark : Int]

Warmed(m) == m.rolls = 2

NoOrder == [lots |-> 0, class |-> "none"]
Then(m, order) == [m |-> m, order |-> order]
Stay(m) == Then(m, NoOrder)

(* persist_state_snapshot                                                  *)
Persist(m, phase, bar) ==
  [m EXCEPT !.st = [phase |-> phase, traded |-> m.traded, rolls |-> m.rolls,
                    start |-> m.start, lastDt |-> Greater(m.lastDt, bar), lastBar |-> bar]]

(* persist_state_with_existing_last_bar                                    *)
PersistPhase(m, phase) == Persist(m, phase, m.st.lastBar)

-----------------------------------------------------------------------------
(* A bar.                                                                  *)

(* A variant of UpdateSession that keeps the entry of the last session.    *)
UpdateSessionKeeping(m, t) ==
  IF t - m.lastDt > Gap
  THEN [m EXCEPT !.rolls = IF @ = 2 THEN 2 ELSE @ + 1, !.start = t, !.lastDt = t,
                 !.traded = FALSE]
  ELSE [m EXCEPT !.lastDt = t]

(* update_session and reset_session                                        *)
UpdateSession(m, t) ==
  IF t - m.lastDt > Gap
  THEN [m EXCEPT !.rolls = IF @ = 2 THEN 2 ELSE @ + 1, !.start = t, !.lastDt = t,
                 !.traded = FALSE, !.pend = FALSE]
  ELSE [m EXCEPT !.lastDt = t]

SessionEnd(m) == (m.start \div Day) * Day + CloseAt

TooLate(m, t) == t >= SessionEnd(m) \/ t % Day >= MaxEntryAt

(* maybe_generate_signal, where signal says what the prices say.           *)
GenerateSignal(m, t, signal) ==
  IF signal /\ ~ m.traded /\ ~ TooLate(m, t) /\ Warmed(m) /\ ~ m.pend
  THEN [m EXCEPT !.pend = TRUE, !.traded = TRUE] ELSE m

SessionExit(m, t) == t >= SessionEnd(m) - ExitOffset

TimedOut(p, now) == now - p.sent > IF p.acked THEN FillTimeout ELSE AckTimeout

(* The arms of on_bar: the next phase, and the lots to send if any.        *)
Hold(p) == [phase |-> p, lots |-> 0]

SendEntry(m, ctx, lots) ==
  [phase |-> Order("PendingEntry", ctx.event, lots, ctx.pos, m.rolls > 0, ctx.now), lots |-> lots]

SendExit(p, ctx, lots) ==
  [phase |-> Order("PendingExit", ctx.event, lots, p.baseline, FALSE, ctx.now), lots |-> lots]

OnBarEntry(m, p, ctx, t) ==
  CASE p.name = "Flat" /\ ~ Warmed(m) -> Hold(NotWarmed)
    [] p.name = "Flat" /\ Warmed(m) /\ m.pend -> SendEntry(m, ctx, 1)
    [] p.name = "EntryDeferred" /\ TooLate(m, t) -> Hold(Flat)
    [] p.name = "EntryDeferred" /\ ~ TooLate(m, t) -> SendEntry(m, ctx, p.lots)
    [] p.name = "NotWarmed" /\ Warmed(m) -> Hold(Flat)
    [] p.name = "PendingEntry" /\ TimedOut(p, ctx.now) -> Hold(Blocked)
    [] p.name = "EntryRecovery" /\ ctx.pos # p.baseline ->
         Hold(InPosition(ctx.pos - p.baseline, p.baseline, p.tracked, ctx.now))
    [] p.name = "EntryRecovery" /\ ctx.pos = p.baseline /\ ctx.now - p.sent > VerifyWindow ->
         Hold(Flat)
    [] OTHER -> Hold(p)

(* hit: the bar reaches the target or the stop.                            *)
OnBarExit(m, p, ctx, t, hit) ==
  CASE p.name = "InPosition" /\ (SessionExit(m, t) \/ (p.tracked /\ hit)) /\ t > p.opened ->
         SendExit(p, ctx, - p.lots)
    [] p.name = "ExitDeferred" /\ ctx.pos = p.baseline -> Hold(Flat)
    [] p.name = "ExitDeferred" /\ ctx.pos # p.baseline ->
         SendExit(p, ctx, p.baseline - ctx.pos)
    [] p.name \in Exiting /\ TimedOut(p, ctx.now) -> Hold(CloseOnly(p.baseline))
    [] OTHER -> Hold(p)

(* on_bar; blocked is should_block_live.                                   *)
OnBar(m, ctx, t, signal, hit, blocked) ==
  LET u == [UpdateSession(m, t) EXCEPT !.mark = t]
      g == GenerateSignal(u, t, signal)
      p == m.st.phase
      r == IF p.name \in Exposed THEN OnBarExit(g, p, ctx, t, hit) ELSE OnBarEntry(g, p, ctx, t)
      taken == p.name = "Flat" /\ r.phase.name = "PendingEntry"
      after == Persist(IF taken THEN [g EXCEPT !.pend = FALSE] ELSE g, r.phase, t)
      class == IF p.name \in Exposed THEN "Exit" ELSE "Entry"
  IN  IF t <= m.mark THEN Stay(m)
      ELSE IF blocked THEN Stay(Persist(u, p, t))
      ELSE Then(after, IF r.lots = 0 THEN NoOrder ELSE [lots |-> r.lots, class |-> class])

-----------------------------------------------------------------------------
(* Acknowledgements, orders and positions.                                 *)

Succeeded == {"accepted", "duplicate"}

(* A variant of AckedEntry that sends an entry again whose outcome is not  *)
(* known.                                                                  *)
AckedEntryRetried(p, status, ts) ==
  CASE status \in {"closed", "cws_error"} -> EntryDeferred(p.lots)
    [] status \in Succeeded -> [p EXCEPT !.acked = TRUE]
    [] OTHER -> Blocked

(* on_ack while the entry is pending.                                      *)
AckedEntry(p, status, ts) ==
  CASE status = "closed" -> EntryDeferred(p.lots)
    [] status \in Succeeded -> [p EXCEPT !.acked = TRUE]
    [] status = "cws_error" -> [p EXCEPT !.name = "EntryRecovery", !.sent = ts]
    [] OTHER -> Blocked

(* A variant of RetriesExit that sends an exit again whose outcome is not  *)
(* known.                                                                  *)
RetriesExitUnknown(p, status) == p.name = "PendingExit" /\ status \in {"recycle", "cws_error"}

(* is_retryable_exit_recycle_failure, once.                                *)
RetriesExit(p, status) == p.name = "PendingExit" /\ status = "recycle"

(* on_ack while the exit is pending, or sent for the second time.          *)
AckedExit(p, status, ts) ==
  CASE status = "closed" -> ExitDeferred(p.baseline)
    [] status \in Succeeded -> [p EXCEPT !.acked = TRUE]
    [] RetriesExit(p, status) -> [p EXCEPT !.name = "ExitRecovery", !.req = ts, !.sent = ts,
                                           !.acked = FALSE]
    [] OTHER -> CloseOnly(p.baseline)

(* on_ack for the request req, processed at ts.                            *)
OnAck(m, req, status, ts) ==
  LET p == m.st.phase
      awaited == p.name \in {"PendingEntry"} \cup Exiting /\ p.req = req
      q == IF p.name = "PendingEntry" THEN AckedEntry(p, status, ts) ELSE AckedExit(p, status, ts)
  IN  IF awaited
      THEN Then(PersistPhase(m, q), IF RetriesExit(p, status)
                                    THEN [lots |-> p.lots, class |-> "Exit"] ELSE NoOrder)
      ELSE Stay(PersistPhase(m, p))

(* on_order: only an entry that is being verified looks at orders.         *)
OnOrder(m, req, status, ts) ==
  LET p == m.st.phase
      mine == p.name = "EntryRecovery" /\ p.req = req
  IN  PersistPhase(m,
        CASE mine /\ status = "filled" ->
               InPosition(p.lots, p.baseline, p.tracked, Greater(ts, p.sent))
          [] mine /\ status = "working" -> [p EXCEPT !.name = "PendingEntry", !.acked = TRUE]
          [] OTHER -> p)

(* A variant of OnPosition that leaves a flat strategy flat.               *)
OnPositionTrusting(m, qty, at) ==
  LET p == m.st.phase
      opened == p.name \in Entering /\ qty # p.baseline
      closed == p.name \in Exposed /\ qty = p.baseline
  IN  PersistPhase(m,
        CASE opened -> InPosition(qty - p.baseline, p.baseline, p.tracked, at)
          [] closed -> Flat
          [] OTHER -> p)

(* on_position; at is the last bar.                                        *)
OnPosition(m, qty, at) ==
  LET p == m.st.phase
      opened == p.name \in Entering /\ qty # p.baseline
      closed == p.name \in Exposed /\ qty = p.baseline
  IN  PersistPhase(m,
        CASE opened -> InPosition(qty - p.baseline, p.baseline, p.tracked, at)
          [] closed -> Flat
          [] p.name = "Flat" /\ qty # 0 -> InPosition(qty, 0, FALSE, at)
          [] OTHER -> p)

-----------------------------------------------------------------------------
(* A start.  The runtime makes a strategy of default fields, sets its      *)
(* saved state, and calls the three operators below in this order.         *)

Blank(st, noBar) ==
  [st |-> st, traded |-> FALSE, pend |-> FALSE, rolls |-> 0,
   start |-> noBar, lastDt |-> noBar, mark |-> noBar]

(* transition_live_reconcile_with_snapshot: a phase that the broker's      *)
(* position contradicts is corrected; the state is then written from the   *)
(* fields, except for the times that are not set.                          *)
OnBootstrapSnapshot(m, qty, working, ts) ==
  LET p == m.st.phase
      corrected ==
        CASE p.name \in Entering /\ qty # p.baseline ->
               InPosition(p.lots, p.baseline, p.tracked, ts)
          [] p.name = "EntryRecovery" /\ qty = p.baseline /\ ~ working -> Flat
          [] p.name \in Exposed /\ qty = p.baseline -> Flat
          [] OTHER -> p
  IN  IF corrected = p THEN m
      ELSE [m EXCEPT !.st.phase = corrected, !.st.traded = m.traded, !.st.rolls = m.rolls,
                     !.st.lastDt = m.st.lastBar]

(* on_runtime_state_restored                                               *)
OnRuntimeStateRestored(m) ==
  [m EXCEPT !.traded = m.st.traded, !.rolls = m.st.rolls, !.start = m.st.start,
            !.lastDt = m.st.lastDt, !.mark = m.st.lastBar]

(* warmup_from_history: sessions and prices are read again from the bars   *)
(* of the stream, the last of which is of time t.                          *)
WarmupFromHistory(m, rolls, start, t) ==
  LET u == [m EXCEPT !.rolls = rolls, !.start = start, !.lastDt = t]
      p == m.st.phase
  IN  Persist(u, IF p = NotWarmed /\ Warmed(u) THEN Flat ELSE p, t)
=============================================================================
