---------------------------- MODULE GatewaySession ----------------------------
(***************************************************************************)
(* The gateway between its WebSocket hub and the bars it publishes: the    *)
(* event task, the bar task and the ticker of alor-gateway/src/            *)
(* supervisor.rs, the router (router.rs) and the bar validator             *)
(* (data_quality.rs).  Every task is a process of its own; they share the  *)
(* phase, the health record, the synced flags and the backfill plan.       *)
(*                                                                         *)
(* Prices, volumes and statistics are left out.  All bars of the model are *)
(* well formed, so that the validator rejects a bar for its time only.     *)
(***************************************************************************)
EXTENDS WsHub, Integers

CONSTANTS
  RawRoom,      \* capacity of the queue to the router
  BarRoom,      \* capacity of the queue to the bar task
  Padding,      \* config: gap_backfill_padding_bars
  MaxGap        \* config: warm_reconnect_max_gap_sec, in bars

ASSUME SessionAssumption ==
  /\ RawRoom \in Nat /\ BarRoom \in Nat /\ Padding \in Nat /\ MaxGap \in Nat
  /\ Padding < FromTime                        \* no history starts at time 0

VARIABLES
  current,      \* current_generation of the event task
  phase,        \* gateway phase, a watch channel
  health,       \* shared health record
  synced,       \* account feeds whose manager is synced
  raw,          \* queue to the router
  wallclocks,   \* commands to the router
  router,       \* live cutoff, origin of the history and live_buffers
  bars,         \* queue from the router to the bar task
  task,         \* the bar task
  pending,      \* pending_live_updates, per symbol
  lastEmitted,  \* last emitted bar per symbol, 0 for none
  liveSymbols,  \* symbols with a live bar seen
  resync,       \* resync_in_progress
  ticker,       \* where the ticker stands
  emitted,      \* history: bars emitted per symbol, in order
  losses        \* history: ways in which a bar may have been lost

link == <<hub, wire, streams, asked, now>>
socket == <<link, faults>>
shared == <<current, phase, synced>>
queues == <<raw, wallclocks, router, bars>>
barVars == <<task, pending, lastEmitted, emitted, liveSymbols>>
tick == <<ticker, resync>>
sessionVars == <<shared, health, queues, barVars, tick, losses>>
vars == <<hubVars, sessionVars>>

Names == {Symbols[k] : k \in Bars}
SyncFeeds == {"positions", "orders", "stop_orders"} \cap ToSet(AccountFeeds)
Waiting == [pc |-> "take", ready |-> FALSE]

SessionInit ==
  /\ current = 0 /\ phase = IF SkipHistory THEN "Reconnecting" ELSE "SyncingHistory"
  /\ health = [connected |-> FALSE, desired |-> 0, active |-> 0, lagged |-> FALSE,
               ready |-> FALSE, authorized |-> FALSE]
  /\ synced = {} /\ raw = <<>> /\ wallclocks = <<>>
  /\ router = [cut |-> FALSE, cutoff |-> 0, origin |-> "History",
               held |-> [s \in Names |-> 0]]
  /\ bars = <<>> /\ task = Waiting /\ pending = [s \in Names |-> {}]
  /\ lastEmitted = [s \in Names |-> 0] /\ liveSymbols = {} /\ resync = FALSE
  /\ ticker = "idle"
  /\ emitted = [s \in Names |-> <<>>] /\ losses = {}
Init == HubInit /\ SessionInit

---------------------------------------------------------------------------
(* A variant of BackfillPlan that leaves the padding out at the wrong end. *)
BackfillPlanAhead ==
  IF \E s \in Names : lastEmitted[s] = 0 THEN Cold
  ELSE LET from == Min({lastEmitted[s] : s \in Names}) + Padding + 1
       IN IF now + 1 - from > MaxGap THEN Cold ELSE [mode |-> "Warm", from |-> from]

(* compute_backfill_plan.                                                  *)
BackfillPlan ==
  IF \E s \in Names : lastEmitted[s] = 0 THEN Cold
  ELSE LET from == Min({lastEmitted[s] : s \in Names}) - Padding
       IN IF now - from > MaxGap THEN Cold ELSE [mode |-> "Warm", from |-> from]

(* The event task.  Whatever is not of the current generation is skipped.  *)
Take(kind) ==
  /\ events # <<>> /\ Head(events).kind = kind
  /\ events' = Tail(events)
OfCurrent == Head(events).gen = current

OnReconnecting ==
  /\ Take("conn") /\ Head(events).what = "Reconnecting"
  /\ current' = Head(events).gen
  /\ health' = [health EXCEPT !.connected = FALSE]
  /\ phase' = IF phase = "SyncingHistory" THEN phase ELSE "Reconnecting"
  /\ plan' = BackfillPlan
  /\ UNCHANGED <<socket, barVars, queues, tick, cmds, synced, losses>>

OnConn ==
  /\ Take("conn") /\ Head(events).what # "Reconnecting"
  /\ health' = IF OfCurrent
                 THEN [health EXCEPT !.connected = Head(events).what = "Connected"]
                 ELSE health
  /\ UNCHANGED <<socket, barVars, queues, tick, shared, plan, cmds, losses>>

OnSubscribed ==
  /\ Take("subscribed")
  /\ IF OfCurrent
       THEN /\ wallclocks' = Append(wallclocks, [wallclock |-> Head(events).wallclock,
                                                 origin |-> Head(events).origin])
            /\ phase' = CASE Head(events).origin = "HistoryGap" -> "SyncingGap"
                          [] Head(events).origin = "History" -> "SyncingHistory"
                          [] OTHER -> phase
       ELSE UNCHANGED <<wallclocks, phase>>
  /\ UNCHANGED <<socket, barVars, tick, plan, cmds, current, health, synced, raw, router,
                 bars, losses>>

(* mark_synced of the three managers; the flag is never cleared.           *)
OnAck ==
  /\ Take("ack")
  /\ synced' = IF OfCurrent THEN synced \cup ({Head(events).feed} \cap SyncFeeds)
               ELSE synced
  /\ UNCHANGED <<socket, barVars, queues, tick, plan, cmds, current, phase, health,
                 losses>>

OnStats ==
  /\ Take("stats")
  /\ health' = IF OfCurrent
                 THEN [health EXCEPT !.desired = Head(events).desired,
                                     !.active = Head(events).active]
                 ELSE health
  /\ UNCHANGED <<socket, barVars, queues, tick, shared, plan, cmds, losses>>

(* raw_tx.try_send: a full queue loses the message.                        *)
OnRaw ==
  /\ Take("raw")
  /\ IF ~OfCurrent THEN UNCHANGED <<raw, health, losses>>
     ELSE IF Len(raw) < RawRoom
       THEN /\ raw' = Append(raw, [msg |-> Head(events).msg,
                                   wallclock |-> Head(events).wallclock])
            /\ health' = [health EXCEPT !.lagged = FALSE]
            /\ UNCHANGED losses
       ELSE /\ health' = [health EXCEPT !.lagged = TRUE, !.ready = FALSE]
            /\ losses' = losses \cup {"queue full"}
            /\ UNCHANGED raw
  /\ UNCHANGED <<socket, barVars, tick, shared, plan, cmds, wallclocks, router, bars>>

EventTask == OnReconnecting \/ OnConn \/ OnSubscribed \/ OnAck \/ OnStats \/ OnRaw

---------------------------------------------------------------------------
(* The router.  Its select takes a command or a message, whichever it      *)
(* likes when both are there.                                              *)
RouterCommand ==
  /\ wallclocks # <<>>
  /\ router' = [router EXCEPT !.cut = TRUE, !.cutoff = Head(wallclocks).wallclock - 2,
                              !.origin = Head(wallclocks).origin]
  /\ wallclocks' = Tail(wallclocks)
  /\ UNCHANGED <<hubVars, barVars, tick, shared, health, raw, bars, losses>>

(* parse_bar_item: history up to the cutoff, live after it.                *)
BarOf(m) ==
  [sym |-> Symbols[m.guid[1]], t |-> m.t,
   origin |-> IF router.cut /\ m.t <= router.cutoff THEN router.origin ELSE "Live"]

(* The control task passes an authorization error on to the hub.           *)
RouteAuthError ==
  /\ raw # <<>> /\ Head(raw).msg.what = "auth"
  /\ cmds' = Append(cmds, [cmd |-> "Reconnect", from |-> 0])
  /\ raw' = Tail(raw)
  /\ UNCHANGED <<socket, barVars, tick, shared, plan, events, health, wallclocks, router,
                 bars, losses>>

(* History passes; of the live bars the newest is held back, because it    *)
(* may still change, and an older one is dropped.                          *)
RouteBar ==
  /\ raw # <<>> /\ Head(raw).msg.what = "bar" /\ Len(bars) < BarRoom
  /\ LET bar == BarOf(Head(raw).msg)
         prev == router.held[bar.sym]
     IN /\ bars' = CASE bar.origin # "Live" -> Append(bars, bar)
                     [] bar.origin = "Live" /\ prev # 0 /\ bar.t > prev ->
                          Append(bars, [bar EXCEPT !.t = prev])
                     [] OTHER -> bars
        /\ router' = IF bar.origin = "Live" /\ bar.t >= prev
                       THEN [router EXCEPT !.held[bar.sym] = bar.t] ELSE router
        /\ losses' = IF router.cut /\ router.cutoff = Head(raw).wallclock - 2
                       THEN losses ELSE losses \cup {"out of step"}
  /\ raw' = Tail(raw)
  /\ UNCHANGED <<hubVars, barVars, tick, shared, health, wallclocks>>

RouterTask == RouterCommand \/ RouteAuthError \/ RouteBar

---------------------------------------------------------------------------
(* validate and emit_bar agree about the time: a bar must be newer than    *)
(* the last one emitted.                                                   *)
Newer(s, t) == t > lastEmitted[s]
LiveReady ==
  /\ liveSymbols' = Names /\ SyncFeeds \subseteq synced
  /\ health.active >= health.desired /\ health.authorized

(* The bar task takes a bar.  What it needs to go live is read here, the   *)
(* transition comes after the bar was handed on.                           *)
TakeBar ==
  /\ task.pc = "take" /\ bars # <<>>
  /\ LET bar == Head(bars)
         buffer == phase = "SyncingGap" /\ bar.origin = "Live"
         emit == ~buffer /\ Newer(bar.sym, bar.t)
     IN /\ liveSymbols' = IF bar.origin = "Live" THEN liveSymbols \cup {bar.sym}
                          ELSE liveSymbols
        /\ pending' = IF buffer THEN [pending EXCEPT ![bar.sym] = @ \cup {bar.t}]
                      ELSE pending
        /\ lastEmitted' = IF emit THEN [lastEmitted EXCEPT ![bar.sym] = bar.t]
                          ELSE lastEmitted
        /\ emitted' = IF emit THEN [emitted EXCEPT ![bar.sym] = Append(@, bar.t)]
                      ELSE emitted
        /\ task' = IF buffer \/ emit THEN [pc |-> "finish", ready |-> LiveReady] ELSE task
        /\ losses' = IF emit /\ pending[bar.sym] # {}
                       THEN losses \cup {"left pending"} ELSE losses
  /\ bars' = Tail(bars)
  /\ UNCHANGED <<hubVars, tick, shared, health, raw, wallclocks, router>>

FinishBar ==
  /\ task.pc = "finish"
  /\ CASE task.ready /\ phase = "SyncingGap" ->
            /\ task' = [task EXCEPT !.pc = "flush"]
            /\ UNCHANGED <<phase, resync>>
       [] task.ready /\ phase \notin {"SyncingGap", "LiveReady"} ->
            /\ phase' = "LiveReady" /\ resync' = FALSE /\ task' = Waiting
       [] OTHER ->
            /\ task' = Waiting
            /\ UNCHANGED <<phase, resync>>
  /\ UNCHANGED <<hubVars, queues, current, health, synced, pending, lastEmitted, emitted,
                 liveSymbols, ticker, losses>>

Earliest(s, t) == t \in pending[s] /\ \A u \in pending[s] : t <= u

(* A variant of FlushBar that forgets the buffered bar.                    *)
FlushNothing(s, t) ==
  /\ task.pc = "flush" /\ Earliest(s, t)
  /\ pending' = [pending EXCEPT ![s] = @ \ {t}]
  /\ UNCHANGED <<hubVars, queues, shared, health, tick, task, lastEmitted, emitted,
                 liveSymbols, losses>>

(* flush_pending_live: bar after bar in the order of their times, each at  *)
(* most once; every emit_bar is awaited.                                   *)
FlushBar(s, t) ==
  /\ task.pc = "flush" /\ Earliest(s, t)
  /\ pending' = [pending EXCEPT ![s] = @ \ {t}]
  /\ lastEmitted' = IF Newer(s, t) THEN [lastEmitted EXCEPT ![s] = t] ELSE lastEmitted
  /\ emitted' = IF Newer(s, t) THEN [emitted EXCEPT ![s] = Append(@, t)] ELSE emitted
  /\ UNCHANGED <<hubVars, queues, shared, health, tick, task, liveSymbols, losses>>

GoLive ==
  /\ task.pc = "flush" /\ \A s \in Names : pending[s] = {}
  /\ task' = Waiting
  /\ phase' = "LiveReady" /\ resync' = FALSE
  /\ UNCHANGED <<hubVars, queues, current, health, synced, pending, lastEmitted,
                 liveSymbols, ticker, emitted, losses>>

BarTask ==
  TakeBar \/ FinishBar \/ (\E s \in Names : \E t \in pending[s] : FlushBar(s, t)) \/ GoLive

---------------------------------------------------------------------------
(* The ticker computes the readiness; fresh is that the last message of    *)
(* the socket is no older than ws_idle_timeout_sec.                        *)
Tick(fresh) ==
  /\ ticker = "idle"
  /\ health' = [health EXCEPT !.ready =
                  /\ phase = "LiveReady" /\ health.connected /\ ~health.lagged /\ fresh
                  /\ health.active >= health.desired /\ health.authorized]
  /\ UNCHANGED <<hubVars, barVars, queues, tick, shared, losses>>

(* No bar for max_silence_bars_sec while the market is open: the plan and  *)
(* the phase first, then the flag and the command to the hub.              *)
Silence ==
  /\ ticker = "idle" /\ faults < MaxFaults /\ faults' = faults + 1
  /\ phase = "LiveReady" /\ health.connected /\ ~resync
  /\ plan' = BackfillPlan
  /\ phase' = IF BackfillPlan.mode = "Warm" THEN "SyncingGap" ELSE "SyncingHistory"
  /\ ticker' = "resubscribe"
  /\ UNCHANGED <<link, barVars, queues, cmds, events, current, health, synced, resync,
                 losses>>
AskResubscribe ==
  /\ ticker = "resubscribe" /\ ticker' = "idle"
  /\ resync' = TRUE
  /\ cmds' = Append(cmds, [cmd |-> "Resubscribe", from |-> plan.from])
  /\ UNCHANGED <<socket, barVars, queues, shared, plan, events, health, losses>>

(* handle_shutdown, and the operator's request_reconnect.                  *)
Stop ==
  /\ ticker = "idle" /\ faults < MaxFaults /\ faults' = faults + 1
  /\ ticker' = "stopped"
  /\ cmds' = Append(cmds, [cmd |-> "Shutdown", from |-> 0])
  /\ UNCHANGED <<link, barVars, queues, shared, plan, events, health, resync, losses>>

(* The control socket authorizes, and loses its authorization.             *)
Authorize ==
  /\ ~health.authorized
  /\ health' = [health EXCEPT !.authorized = TRUE]
  /\ UNCHANGED <<hubVars, barVars, queues, tick, shared, losses>>
Unauthorize ==
  /\ health.authorized /\ faults < MaxFaults /\ faults' = faults + 1
  /\ health' = [health EXCEPT !.authorized = FALSE]
  /\ UNCHANGED <<link, plan, cmds, events, barVars, queues, shared, resync, ticker, losses>>

Ticker == Silence \/ AskResubscribe \/ \E fresh \in BOOLEAN : Tick(fresh)

Next ==
  \/ (HubStep \/ HubFault \/ Broker) /\ UNCHANGED sessionVars
  \/ EventTask \/ RouterTask \/ BarTask \/ Ticker
  \/ Stop \/ Authorize \/ Unauthorize
Spec == Init /\ [][Next]_vars

(* Every task runs, the broker answers, and the age of the last message    *)
(* grows once the hub has ended.                                           *)
Fairness ==
  /\ WF_vars(HubStep /\ UNCHANGED sessionVars) /\ WF_vars(Accept /\ UNCHANGED sessionVars)
  /\ WF_vars(EventTask) /\ WF_vars(RouterTask) /\ WF_vars(BarTask)
  /\ WF_vars(Authorize) /\ WF_vars(AskResubscribe)
  /\ WF_vars(hub.pc = "ended" /\ Tick(FALSE))
FairSpec == Spec /\ Fairness
---------------------------------------------------------------------------
Phases == {"SyncingHistory", "Reconnecting", "SyncingGap", "LiveReady"}
BarEvents == [sym : Names, t : 1..MaxNow, origin : Origins]
Wallclocks == [wallclock : 0..MaxNow, origin : Origins]
Routers == [cut : BOOLEAN, cutoff : Int, origin : Origins, held : [Names -> 0..MaxNow]]

(* The type invariant.                                                     *)
TypeOK ==
  /\ HubTypeOK
  /\ current \in 0..hub.gen /\ phase \in Phases /\ synced \subseteq SyncFeeds
  /\ health \in [connected : BOOLEAN, desired : 0..Len(Feeds), active : 0..Len(Feeds),
                 lagged : BOOLEAN, ready : BOOLEAN, authorized : BOOLEAN]
  /\ raw \in Seq([msg : Messages, wallclock : 0..MaxNow]) /\ Len(raw) <= RawRoom
  /\ bars \in Seq(BarEvents) /\ Len(bars) <= BarRoom
  /\ wallclocks \in Seq(Wallclocks) /\ router \in Routers
  /\ task \in [pc : {"take", "finish", "flush"}, ready : BOOLEAN]
  /\ pending \in [Names -> SUBSET (1..MaxNow)] /\ emitted \in [Names -> Seq(1..MaxNow)]
  /\ lastEmitted \in [Names -> 0..MaxNow] /\ liveSymbols \subseteq Names
  /\ resync \in BOOLEAN /\ ticker \in {"idle", "resubscribe", "stopped"}

(* Bars leave the gateway in strictly increasing order per symbol, whether *)
(* they came as history, live, or from the buffer of a gap (emit_bar), and *)
(* none is missing from the start of the history on, unless the queue to   *)
(* the router overflowed, the router took a bar and a cutoff in another    *)
(* order than the hub sent them, or the phase left SyncingGap with live    *)
(* bars still buffered.  A gateway that skips the history asks for none    *)
(* until every symbol has a bar, and may lose bars when it reconnects.     *)
BarsInOrder ==
  \A s \in Names : \A k \in 1..(Len(emitted[s]) - 1) : emitted[s][k] < emitted[s][k + 1]
NoBarMissing ==
  /\ BarsInOrder
  /\ losses = {} /\ ~SkipHistory =>
       \A s \in Names : \A k \in 1..Len(emitted[s]) : emitted[s][k] = FromTime + k - 1

(* The history a connection asks for reaches back to the bar after the     *)
(* last one emitted, although the hub may read a plan that the event task  *)
(* has not renewed yet.                                                    *)
HistoryReachesBack ==
  hub.pc \in {"send", "ack"} /\ ~hub.skip =>
    \A s \in Names : lastEmitted[s] # 0 => hub.from <= lastEmitted[s] + 1

(* Whatever ends a connection with an error, the hub comes back: it runs   *)
(* again, or was closed while it ran.  A hub that ended is not started     *)
(* again, but the gateway does not stay ready on a dead connection.        *)
NoDeadHub ==
  /\ hub.pc = "backoff" ~> hub.pc \in {"run", "ended"}
  /\ hub.pc = "ended" ~> ~health.ready \/ ticker = "stopped"

(* docs/alor-reference-engineering-audit-2026-08-21.md:383: a reconnect    *)
(* needs a resynchronisation before LiveReady; at least bars, positions,   *)
(* orders and stop orders must be subscribed on the new connection.        *)
InPlace ==
  \A i \in 1..Len(Feeds) :
    Feeds[i] \in Names \cup SyncFeeds => \E g \in hub.active : g[1] = i
ResyncBeforeLive ==
  [][phase # "LiveReady" /\ phase' = "LiveReady" /\ current > 1 => InPlace]_vars
=============================================================================
