# alor-rs-main: a TLA+ verification project

The repository holds two programs that trade on a Russian exchange through the
ALOR broker. The **gateway** (`alor-gateway`) keeps the WebSocket connections to
the broker; the **strategy runtime** (`strategy-runtime`) runs one strategy. They
talk only through Redis streams:

    strategy runtime                    Redis                     gateway            broker
      strategy callbacks --commands--> cmd.orders --group--> command consumer --CWS--> orders
      handle_ack       <--------------- cmd.acks  <-------- publish_ack
      handle_order/trade/position/bar <- events   <-------- supervisor, router <--WS-- events

This directory models the parts of that path where order matters: what is
published, marked, sent, answered and acknowledged when, and what is left of it
after a crash. Paths below are relative to `src/alor-rs-main/`.

## 1. Inventory

### Gateway

| component | state | operations | interacts by | what makes it correct |
|---|---|---|---|---|
| idempotency store (`services/command_consumer.rs`) | map id -> instant, queue of ids | `check_and_set`, evictions | called by the command loop | map and queue agree, capacity, a duplicate only within the ttl, fresh again only after an eviction |
| command loop (`services/command_consumer.rs`, `transport_redis.rs`) | position in the loop, `request_map`, pending list of the group | receive, decide, send, classify, publish_ack, XACK, dead letter | Redis, control WebSocket, `request_map` shared with the order task | nothing retired before it is answered, nothing Accepted before the broker acted, a negative answer has no effect, Duplicate follows a real answer |
| control WebSocket (`cws_client.rs`, `action_scope_cws.rs`) | connection, bounded channel, pending requests, freshness of the path, armed exit | admission, recycle, send with response or timeout, reconnect | channel from the command loop, `HealthState` | a command is written at most once; after its answer only when it was given up; the consumer stops only in front of a full channel or in a wait of its own connection that has no limit |
| WebSocket hub (`ws_hub.rs`, `ws_subscriptions.rs`) | generation, subscriptions and their acks | connect, subscribe, heartbeat, resubscribe | event channel to the supervisor | messages of an old connection are ignored; it keeps reconnecting |
| supervisor (`supervisor.rs`) | phase, `live_symbols`, last emitted bar, buffered live bars, health | connection events, bars, ticker, silence resync | everything in the gateway | `LiveReady` only after a full resynchronisation; bars emitted once and in order |
| router, bar validation (`router.rs`, `data_quality.rs`) | newest live bar per symbol, live cutoff | parse, classify, hold back | channels | a live bar is emitted when it is complete |
| event publisher (`services/event_publisher.rs`) | bounded queue, degradation | lossy and blocking publish, retry, drain | Redis | critical events are neither lost nor reordered |
| state managers (`state/*.rs`), reporter (`services/health_reporter.rs`) | orders, positions, stop orders, synced flags | apply event, mark synced, snapshot | read by supervisor and reporter | snapshots never go back; the managers catch up after an outage |
| health, auth, in-memory transports | flags, token | read, refresh | | |

### Strategy runtime

| component | state | operations | interacts by | what makes it correct |
|---|---|---|---|---|
| dispatch loop (`runtime.rs`, `state.rs`, `redis_transport.rs`) | stream positions, pending lists, last bar, strategy state, saved snapshot | `poll_once`, handlers, `apply_intents`, `persist_state`, bootstrap, `recover_pending` | Redis, strategy callbacks | command and state saved together, no order from an old bar, bar mark monotone, what was delivered is handled |
| trade ownership (`runtime.rs`, `trade_ledger.rs`) | own requests and orders, buffered trades, dedup window, ledger | `handle_ack`, `handle_order`, `handle_trade`, restart | three streams in any order | each trade recorded once, none stuck, none booked as an orphan too early |
| live guard (`live_guard.rs`) | gateway health as last read | decision per intent | health endpoint of the gateway | no entry while not ready |
| strategies (`strategies/*.rs`) | phase of the order life cycle, pending request ids | `on_bar`, `on_ack`, `on_position`, `on_order`, `on_timer` | called by the runtime | one entry and one exit, exits only for executed entries |
| paper simulation, risk gate store, context services, replay tools | | | | |

`alor-protocol` and `alor-types` hold the messages and the trading calendar.
`PROJECT.json` lists every component with its status; its "hazards" name the
lines where the behaviour is hard to test. The hard ones are: entries redelivered
after a crash, Redis calls that fail after they were applied, responses that come
too late, three event streams without a common order, a restart that is faster
than `claim_idle_ms`, and the connection generations of the gateway.

## 2. Plan

Done, in this order:

1. `Idempotency`, `IdempotencyStore`: modelled, checked, proved.
2. `CommandContract` (abstract) and `CommandPath` (detailed): modelled, checked;
   the refinement and every safety property proved.
3. `TradeOwnership`: modelled, checked, proved.
4. `RuntimeDispatch` with `MarketBuyAndClose`: modelled, checked, its safety proved.
5. `WsHub` and, composed with it, `GatewaySession` (event task, router, bar task,
   silence ticker): modelled, checked, its safety proved.
6. `EventPublisher` with the source tasks, the state managers and the reporter:
   modelled, checked, its safety proved.
7. `ControlPath`: modelled, checked, its safety proved.
8. `SessionGap`, a strategy as pure operators, and `SessionGapTrading`, the strategy
   in its runtime: modelled, checked, its safety proved.
9. `UsdrubfHybrid`, a strategy with entries in parts and protective orders, against
   a broker: modelled and checked.

Left, in order of importance: proofs of `EntryWhenFlat` and `OwnFillsAreKept`
(`UsdrubfHybrid`), a restart of `alor_usdrubf_hybrid`, the partial entry
reconciliation of `runtime.rs`, and the stop orders of `hybrid_intraday_runtime` and
`ri_author41_42_live`.

## 3. Modules

**Idempotency** holds the store as a record `[entries, order]` and its operators;
`CheckAndSet` is `check_and_set`, made of `EvictExpired`, `Remember` and
`EvictOverflow` as the code is. `IsFresh` is its answer. **IdempotencyStore** wraps
it in a state machine whose environment calls it with any id at any clock
reading, and keeps the calls as history.

**CommandPath** is the command loop of each gateway process. `pc` is where the
loop stands; each Redis or socket call is one action, and what the code does
without an await between two of them is part of one action: `Admit` is
`check_and_set`, `validate_command`, `is_command_expired` and the early entry of a
cancel in `request_map`. `Settle` and what surrounds it is the broker: a request on
the wire may be lost, refused, carried out, and its answer may lack the order
number or the code. `FailPublishAck` and `FailXack` are the `?` behind the two calls,
with the call applied or not; afterwards the loop is `stopped`, because the
supervisor does not start it again. `Die` and `Start` are the process; the store and
`request_map` start empty. **CommandContract** says what a runtime may rely on, as
seven growing sets of stream entries; the mapping is at the end of `CommandPath`.

**ControlPath** opens up what is one exchange in `CommandPath`: the consumer's
admission of limit orders (`Detect`, `Recheck` under the lock, `RequestRecycle`, the
wait for a new connection, `Arm`, `BeginExitSend`), the channel `cmd_tx` with its
`Capacity` (256 in the code), the session task with its
pending requests (`ServeSend`, `ServeRecycle`, `Response`, and every way to lose the
connection), and the connection opened for one action (`OpenScope`, `ScopedSend`).
Consumer and session share `health`. Each place where the code awaits or unlocks
is a step of its own: that the exit is armed after the health record was
unlocked is `Arm`. Ages and waits pass their limits at any moment. Two kinds of
waits have no limit: `RequestRecycle` and `SendCommand` wait for room in the channel
(`cws_client.rs:656`, `:777`), in which commands that were given up stay until the
session takes them; `OpenScope` and `ScopedSend` wait for a token request and for writes
(`action_scope_cws.rs:398`, `:754`). None of these is assumed to end. A session task
that is itself stuck in a write or a token request is one that takes no step. Left to
the caller: the `readiness` flag, which only delays a poll. Left out: the expiry of the
token, a crash of the gateway (`CommandPath` has it), and a second consumer, which
the binary does not start.

**WsHub** is the hub task: `hub.pc` says whether it announces, connects, sends the
request for feed `i`, awaits its acknowledgement, runs, backs off, or ended. `wire` is
the broker's side of the socket. `Connect` reads the shared backfill plan once, where
the code reads it three times (`ws_hub.rs:316`, `:320`, `:325`); no property tells them
apart, because plans start from the last bar emitted, which only grows.
**GatewaySession** adds the supervisor's event task,
the router and the bar task, each taking one message at a time from its channel, and
the ticker. What a task reads before an await and uses after it is kept in `task`:
the bar task hands the bar on between `TakeBar` and `FinishBar`, and it empties the
buffer of a gap bar by bar (`FlushBar`), each awaited, before it goes live. A raw
message keeps, as history, the clock of the `Subscribed` it came after, which is the
cutoff the router should have when it takes the message. Bars are numbered
by the time they close, symbols are independent, so one is enough to see a bar lost.
`losses` records the three ways a bar is given up by design: a full raw queue, a
cutoff taken out of step with the bars, a phase left with live bars buffered.

**EventPublisher** has the source tasks of the supervisor (publish, then hand to the
manager), the managers, the reporter and the publisher task. A message is
its place in the order in which the queue took it. Events may carry a timestamp older
than the one before; the managers of orders and positions take them all the same, and
only the stop orders manager compares (`Replaces`). A write fails, or times out
although it was applied, and is tried again; `written` is a set, so a duplicate copy
counts once. `StreamsKeepOrder` compares the messages of one kind, by their rank among
them, with the events of that kind as they came. `Shutdown` and the drain are included;
MAXLEN trimming of the streams is not, and orders stand for positions, whose manager
is the same.

**TradeOwnership** follows one runtime and the fills of its orders. `acks`, `orderQ`
and `tradeQ` are the three streams in flight, consumed in any relative order. `book`
holds what the handlers keep in memory (what is buffered, owed and recorded is kept
per order; `AfterFills` is what an order still owes after a fill), `seen` and
`lastTs` the dedup window, `saved` what is written of it. `Restart` loses the book,
keeps what was saved, reads a snapshot as old as one likes, and may strand the head
of one stream, which is what a restart faster than `claim_idle_ms` does.

**MarketBuyAndClose** is the strategy as pure operators: `OnBar`, `OnAck` and
`OnPosition` map a state to a state and an order. **RuntimeDispatch** calls them the way
`runtime.rs` does: `Read` is one XREADGROUP; `HandleAck`, `HandlePosition`, `HandleBar`
and `SkipBar` are the handlers, with `apply_intents`, the gates that drop or defer an
intent and the transaction of command and state; `Xack` comes after. `hand` is what the
process read and has not acknowledged, per stream; the streams are dispatched in the
order of the code, and `Count` is how much one read may bring. `Timer` ends
`poll_once`; `Die`, `Start`, `BeginPolling` are crash, bootstrap with recovery, and
the start of polling. Readiness of the gateway and the trading window are
nondeterministic at each call, because other tasks write them. The environment
fills orders lot by lot, answers each command once, reports positions with the time
of the last fill or of the arrival, and repeats bars when the gateway is restarted.

**SessionGap** is `session_gap_standalone` as pure operators on a memory `m` and its
persisted state `m.st`, one operator per callback. Signals, stops and take profits
are arbitrary inputs; what is kept is the life cycle of entry and exit. Left out of
`OnBar` are the branch of the weekend, a bar without history before it, and a hook of
the tests; left out of `TimedOut` is a clock that was set back, whose negative
difference, cast to `u64`, ends a wait at once.
**SessionGapTrading** runs it: the handlers of four streams, in the order of each
stream and interleaved at will, the exit that `maybe_defer_exit_before_emit`
postpones, bootstrap with its three callbacks, and a broker that fills, refuses or
stays silent. Each handler is one step: `RuntimeDispatch` has the crashes inside it.
Live mode only, one lot, long entries; what is left of a day ends with it; bars
closed while the runtime was down come as history. `account` is the position at the
broker; `life`, `session`, `again` and `certain` of a command are history: in which
process and session it was sent, whether it is the second try of an entry refused for
a closed window, and whether the strategy could know what it was doing (`Certain`: no
report of before a restart was unread, and an entry that is not the first one of its
day found the account flat and nothing under way; of an entry refused for a closed
window no trace is left, so that the one after it is again the first). `dawn` is
history too: how many commands there were when the day began. `Sure` says so of all
commands; section 5 says why it is needed.

**UsdrubfHybrid** is `alor_usdrubf_hybrid` in live mode. Each callback is an operator
from a memory to a memory and the commands it emits (`OnBar`, `OnAck`, `OnOrder`,
`OnStopOrder`, `OnPosition`, `OnTimer`), built of the same helpers as the code:
`Brackets` places the take profit and the stop order of a mean reversion position,
`Emergency` flattens what the broker reports, `CutEntry` ends an entry that is not
complete in three seconds. `Carry` to `Trigger` are gateway and broker: commands are
carried out in the order of publication, but a cancel may come too late, an order
may be refused, and fills, stops and answers reach the strategy on four streams in
any relative order. The cancels of one callback have the same request id, so the
gateway answers Duplicate to all but the first (`Heard`); the stop order's is a deletion
with an id of its own. The timer acts at any time after its period was started, also
while events or answers are still on their way; a bar comes when what the bar before
caused is over (`Quiet`: bars are ten minutes apart). Whether a bar carries a signal or reaches
an exit level is free, except that the last bars of a day close. `forgot` is history:
`reset_day` dropped a position that the broker still holds. Left out: a restart, a
resubscription of the position stream, whose snapshot (`existing`) would be adopted
without an exit where no position is known (`alor_usdrubf_hybrid.rs:1765`), events
of market orders other than filled and cancelled,
answers with an unknown outcome whose order is executed later (`CommandPath` and
`SessionGapTrading` have them), and intents dropped by the gates of the runtime
(`RuntimeDispatch`).

Time is abstract: one tick is a bar in `RuntimeDispatch` and `GatewaySession`, a
second or more elsewhere. Payloads, prices and wording are left out. `PROJECT.json`
maps every definition to its lines.

## 4. Runs

| run | asks | bounds |
|---|---|---|
| `store` | is the store right at its ttl and capacity limits? | three ids, room for two, five calls at every clock reading up to 5 with ttl 2, so that both evictions happen in one behaviour |
| `crash` | is the command path right, and every command answered, when the process may die at any await and one Redis call may fail, applied or not? | five kinds of requests (limit, its cancel, one with a deadline, one invalid, one undecodable), two published, room for one id, ttl 0, one death, one failure, one tick |
| `duplicate` | (violation) one broker effect per request id | one market order, one death |
| `control` | is nothing written twice, when may something be written after its answer, and where can the consumer stop? | one entry, two exits, one cancel on a connection of its own, three connections, a channel for two messages |
| `session` | are bars emitted in order and without holes through reconnections, gaps and silences? | one symbol, five bars, one disturbance, channels of room 1 to 3 |
| `resync` | (violation) LiveReady only after a resynchronisation | one symbol and the positions, one disturbance, four bars |
| `publisher` | do streams keep order, snapshots move forward, managers catch up? | two kinds, one id, room for one message, two events with a timestamp of 1 or 2 (a stop order's may be missing), two ticks, one failed write, shutdown at any time |
| `trades` | trades, orders and acknowledgements in every order, and across a restart from any snapshot with a resubscription | two own orders and a foreign one, dedup window of two, one restart |
| `dispatch` | does the runtime enter once, leave once, save what it sent, and handle everything delivered? | both close triggers, three bars, two position reports, one crash anywhere, bars repeated while their stream is no longer than two |
| `strategies` | does session_gap_standalone keep to one entry, and never reverse the account? | three bars of a session and the first of the next, three commands, one order event, one restart |
| `reentry` | (violation) one entry per session also across a restart | the same with two commands |
| `hybrid` | does alor_usdrubf_hybrid enter on a flat account only, and leave the fills of its own entry alone? | entries of two lots, a day of two bars and the first bar of the next, four orders (a stop order that is triggered counts once more), one refused order |

Why the bounds are enough: the hazards are made of few steps. A duplicate takes one
entry and one redelivery; an eviction takes as many ids as the capacity (one) plus
one; a crash hits every await because it may happen in any state. Bars of
`RuntimeDispatch`: entry on the second one, exit on the third, and two reports are
one from before the fill and one from after it; what more of them could do is
covered by the theorems. In `session` one disturbance is enough for each way to lose
a bar to happen on its own; it needs `MaxNow = 5` for the raw queue to fill. Two
disturbances (`MaxNow = 6`) were run as well: the phase left with bars still
buffered needs them. Two gateway processes and a ttl other than 0 in the command
path are not in the runs: the theorems of section 6 cover them for every value. The
inductive invariants were checked as invariants too before they were proved, those
of `RuntimeDispatch` also with two lots, two deaths and the silence check. In
`hybrid` two lots are the least that can be filled in parts, four orders are a mean
reversion entry with its two protective orders and one more entry, and the third bar
brings the reset of the day, with a signal on that bar; four bars (`MaxBars = 4`) were
run as well. In `control` the three commands of the long-lived path and the requests to
recycle are more than the two places of the channel, so that it does fill up. In `strategies` three
commands are an entry, its exit and one more; what a fourth could do is covered by the
theorems.
Bounds are named in each module (`Max...`). `CHECK_DEADLOCK FALSE` is set where the
system really comes to rest: everything published has been handled and the bounds
allow no more.

Fairness. `crash` assumes that the loop runs (its task is scheduled), that a dead
process is started again (the restart policy of the deployment) and that the clock
advances; it assumes nothing of the broker, because the loop gives up after a
timeout, and `EveryCommandAnswered` excepts a loop that a failed Redis call has ended for
good. `control` assumes that the consumer goes on where it may: what it computes,
its waits with a limit, and the channel when there is room. It assumes nothing of the
session task nor of the connection opened for one action. `AnsweredUnlessHeldUp` says
that every command is answered then, or the consumer ends up in one of the waits
without a limit (`HeldUp`); without either of its two cases the property is violated.
`session` assumes that every
task runs, that the broker answers a subscription in the end, and that after the hub
ended the age of the last message grows. `publisher` assumes that its tasks run and
that writes fail a bounded number of times. `dispatch` assumes that handlers,
XACK, the restart and the start of polling happen; reading a stream may fail for
ever, and the property is about what was delivered.

## 5. Findings

- `duplicate`: the audit document (line 379) wants no duplicate broker effect for a
  duplicate request. The store is in memory (`bin/alor_gateway_transport_runner.rs:76`);
  a market order carried out before a crash is carried out again.
- `resync`: the same document (line 383) wants a reconnect to resynchronise before
  `LiveReady`. `live_symbols` and the synced flags survive the reconnect, so one bar of
  the new connection is enough, before positions are subscribed again.
- `reentry`: `tests/e2e_session_gap_restart.rs:664` says that no duplicate entry may be
  sent after a restart. When the snapshot corrects the phase at a start, the session
  of the fresh process is written over the saved one, and `traded_session` is lost.

Disagreements seen while modelling and not given a run of their own, most of them in
the notes of the hazards: a stopped command loop that health reports as alive,
ownership lost by a restart, a partial fill taken for the whole entry, a blind entry
on a dirty start, limit orders whose entry and exit share a request id, a pending
request id computed from another time than its command's, cancels of one callback
that share a request id so that only the first is carried out (`runtime.rs:4142`), a
command consumer that stands still once the channel to a session that never returns
is full, a position event stranded
by a fast restart and claimed by a later one, a stale control path that no recycling
makes fresh.

The proofs brought up two more. An exit sent on an old position event and refused
outside the trading window is refused under a request id computed from the last bar
(`runtime.rs:2272`), not under the one the strategy waits for (`runtime.rs:2270`): the
strategy stays in PendingExit without a command, which `SavedStateKnowsCommands`
therefore excepts. And a gateway with `skip_history_bars` asks for no history until
every symbol has a bar (`supervisor.rs:1268`, `ws_hub.rs:314`), so that a reconnect
before that loses bars of the symbols that already had some; `NoBarMissing` promises
order to such a gateway, and completeness only to the others.

`alor_usdrubf_hybrid` has more of them. `EntryWhenFlat` and `OwnFillsAreKept` hold as they
stand, and each of their exceptions is a behaviour of the code: `reset_day`
(`strategies/alor_usdrubf_hybrid.rs:439`) forgets a position that is still open, although
a comment rules it out "by design", and a breakout on the last bars of a session is
one; a refused exit after `partial_entry_fill_timeout` is forgotten, because `on_ack`
repeats an exit only while `open_position` is set. Besides, a fill that beats the
late cancel leaves more at the broker than was flattened, and a stop order whose
event comes after the flat position is never cancelled. The position forgotten by
`reset_day` is still there on the later bars of the day, so that the exception of
`EntryWhenFlat` lasts until the account is flat (`forgot`).

The proof about `session_gap_standalone` brought up two. An entry refused for a closed
window is kept and sent on the next bar
(`strategies/session_gap_standalone.rs:1340`); when that is the first bar of the next
session, whose end the session reset has just moved, it is sent on a signal of the day
before, and `traded_session`, reset by the same bar, does not count it: the session
may have a second entry of its own. `OneEntryPerLife` excepts that entry and no other.
And after a restart the position comes from the snapshot while reports of before the
restart are still in the stream; `on_position` does not compare times, so an old
report takes the strategy back to a position that is closed, it sends an exit, and the
account is short. It takes five commands and one restart; `NeverReversed` without
`Sure` is violated there. Nor is a second entry of one day safe, be it the first of
another session or of another process: the strategy may have given up an order of
which it heard nothing and which is executed after all. Of the first entry of a day
nothing is assumed.

## 6. Proofs

Eight modules, named `...Proofs` after the module they are about, hold theorems for
every value of the constants: every safety property of the runs `store`, `crash`,
`control`, `session`, `publisher`, `trades`, `dispatch` and `strategies`. The lemmas
on the store stand both in `IdempotencyStoreProofs` and in `CommandPathProofs`, which
extend different modules. They rest on the assumptions
the modules declare. Those that say something about the code or its surroundings: a
store has room for at least one id (`max_entries.max(1)`); a cancel names an order
number; `Class` gives every command one of three classes; the channels of the
publisher and of the control path have room for one message; no feed is subscribed twice, there is at least
one retry, and the padding of a gap does not reach back before time 0; the broker
does not report more trades within one second than the deduplication window
remembers; bars come in order of time. The bounds (`Max...`) are arbitrary natural numbers, so that a theorem is
about behaviours of any length.

Each proof has the same shape: an inductive invariant `IInv`, one lemma for each
action and each part of it that the action can disturb, and a theorem that draws the
property from it.

**The store.** `StoreTypeOK`, `StoreConsistent`, `StoreBounded`, `StoreRemembers`,
`StoreForgets`: each property of the `store` run, for every ttl, capacity and set of
ids. The answers the last two talk about lie in the past, so the properties are not
inductive. `IInv` adds `Recorded` (every id in the store was answered "fresh" at the
instant stored with it) and `Tracked` (every "fresh" answer is still in the queue,
is older than the ttl, or has as many fresh answers behind it as the capacity).
The central lemmas: popping a prefix of the queue keeps map and queue in agreement
(`DropFrontKeeps`); because the queue is in order of age, stopping at the first
live id removes exactly the expired ones (`EvictExpiredKeeps`).

**The command path.** `PathTypeOK`, `PathDuplicates`, `PathImplementsContract`, for any
number of gateways, commands, deaths and failed Redis calls, and any broker the
model allows. `IInv` says what each loop knows at each stage (`LoopRight`): the
entry in hand can be decoded; an answer Accepted, or a response "ok" not yet
read, means the broker acted on that very entry; at the XACK its acknowledgement
is out. `MemoryRight` says that a request a running loop remembers was answered in
this life or is the one in hand, on its way to an answer that is not Duplicate;
this is why a Duplicate never is the only word, and why it needs the loop to stop
at the first failed call. The proof shows first that histories only grow
(`StepLater`) and that a loop moves itself only (`OthersStill`), so that each action
is left with the one loop that moves (`DecideLoop`, `AnswerLoop`, ...) and with the
broker's response to the loop that waits for it (`BrokerLoops`). For the contract
each action has one lemma, from `PublishContract` to `RetireContract`; every other
action leaves the contract's variables alone (`StutterContract`).

Two more invariants carry the other properties. `PathNegativeAnswers` and
`PathOrdersMapped` need `AInv`: what a process sent or answered in its life is about the
entry in its hand or about one that is retired for good (`DeliveredOnce`), so that the
send it waits for is the only one it made for its entry (`RefusalRight`), and a refusal
read is about a send without effect; order numbers are places in `effects`, so a new one
is in no `request_map` yet (`OrderRight`). `PathSentAgain` needs `SInv`, which follows every
request sent through the store: it is there under the instant of that send with only
what was handled since behind it (`Held`), or is older than the ttl (`Outlived`), or as
many others as the store has room for were handled since (`Crowded`). That the queue
of distinct ids can be no longer than the set of acknowledgements that stand for them
is a pigeonhole argument (`PigeonQueue`).

**The control path.** `ControlTypeOK`, `ControlWritesOnce`, `ControlOnlyGivenUp`, for any
commands, any capacity of the channel, any admission policy and any number of
connections. That a command
is written once is not inductive: the channel could hold it twice, or hold it after
it was written. `IInv` adds `Once` (no command is in the channel twice) and, for each
command (`CommandRight`), that what is in the channel was not written and is awaited or
given up, and that what was written is awaited or answered. `ConsumerRight` says that
the command at hand has no answer and that a result is in the oneshot channel only
when the command has left the queue. The two lemmas about the channel (`PopQueue`,
`PushQueue`) carry the rest; the action property follows from `HeadIsUnwritten`.

**The event publisher.** `PublisherTypeOK`, `PublisherKeepsOrder`,
`PublisherMovesForward`. `IInv` counts messages along the way: the n-th event of a kind
that came is the n-th the source task published (`EventsRight`: while the queue is open
its rank is what the task took) and the n-th it handed over; the channel to the manager
holds the last ones handed over (`SourcesRight`); the queue holds the last messages
accepted and everything before the one in the publisher's hand was written
(`WriterRight`). Snapshots move forward because none, written or waiting, is newer than
the store it came from (`SnapshotsRight`), and a store never goes back to an event that
came earlier, nor a stop order to an older timestamp.

**The trades.** `TradesTypeOK`, `TradesRecordedOnce`, `TradesNotLost`, `TradesOrphans`, for
any orders, lots, restarts and resubscriptions. Booked once: the dedup window holds
distinct trades in order of time, and every booked trade is in the window or older than
its newest one (`WindowsRight`, `BookedRight`); the lemmas about `Remember` say that
trimming drops only what the time tells anyway, which is where the assumption on
trades per second is needed. Not lost: a buffered trade always waits for something that
is still to come (`WaitsRight`), and in a process that was not restarted there is a
number `h` such that the trades booked or buffered are exactly the first `h`, and those
in flight follow without a gap (`HistoryRight`), however often a resubscription repeats
them. Orphans: an own trade is booked as an orphan only when no request is left, and by
`RequestsRight` every own order then was named or answered without a number.

**The dispatch loop.** `DispatchTypeOK`, `DispatchRecovery` (no recovered bar gives an
order), `DispatchSavedState`, `DispatchOneExposure`, for any number of bars, reports,
repeated bars and crashes, either trigger, any timeouts. `IInv` says that a running
process knows no more than what it saved (`MemoryRight`), that there was at most one
entry and then one exit, sent for executed lots (`CommandsRight`), that reports of the
position before the exit only grow (`ReportsRight`), and that a strategy which knows of
its position will be told of no empty portfolio before the exit (`PhaseRight`, with `Ahead`
for the reports still to come). Together they exclude the second entry: to be idle
again, the strategy would have to read a report of zero after one above zero, while no
exit was sent. The last two theorems have hypotheses. `Held = 0`: the strategy
compares the position of the whole portfolio, so somebody else's lots are taken for its
own. `~FastRestarts`: a restart faster than `claim_idle_ms` leaves a report to be read
later, out of order. `Qty = 1` (`DispatchOneExposure` only): with more lots a partial
fill is taken for the whole entry and the exit sells more than was bought. Without
any one of them TLC finds `OneExposure` violated (without the second, with two deaths),
and the `dispatch` run has the same values; the last two are hazards of the code that
`PROJECT.json` lists.

**The session.** `SessionTypeOK`, `SessionHistoryReachesBack`,
`SessionNoBarMissing`, for any symbols, feeds, capacities and disturbances. Order
and history need `IInv`: guids are never reused (`GuidsRight`); an event of a
generation other than the current one comes after the announcement of its own
(`GenerationsRight`); a plan, a queued command or a connection that asks for less
than the full history starts no later than the last bar of any symbol (`PlanRight`),
which holds although plans are read stale, because `lastEmitted` only grows; until
every symbol has a bar none older than the start is about (`BarsRecent`). That no
bar is missing is `GapInv`: as long as no accepted loss was recorded, every bar that
is anywhere on its way, from the broker's socket (`WireGapless`, `StreamsGapless`),
through the events, the router's queue, the bar held back and the bar queue
(`EventsGapless`, `RawGapless`, `HeldGapless`, `BarsGapless`) to the buffer of a gap
(`PendingGapless`), has the bar before it ahead of it in the same place, further on,
or emitted. On the wire this needs that the acknowledgement of a guid comes before
its first bar (`AckFirst`): whatever the hub ignored before was of another guid. In
the router it needs to know whether the bar before was history, which passes at
once, or live, which may be the one held back (`Ready`).

**The strategy in its runtime.** `TypeCorrect`, `PositionNeverReversed`,
`OneEntryForALife`, `FlatHoldsNothing`, for any bars and sessions, limits, answers,
order events and restarts. Each callback comes first, as a relation between the phase
before and after and the order (`AckMoves`, `OrderMoves`, `PositionMoves`,
`EntryMoves`, `ExitMoves`, `BootMoves`), then what the runtime makes of the order
(`ApplyParts`: kept, dropped, an exit put off, or published), then what each handler
does in these terms. The invariant `Inv` is `Base /\ (Sure => Core)`.

`Base` holds always. `Reading` ties the memory to the bars handled, `Timely` bounds the
times on their way, and `CommandLives` says that an entry of this life has spent its
session: the session is an earlier one, or it counts as traded with no signal pending.
That is the first half of `OneEntryPerLife`, which needs no certainty.

`Core` says what strategy, streams and broker know of one another. At most the last
command can still be executed, an entry on a flat account and an exit on one lot
(`Market`); what can be executed, or was and is not reported, is of this day (`Dawn`);
the reports unread lead from `pos` to `account` (`Queue`); an answer that
makes the strategy give a command up is of the last command, and the strategy waits
for it (`AnswersRight`); and each phase goes with an account, a last command and
reports (`NameRight`): a strategy that is `Flat` while the account holds a lot has the
report of it still to read, one that takes itself for exposed on a flat account has
sent the exit (`Closing`) or reads reports of an earlier life (`Stale`). That
last case is where a command may be sent without certainty, and a command sent
then is what `Sure` excludes; `SureBefore` says that what was certain stays so. The
step that is hard is a bar which sends an order (`CoreBar`): that no earlier command
can be executed any more follows for an exit from its phase. For an entry
(`EntryAlone`) it follows from `Dawn` when the entry is the first of its day: what
could be executed would be an entry of that day. When it is not the first one, it is
its certainty, without which an entry left open by a lost answer would be followed by
a second one (`SentCertain`).

## 7. Only checked, and not modelled

Checked on small instances only: liveness (`EveryCommandAnswered`,
`AnsweredUnlessHeldUp`, `NoDeadHub`,
`EveryEventIsWritten`, `ManagersCatchUp`, `DeliveredIsHandled`), because the prover has
neither fairness nor ENABLED; the violations, which are behaviours; and
`UsdrubfHybrid`: its `TypeOK` and the two action properties are left to be proved. No
theorem is about what a recursive definition computes: the counts the proofs need
(`Rank`, `FilledAtBroker`) are cardinalities.

Not modelled, and why:

- The strategies `hybrid_intraday_runtime`, `ri_author41_42_live` and `moex_author41_42`:
  thousands of lines each, most of them signal arithmetic on prices, which the
  properties here do not tell apart. `limit_cancel`, `mock_live_probe` and
  `toy_session_timing` are probes.
- Prices, profit and loss, the risk gate store and its files, the trading calendar,
  order books, formatting: data without steps.
- The paper modes, the in-memory transports and the mock modes of the hub: they
  replace what is modelled.
- Authorization: one token behind an HTTP call; its loss is `Unauthorize` and a failed
  `OpenScope`.
- Context services, shadow collectors, replay tools and scripts, which send no
  command.

Most of the lines the map does not cover are of these kinds, or tests that live in the
same files as the code.
