-------------------------------- MODULE WsHub --------------------------------
(***************************************************************************)
(* The WebSocket hub of the gateway (alor-gateway/src/ws_hub.rs): one task *)
(* that connects, subscribes feed by feed, forwards what arrives as events *)
(* to the supervisor, and connects again after an error.  Every connection *)
(* has a generation, every subscription a guid.  The broker's side of the  *)
(* socket is the environment: it accepts a subscription or refuses it or   *)
(* stays silent, then sends the history asked for and every new bar.       *)
(*                                                                         *)
(* Time counts bars: now is the bar that is being formed.  A guid is       *)
(* <<i, n>>, the n-th request of a connection for the feed Feeds[i].       *)
(***************************************************************************)
EXTENDS Naturals, Sequences, SequencesExt

CONSTANTS
  Symbols,        \* config: symbols, a sequence
  AccountFeeds,   \* feeds subscribed after the bars, a sequence
  SkipHistory,    \* config: skip_history_bars
  FromTime,       \* config: from_ts, the first bar of a full history
  AckRetries,     \* config: subscribe_ack_retries
  EventRoom,      \* capacity of the event channel
  MaxNow,         \* bound: bars
  MaxFaults       \* bound: whatever disturbs the gateway

Bars == 1..Len(Symbols)
Feeds == Symbols \o AccountFeeds

ASSUME FeedsAssumption ==
  /\ Symbols \in Seq(STRING) /\ AccountFeeds \in Seq(STRING)
  /\ Symbols # <<>> /\ IsInjective(Feeds)
ASSUME HubConfigAssumption == SkipHistory \in BOOLEAN /\ AckRetries \in Nat \ {0}
ASSUME HubBoundsAssumption == EventRoom \in Nat /\ MaxNow \in Nat /\ MaxFaults \in Nat
ASSUME FromAssumption == FromTime \in 1..MaxNow

Cold == [mode |-> "Cold", from |-> 0]          \* from 0 is None

VARIABLES
  hub,       \* the task and its connection, see HubStates
  plan,      \* the shared BackfillPlan
  cmds,      \* commands to the hub
  events,    \* the channel to the supervisor
  wire,      \* what the broker sent on this connection and was not read
  streams,   \* guids of bars the broker streams on this connection
  asked,     \* a request on its way to the broker, at most one
  now,       \* the bar being formed
  faults     \* faults so far, for the bound

hubVars == <<hub, plan, cmds, events, wire, streams, asked, now, faults>>

(* Where the task stands: it announces a new generation (start), connects, *)
(* sends the request for Feeds[i], awaits its answer, runs, waits before   *)
(* the next attempt, or has ended.  The wallclock is history: the one of   *)
(* the last Subscribed, which becomes the cutoff of the messages after it. *)
Idle == [pc |-> "start", gen |-> 0, i |-> 0, n |-> 0, tries |-> 0,
         desired |-> {}, active |-> {}, from |-> 0, skip |-> FALSE, wallclock |-> 0]

HubInit ==
  /\ hub = Idle /\ plan = Cold /\ cmds = <<>> /\ events = <<>>
  /\ wire = <<>> /\ streams = {} /\ asked = <<>> /\ now = FromTime /\ faults = 0

(* An event carries the generation of the connection it belongs to.        *)
Conn(what, g) == [kind |-> "conn", what |-> what, gen |-> g]
Subscribed(origin) == [kind |-> "subscribed", origin |-> origin, wallclock |-> now,
                       gen |-> hub.gen]
Ack(feed) == [kind |-> "ack", feed |-> feed, gen |-> hub.gen]
Raw(m) == [kind |-> "raw", msg |-> m, gen |-> hub.gen, wallclock |-> hub.wallclock]
(* subscription_manager.desired_count, active_count.                       *)
Stats(h) == [kind |-> "stats", desired |-> Cardinality(h.desired \cup h.active),
             active |-> Cardinality(h.active), gen |-> h.gen]

(* event_tx.send blocks while the channel is full.                         *)
Push(es) == Len(events) + Len(es) <= EventRoom /\ events' = events \o es
Closed == wire' = <<>> /\ streams' = {} /\ asked' = <<>>

---------------------------------------------------------------------------
(* WsHub::start: a new generation is announced before it is connected.     *)
Announce ==
  /\ hub.pc = "start"
  /\ hub' = [Idle EXCEPT !.pc = "connect", !.gen = hub.gen + 1]
  /\ Push(<<Conn("Reconnecting", hub.gen + 1)>>)
  /\ Closed /\ UNCHANGED <<plan, cmds, now, faults>>

(* The first lines of connect_and_run and the arm Resubscribe share this:  *)
(* the origin of the history follows the plan as it is now, whatever the   *)
(* request asks for, and the subscriptions of before are forgotten.        *)
Origin ==
  IF plan.from = 0 /\ SkipHistory THEN "Live"
  ELSE IF plan.mode = "Warm" THEN "HistoryGap" ELSE "History"
Subscribing(from) ==
  [hub EXCEPT !.pc = "send", !.i = 1, !.tries = 0, !.desired = {}, !.active = {},
              !.from = IF from = 0 THEN FromTime ELSE from,
              !.skip = from = 0 /\ SkipHistory, !.wallclock = now]

Connect ==
  /\ hub.pc = "connect"
  /\ hub' = Subscribing(plan.from)
  /\ Push(<<Conn("Connected", hub.gen), Subscribed(Origin), Stats(hub')>>)
  /\ UNCHANGED <<plan, cmds, wire, streams, asked, now, faults>>

(* subscribe_all: one request at a time; the repeated request for a feed   *)
(* replaces the pending one (add_subscription).                            *)
Guid == <<hub.i, hub.n>>
Send ==
  /\ hub.pc = "send"
  /\ hub' = [hub EXCEPT !.pc = "ack", !.n = @ + 1,
               !.desired = {g \in @ : g[1] # hub.i} \cup {<<hub.i, hub.n + 1>>}]
  /\ Push(<<Stats(hub')>>)
  /\ asked' = <<<<hub.i, hub.n + 1>>>>
  /\ UNCHANGED <<plan, cmds, wire, streams, now, faults>>

(* read_until_guid, send_and_ack: the first message that carries the guid  *)
(* is the acknowledgement, whatever it says.                               *)
ReadAck ==
  /\ hub.pc = "ack" /\ wire # <<>> /\ Head(wire).guid = Guid
  /\ hub' = [hub EXCEPT !.desired = @ \ {Guid}, !.active = @ \cup {Guid}, !.tries = 0,
               !.i = IF @ < Len(Feeds) THEN @ + 1 ELSE @,
               !.pc = IF hub.i < Len(Feeds) THEN "send" ELSE "run"]
  /\ Push(<<Ack(Feeds[hub.i]), Stats(hub')>>)
  /\ wire' = Tail(wire)
  /\ UNCHANGED <<plan, cmds, streams, asked, now, faults>>

(* Any other message: forwarded when it has no guid or an active one, else *)
(* ignored.  The same code in read_until_guid and in the select loop.      *)
ReadMessage ==
  /\ hub.pc \in {"ack", "run"} /\ wire # <<>>
  /\ hub.pc = "ack" => Head(wire).guid # Guid
  /\ IF Head(wire).guid \in hub.active \cup {<<>>}
       THEN Push(<<Raw(Head(wire))>>) ELSE UNCHANGED events
  /\ wire' = Tail(wire)
  /\ UNCHANGED <<hub, plan, cmds, streams, asked, now, faults>>

(* connect_and_run returns an error; the task sleeps and starts over.      *)
Fail ==
  /\ hub' = [hub EXCEPT !.pc = "backoff"]
  /\ Push(<<Conn("Disconnected", hub.gen)>>)

(* A variant of AckTimeout that asks once too often.                       *)
AckTimeoutOnceMore ==
  /\ hub.pc = "ack" /\ faults < MaxFaults /\ faults' = faults + 1
  /\ IF hub.tries < AckRetries
       THEN /\ hub' = [hub EXCEPT !.pc = "send", !.tries = AckRetries]
            /\ UNCHANGED <<events, wire, streams, asked>>
       ELSE Fail /\ Closed
  /\ UNCHANGED <<plan, cmds, now>>

(* subscribe_ack_timeout_ms: ask again under a new guid, or give up.       *)
AckTimeout ==
  /\ hub.pc = "ack" /\ faults < MaxFaults /\ faults' = faults + 1
  /\ IF hub.tries + 1 < AckRetries
       THEN /\ hub' = [hub EXCEPT !.pc = "send", !.tries = @ + 1]
            /\ UNCHANGED <<events, wire, streams, asked>>
       ELSE Fail /\ Closed
  /\ UNCHANGED <<plan, cmds, now>>

(* No token, a failed connect, a socket error, a ping or idle timeout.     *)
SocketError ==
  /\ hub.pc \in {"connect", "send", "ack", "run"}
  /\ faults < MaxFaults /\ faults' = faults + 1
  /\ Fail /\ Closed
  /\ UNCHANGED <<plan, cmds, now>>

(* Close frame or end of stream in the select loop: Ok(()), and with it    *)
(* the end of the task.                                                    *)
End == hub' = [hub EXCEPT !.pc = "ended"] /\ Closed
SocketClosed ==
  /\ hub.pc = "run" /\ faults < MaxFaults /\ faults' = faults + 1
  /\ End /\ UNCHANGED <<plan, cmds, events, now>>

(* A variant of Backoff that gives up after the first connection.          *)
BackoffOnce ==
  /\ hub.pc = "backoff" /\ hub.gen < 1
  /\ hub' = [hub EXCEPT !.pc = "start"]
  /\ UNCHANGED <<plan, cmds, events, wire, streams, asked, now, faults>>

Backoff ==
  /\ hub.pc = "backoff"
  /\ hub' = [hub EXCEPT !.pc = "start"]
  /\ UNCHANGED <<plan, cmds, events, wire, streams, asked, now, faults>>

(* cmd_rx is read in the select loop only.                                 *)
Resubscribe ==
  /\ hub.pc = "run" /\ cmds # <<>> /\ Head(cmds).cmd = "Resubscribe"
  /\ hub' = Subscribing(Head(cmds).from)
  /\ Push(<<Subscribed(Origin), Stats(hub')>>)
  /\ cmds' = Tail(cmds)
  /\ UNCHANGED <<plan, wire, streams, asked, now, faults>>
Reconnect ==
  /\ hub.pc = "run" /\ cmds # <<>> /\ Head(cmds).cmd = "Reconnect"
  /\ Fail /\ Closed
  /\ cmds' = Tail(cmds)
  /\ UNCHANGED <<plan, now, faults>>
Shutdown ==
  /\ hub.pc = "run" /\ cmds # <<>> /\ Head(cmds).cmd = "Shutdown"
  /\ End
  /\ cmds' = Tail(cmds)
  /\ UNCHANGED <<plan, events, now, faults>>

HubStep ==
  \/ Announce \/ Connect \/ Send \/ ReadAck \/ ReadMessage \/ Backoff
  \/ Resubscribe \/ Reconnect \/ Shutdown
HubFault == AckTimeout \/ SocketError \/ SocketClosed

---------------------------------------------------------------------------
(* The broker.  History bars come one by one after the acceptance, up to   *)
(* the bar being formed; later every new bar comes on every stream.        *)
Message(g, what, t) == [guid |-> g, what |-> what, t |-> t]
History(g) ==
  IF hub.skip THEN <<>>
  ELSE [k \in 1..(now + 1 - hub.from) |-> Message(g, "bar", hub.from + k - 1)]
Accept ==
  /\ asked # <<>>
  /\ LET g == asked[1] IN
       /\ wire' = wire \o <<Message(g, "ok", 0)>>
                       \o (IF g[1] \in Bars THEN History(g) ELSE <<>>)
       /\ streams' = IF g[1] \in Bars THEN streams \cup {g} ELSE streams
  /\ asked' = <<>>
  /\ UNCHANGED <<hub, plan, cmds, events, now, faults>>
Refuse ==
  /\ asked # <<>> /\ faults < MaxFaults /\ faults' = faults + 1
  /\ wire' = Append(wire, Message(asked[1], "refused", 0))
  /\ asked' = <<>>
  /\ UNCHANGED <<hub, plan, cmds, events, streams, now>>
(* A message without a guid that says that the token is no longer good.    *)
AuthError ==
  /\ hub.pc = "run" /\ faults < MaxFaults /\ faults' = faults + 1
  /\ wire' = Append(wire, Message(<<>>, "auth", 0))
  /\ UNCHANGED <<hub, plan, cmds, events, streams, asked, now>>
NewBar ==
  /\ now < MaxNow /\ now' = now + 1
  /\ wire' = wire \o SetToSeq({Message(g, "bar", now + 1) : g \in streams})
  /\ UNCHANGED <<hub, plan, cmds, events, streams, asked, faults>>

Broker == Accept \/ Refuse \/ AuthError \/ NewBar

---------------------------------------------------------------------------
Guids == (1..Len(Feeds)) \X Nat
Stages == {"start", "connect", "send", "ack", "run", "backoff", "ended"}
Hubs ==
  [pc : Stages, gen : Nat, i : 0..Len(Feeds), n : Nat, tries : 0..(AckRetries - 1),
   desired : SUBSET Guids, active : SUBSET Guids, from : 0..MaxNow, skip : BOOLEAN,
   wallclock : 0..MaxNow]
Plans == [mode : {"Cold", "Warm"}, from : 0..MaxNow]
Commands == [cmd : {"Resubscribe", "Reconnect", "Shutdown"}, from : 0..MaxNow]
Messages ==
  [guid : Bars \X Nat, what : {"bar"}, t : 1..MaxNow] \cup
  [guid : Guids, what : {"ok", "refused"}, t : {0}] \cup
  [guid : {<<>>}, what : {"auth"}, t : {0}]
Origins == {"Live", "History", "HistoryGap"}
Events ==
  [kind : {"conn"}, what : {"Reconnecting", "Connected", "Disconnected"}, gen : Nat] \cup
  [kind : {"subscribed"}, origin : Origins, wallclock : 0..MaxNow, gen : Nat] \cup
  [kind : {"ack"}, feed : ToSet(Feeds), gen : Nat] \cup
  [kind : {"raw"}, msg : Messages, gen : Nat, wallclock : 0..MaxNow] \cup
  [kind : {"stats"}, desired : 0..Len(Feeds), active : 0..Len(Feeds), gen : Nat]

HubTypeOK ==
  /\ hub \in Hubs /\ plan \in Plans /\ cmds \in Seq(Commands)
  /\ events \in Seq(Events) /\ Len(events) <= EventRoom
  /\ wire \in Seq(Messages) /\ asked \in Seq(Guids) /\ Len(asked) <= 1
  /\ hub.desired \cup hub.active \cup streams \subseteq (1..Len(Feeds)) \X (1..hub.n)
  /\ now \in 1..MaxNow /\ faults \in 0..MaxFaults
=============================================================================
