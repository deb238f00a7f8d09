--------------------------- MODULE EventPublisher ---------------------------
(***************************************************************************)
(* What the gateway tells the runtime: source tasks of the supervisor      *)
(* publish every order, stop order and position event and then hand it to  *)
(* the manager of its kind; the health reporter publishes the health and   *)
(* snapshots of the managers; one publisher task writes all of it, message *)
(* by message, to Redis streams and tries each until it succeeds.          *)
(*   alor-gateway/src/services/event_publisher.rs, health_reporter.rs,     *)
(*   state/{orders,stop_orders,positions}_manager.rs, supervisor.rs        *)
(*                                                                         *)
(* A message is known by its place in accepted, the order in which the     *)
(* queue took the messages.  The broker and Redis are the environment: a   *)
(* write can fail or time out, and be applied all the same.                 *)
(***************************************************************************)
EXTENDS Naturals, Sequences, FiniteSets, SequencesExt

CONSTANTS
  Kinds,        \* "order", "stop_order", "position", in the order of the snapshots
  Ids,          \* order ids, stop order ids and symbols
  QueueRoom,    \* config: queue_capacity
  MailRoom,     \* capacity of the channel to a manager
  MaxEvents,    \* bound: events of the broker
  MaxTs,        \* bound: timestamps of events
  MaxTicks,     \* bound: ticks of the reporter
  MaxFaults     \* bound: writes that fail

ASSUME KindsAssumption ==
  /\ Kinds \in Seq({"order", "stop_order", "position"}) /\ Kinds # <<>>
  /\ IsInjective(Kinds)
ASSUME RoomAssumption == QueueRoom \in Nat \ {0} /\ MailRoom \in Nat \ {0}
ASSUME PublisherBoundsAssumption ==
  /\ MaxEvents \in Nat /\ MaxTs \in Nat /\ MaxTicks \in Nat /\ MaxFaults \in Nat

KindSet == Range(Kinds)
None == [n |-> 0, ts |-> 0]                        \* no event of this id yet

VARIABLES
  arrived,     \* per kind, the events the router passed on to the source task
  hand,        \* per kind, the source task: its step and how many events it took
  mail,        \* per kind, the channel to the manager
  store,       \* per kind and id, the event the manager holds
  reporter,    \* a snapshot that waits for room in the queue
  ticks,       \* ticks of the reporter so far
  accepted,    \* all messages the queue ever took
  queue,       \* those not taken out yet, as places in accepted
  publisher,   \* the publisher task
  written,     \* the places in accepted of what the streams hold
  degraded,    \* health: event_sink_degraded
  shutdown,    \* the watch channel of the supervisor
  faults       \* writes that failed so far

sourceVars == <<arrived, hand, mail, store>>
reporterVars == <<reporter, ticks>>
queueVars == <<accepted, queue>>
writerVars == <<publisher, degraded, written, faults>>
vars == <<sourceVars, reporterVars, queueVars, writerVars, shutdown>>

Total == Cardinality({e \in KindSet \X (1..MaxEvents) : e[2] <= Len(arrived[e[1]])})

Init ==
  /\ arrived = [k \in KindSet |-> <<>>]
  /\ hand = [k \in KindSet |-> [step |-> "recv", got |-> 0]]
  /\ mail = [k \in KindSet |-> <<>>]
  /\ store = [k \in KindSet |-> [id \in Ids |-> None]]
  /\ reporter = <<>> /\ ticks = 0
  /\ accepted = <<>> /\ queue = <<>>
  /\ publisher = [pc |-> "select", draining |-> FALSE, msg |-> 0]
  /\ written = {} /\ faults = 0
  /\ degraded = FALSE
  /\ shutdown = FALSE

Closed == publisher.pc = "ended"

(* A variant of Enqueue with room for one message too many.                *)
EnqueueOneMore(m) ==
  /\ ~Closed /\ Len(queue) <= QueueRoom
  /\ accepted' = Append(accepted, m)
  /\ queue' = Append(queue, Len(accepted) + 1)

(* The queue takes a message.                                              *)
Enqueue(m) ==
  /\ ~Closed /\ Len(queue) < QueueRoom
  /\ accepted' = Append(accepted, m)
  /\ queue' = Append(queue, Len(accepted) + 1)

(* A variant of PublishCritical that is not woken up when the queue closes.*)
PublishCriticalBlocked(m) == Enqueue(m)

(* A variant of PublishCritical that does not wait for room.               *)
PublishCriticalLossy(m) ==
  Enqueue(m) \/ ((Closed \/ Len(queue) = QueueRoom) /\ UNCHANGED queueVars)

(* publish_critical waits for room; a closed queue drops the message.      *)
PublishCritical(m) == Enqueue(m) \/ (Closed /\ UNCHANGED queueVars)

(* publish_lossy drops the message also when there is no room.             *)
PublishLossy(m) == Enqueue(m) \/ ((Closed \/ Len(queue) = QueueRoom) /\ UNCHANGED queueVars)

(***************************************************************************)
(* Sources and managers                                                    *)
(***************************************************************************)
(* The broker's event of kind k may carry an older timestamp than the last *)
(* one; that it has none (0) matters to the stop orders manager only.      *)
Arrive(k) ==
  /\ Total < MaxEvents
  /\ \E id \in Ids, ts \in (IF k = "stop_order" THEN 0 ELSE 1)..MaxTs :
       arrived' = [arrived EXCEPT ![k] = Append(@, [id |-> id, n |-> Len(@) + 1, ts |-> ts])]
  /\ UNCHANGED <<hand, mail, store, reporterVars, queueVars, writerVars, shutdown>>

(* A source task takes the next event, waits until the queue took it, and  *)
(* only then hands it to the manager.                                      *)
Publish(k) ==
  /\ hand[k].step = "recv" /\ hand[k].got < Len(arrived[k])
  /\ hand' = [hand EXCEPT ![k] = [step |-> "hand", got |-> @.got + 1]]
  /\ PublishCritical([kind |-> k, event |-> arrived[k][hand[k].got + 1]])
  /\ UNCHANGED <<arrived, mail, store, reporterVars, writerVars, shutdown>>

HandOver(k) ==
  /\ hand[k].step = "hand" /\ Len(mail[k]) < MailRoom
  /\ mail' = [mail EXCEPT ![k] = Append(@, arrived[k][hand[k].got])]
  /\ hand' = [hand EXCEPT ![k].step = "recv"]
  /\ UNCHANGED <<arrived, store, reporterVars, queueVars, writerVars, shutdown>>

(* A variant of Replaces that keeps whatever comes last.                   *)
ReplacesAlways(k, old, new) == TRUE

(* The stop orders manager keeps the event with the newest timestamp, the  *)
(* other two keep the last event they received, an older one as well.      *)
Replaces(k, old, new) ==
  k = "stop_order" => old = None \/ old.ts = 0 \/ (new.ts > 0 /\ new.ts >= old.ts)

Manage(k) ==
  /\ mail[k] # <<>>
  /\ LET e == Head(mail[k]) IN
       store' = [store EXCEPT ![k][e.id] = IF Replaces(k, @, e) THEN [n |-> e.n, ts |-> e.ts] ELSE @]
  /\ mail' = [mail EXCEPT ![k] = Tail(@)]
  /\ UNCHANGED <<arrived, hand, reporterVars, queueVars, writerVars, shutdown>>

(***************************************************************************)
(* run_health_reporter; after the shutdown there may be no more ticks      *)
(***************************************************************************)
SnapshotOf(k) == [kind |-> "snapshot", of |-> k, view |-> store[k]]

HealthTick ==
  /\ reporter = <<>> /\ ticks < MaxTicks
  /\ ticks' = ticks + 1
  /\ PublishLossy([kind |-> "health"])
  /\ UNCHANGED <<sourceVars, reporter, writerVars, shutdown>>

(* The snapshot is taken before the wait for room.                         *)
SnapshotTick ==
  /\ reporter = <<>> /\ ticks < MaxTicks
  /\ ticks' = ticks + 1
  /\ reporter' = <<SnapshotOf(Kinds[1])>>
  /\ UNCHANGED <<sourceVars, queueVars, writerVars, shutdown>>

(* Once a snapshot is in the queue the next manager's is taken.            *)
SendSnapshot ==
  /\ reporter # <<>>
  /\ PublishCritical(Head(reporter))
  /\ LET i == CHOOSE j \in DOMAIN Kinds : Kinds[j] = Head(reporter).of IN
       reporter' = IF i = Len(Kinds) THEN <<>> ELSE <<SnapshotOf(Kinds[i + 1])>>
  /\ UNCHANGED <<sourceVars, ticks, writerVars, shutdown>>

(***************************************************************************)
(* run_event_publisher                                                     *)
(***************************************************************************)
TakeMessage ==
  /\ publisher.pc = "select" /\ queue # <<>>
  /\ publisher' = [publisher EXCEPT !.pc = "write", !.msg = Head(queue)]
  /\ queue' = Tail(queue)
  /\ UNCHANGED <<sourceVars, reporterVars, accepted, degraded, written, faults, shutdown>>

(* The shutdown is seen between two messages only; what is queued then is  *)
(* drained for as long as the deadline allows.                             *)
SeeShutdown ==
  /\ publisher.pc = "select" /\ shutdown /\ ~publisher.draining
  /\ publisher' = [publisher EXCEPT !.draining = TRUE]
  /\ UNCHANGED <<sourceVars, reporterVars, queueVars, degraded, written, faults, shutdown>>

EndPublisher ==
  /\ publisher.pc = "select" /\ publisher.draining
  /\ publisher' = [publisher EXCEPT !.pc = "ended"]
  /\ UNCHANGED <<sourceVars, reporterVars, queueVars, degraded, written, faults, shutdown>>

(* publish_with_retry: one attempt, an XADD on a new connection.           *)
Write ==
  /\ publisher.pc = "write"
  /\ written' = written \union {publisher.msg}
  /\ degraded' = FALSE
  /\ publisher' = [publisher EXCEPT !.pc = "select", !.msg = 0]
  /\ UNCHANGED <<sourceVars, reporterVars, queueVars, faults, shutdown>>

(* A variant of WriteFails that gives the message up after a failure.      *)
WriteFailsOnce ==
  /\ publisher.pc = "write" /\ faults < MaxFaults
  /\ faults' = faults + 1
  /\ degraded' = TRUE
  /\ publisher' = [publisher EXCEPT !.pc = "select", !.msg = 0]
  /\ UNCHANGED <<sourceVars, reporterVars, queueVars, written, shutdown>>

(* An attempt that failed or timed out is repeated after a pause; its      *)
(* write may be applied all the same (that it may be applied again, after  *)
(* the next attempt or later, written does not tell).                      *)
WriteFails ==
  /\ publisher.pc = "write" /\ faults < MaxFaults
  /\ faults' = faults + 1
  /\ degraded' = TRUE
  /\ written' \in {written, written \union {publisher.msg}}
  /\ UNCHANGED <<sourceVars, reporterVars, queueVars, publisher, shutdown>>

Shutdown ==
  /\ ~shutdown /\ shutdown' = TRUE
  /\ UNCHANGED <<sourceVars, reporterVars, queueVars, writerVars>>

Reporter == HealthTick \/ SnapshotTick \/ SendSnapshot
Publisher == TakeMessage \/ SeeShutdown \/ EndPublisher \/ Write \/ WriteFails

Next ==
  \/ \E k \in KindSet : Arrive(k) \/ Publish(k) \/ HandOver(k) \/ Manage(k)
  \/ Reporter \/ Publisher \/ Shutdown

Spec == Init /\ [][Next]_vars

(* Tasks run, the queue serves its waiting senders in turn, and Redis does *)
(* not fail for ever (MaxFaults).  No fairness of arrivals, ticks, failing *)
(* writes, the shutdown, nor of the end of a drain.                        *)
Fairness ==
  /\ \A k \in KindSet : /\ WF_vars(HandOver(k)) /\ WF_vars(Manage(k))
                        /\ SF_vars(Publish(k))
  /\ SF_vars(SendSnapshot) /\ WF_vars(TakeMessage) /\ WF_vars(Write)

FairSpec == Spec /\ Fairness

(***************************************************************************)
(* Properties                                                              *)
(***************************************************************************)
Views == [n : 0..MaxEvents, ts : 0..MaxTs]
Event == [id : Ids, n : 1..MaxEvents, ts : 0..MaxTs]
Message == [kind : KindSet, event : Event]
           \union [kind : {"snapshot"}, of : KindSet, view : [Ids -> Views]]
           \union [kind : {"health"}]

(* Every variable has its type; no channel holds more than it has room     *)
(* for, and the publisher has a message exactly while it writes.           *)
TypeOK ==
  /\ arrived \in [KindSet -> Seq(Event)]
  /\ hand \in [KindSet -> [step : {"recv", "hand"}, got : 0..MaxEvents]]
  /\ mail \in [KindSet -> Seq(Event)] /\ \A k \in KindSet : Len(mail[k]) <= MailRoom
  /\ store \in [KindSet -> [Ids -> Views]]
  /\ reporter \in BoundedSeq([kind : {"snapshot"}, of : KindSet, view : [Ids -> Views]], 1)
  /\ ticks \in 0..MaxTicks
  /\ accepted \in Seq(Message)
  /\ queue \in Seq(DOMAIN accepted) /\ Len(queue) <= QueueRoom
  /\ publisher \in [pc : {"select", "write", "ended"}, draining : BOOLEAN, msg : 0..Len(accepted)]
  /\ publisher.msg > 0 <=> publisher.pc = "write"
  /\ written \subseteq DOMAIN accepted
  /\ degraded \in BOOLEAN
  /\ shutdown \in BOOLEAN /\ faults \in 0..MaxFaults

(* How many of the first i messages are events of kind k.                  *)
Rank(k, i) == Cardinality({j \in 1..i : accepted[j].kind = k})

(* Each stream gets the events of its kind in the order they came, none    *)
(* left out, through failures, timeouts and the drain at the shutdown: the *)
(* queue takes them in that order, and whatever is written for the first   *)
(* time comes right after what was written before it.                      *)
StreamsKeepOrder ==
  /\ \E n \in 0..Len(accepted) : written = 1..n
  /\ \A k \in KindSet : \A i \in DOMAIN accepted :
       accepted[i].kind = k =>
         /\ Rank(k, i) \in DOMAIN arrived[k]
         /\ accepted[i].event = arrived[k][Rank(k, i)]

(* Snapshots never go back: what one snapshot shows of an order, a stop    *)
(* order or a position, later ones show as it was or by an event that came *)
(* after it, and a stop order never with an older timestamp.  (An order or *)
(* a position does get an older timestamp when its events come late.)      *)
SnapshotsMoveForward ==
  \A i, j \in DOMAIN accepted :
    /\ i < j
    /\ accepted[i].kind = "snapshot" /\ accepted[j].kind = "snapshot"
    /\ accepted[i].of = accepted[j].of
    => \A id \in Ids : LET old == accepted[i].view[id]
                           new == accepted[j].view[id]
                       IN /\ old.n <= new.n
                          /\ accepted[i].of = "stop_order" => old.ts <= new.ts

(* Every event is written to its stream in the end, unless the gateway     *)
(* shuts down.                                                             *)
EveryEventIsWritten ==
  <>[](\/ shutdown
       \/ \A k \in KindSet : \A n \in DOMAIN arrived[k] :
            \E m \in written : accepted[m].kind = k /\ accepted[m].event.n = n)

(* Managers catch up with the broker whatever becomes of the publisher: a  *)
(* source task that waits for room in the queue of a publisher that ends   *)
(* is released and hands its event over.                                   *)
ManagersCatchUp ==
  <>[](\A k \in KindSet \ {"stop_order"} : \A n \in DOMAIN arrived[k] :
         store[k][arrived[k][n].id].n >= n)
=============================================================================
