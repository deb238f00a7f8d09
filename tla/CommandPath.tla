----------------------------- MODULE CommandPath -----------------------------
(***************************************************************************)
(* The path of an order command through the gateway: the commands stream   *)
(* and its consumer group in Redis (transport_redis.rs), the command loop  *)
(* with its idempotency store (services/command_consumer.rs), the broker   *)
(* behind the control WebSocket, and the acks stream.                      *)
(*                                                                         *)
(* Each await of the loop is a place where another process may act, where  *)
(* the Redis call may fail (which ends the loop: every call is followed by *)
(* `?`) and where the process may die.  Stream entries are named by their  *)
(* position in the stream, broker orders by their position in effects.     *)
(***************************************************************************)
EXTENDS Idempotency, FiniteSets

CONSTANTS
  Consumers,     \* gateway processes reading in the same consumer group
  Cancels,       \* requests whose action is Cancel; the others place orders
  CancelTarget,  \* the broker order a cancel names
  Invalid,       \* requests whose payload fails the step and sign checks
  Undecodable,   \* requests whose stream entry does not parse
  Hardened,      \* requests sent over the long-lived socket under a policy
  Deadline,      \* instant at which the command's ttl_ms ends
  NoDeadline,    \* for commands without ttl_ms
  ClaimIdle,     \* claim_idle_ms, in ticks
  MaxMsgs,       \* bound: commands published
  MaxTime,       \* bound: clock
  MaxDeaths,     \* bound: process deaths
  MaxFailures    \* bound: failed Redis calls

ASSUME RequestSetsAssumption ==
  /\ Cancels \subseteq Requests
  /\ CancelTarget \in [Cancels -> Nat]
  /\ Invalid \subseteq Requests
  /\ Undecodable \subseteq Requests
  /\ Hardened \subseteq Requests \ Cancels
  /\ NoDeadline \notin Nat
  /\ Deadline \in [Requests -> Nat \cup {NoDeadline}]
ASSUME BoundsAssumption ==
  /\ ClaimIdle \in Nat
  /\ MaxMsgs \in Nat
  /\ MaxTime \in Nat
  /\ MaxDeaths \in Nat
  /\ MaxFailures \in Nat

VARIABLES
  stream,     \* cmd.orders: the requests published so far
  cursor,     \* last entry delivered to the consumer group
  pending,    \* entries delivered and not XACKed
  since,      \* instant of an entry's last delivery
  acks,       \* cmd.acks
  pc,         \* where each command loop stands
  msg,        \* the entry a loop is working on
  answer,     \* the acknowledgement it is about to publish
  store,      \* its InMemoryIdempotency
  reqMap,     \* its process's request_map: broker order -> request
  life,       \* how many times its process was started
  sends,      \* requests written to the control socket, in order
  sendOf,     \* the send a loop is waiting on
  reply,      \* the response read from the socket for it
  effects,    \* what the broker did: orders placed and cancels carried out
  now,
  deaths,
  failures

redis == <<stream, cursor, pending, since, acks>>
loop == <<pc, msg, answer, store, reqMap, life>>
broker == <<sends, sendOf, reply, effects>>
env == <<now, deaths, failures>>
vars == <<redis, loop, broker, env>>

Msgs == 1 .. MaxMsgs
Stages == {"down", "idle", "received", "admitted", "sent", "answering", "acking", "stopped"}
Statuses == {"Accepted", "Rejected", "Expired", "Duplicate", "Error"}
NoReply == [kind |-> "none", order |-> 0]
NoAnswer == [status |-> "Error", order |-> 0]
NoOrders == [o \in {} |-> 0]

(* HealthState.gateway_phase, event_sink_degraded and scheduler_state,     *)
(* reduced to the three cases validate_command tells apart.  Other tasks   *)
(* write them at any time, so a command may find any of the three.         *)
Gates == {"not_ready", "window_closed", "open"}

Init ==
  /\ stream = << >>
  /\ cursor = 0
  /\ pending = {}
  /\ since = [i \in Msgs |-> 0]
  /\ acks = << >>
  /\ pc = [c \in Consumers |-> "idle"]
  /\ msg = [c \in Consumers |-> 0]
  /\ answer = [c \in Consumers |-> NoAnswer]
  /\ store = [c \in Consumers |-> EmptyStore]
  /\ reqMap = [c \in Consumers |-> NoOrders]
  /\ life = [c \in Consumers |-> 1]
  /\ sends = << >>
  /\ sendOf = [c \in Consumers |-> 0]
  /\ reply = [c \in Consumers |-> NoReply]
  /\ effects = << >>
  /\ now = 0
  /\ deaths = 0
  /\ failures = 0

-----------------------------------------------------------------------------
(* The decisions of the loop.                                              *)

(* validate_command: the phase and the sink first, then the trading        *)
(* window, from which cancels are exempt, then the payload.                *)
Passes(r, gate) ==
  /\ gate # "not_ready"
  /\ gate = "open" \/ r \in Cancels
  /\ r \notin Invalid

Expired(r) == Deadline[r] # NoDeadline /\ now > Deadline[r]

(* Variants of StatusOf: a response without http code counts as a refusal, *)
(* or as a success.                                                        *)
StatusOfAsRefusal(kind) ==
  IF kind = "ok" THEN "Accepted" ELSE "Rejected"

StatusOfAsSuccess(kind) ==
  IF kind = "refused" THEN "Rejected" ELSE "Accepted"

(* http 200, another http code, a response without http code.              *)
StatusOf(kind) ==
  CASE kind = "ok" -> "Accepted"
    [] kind = "refused" -> "Rejected"
    [] kind = "garbled" -> "Error"

(* Variant of InsertOrder: only a known order is updated.                  *)
InsertOrderKnownOnly(m, o, r) == [k \in DOMAIN m |-> IF k = o THEN r ELSE m[k]]

InsertOrder(m, o, r) == [k \in DOMAIN m \cup {o} |-> IF k = o THEN r ELSE m[k]]

(* Variant of Claimable: only new entries are read.                        *)
ClaimableNever == {}

(* XAUTOCLAIM from 0-0 with COUNT 1: the oldest entry idle for ClaimIdle;  *)
(* only when there is none does XREADGROUP take the next new entry.        *)
Claimable == {i \in pending : now - since[i] >= ClaimIdle}

NextEntry(i) ==
  IF Claimable # {}
    THEN i \in Claimable /\ \A j \in Claimable : i <= j
    ELSE cursor < Len(stream) /\ i = cursor + 1

Request(c) == stream[msg[c]]

-----------------------------------------------------------------------------
(* Runtimes publish commands; request ids are derived from the strategy,   *)
(* the symbol, the action and the event time, so a runtime that replays an *)
(* event publishes the same id again.                                      *)
Publish(r) ==
  /\ Len(stream) < MaxMsgs
  /\ stream' = Append(stream, r)
  /\ UNCHANGED <<cursor, pending, since, acks, loop, broker, env>>

(* Variant of HandOver: new entries are read without moving the group's    *)
(* cursor (an id other than ">").                                          *)
HandOverAgain(i) ==
  /\ NextEntry(i)
  /\ pending' = pending \cup {i}
  /\ since' = [since EXCEPT ![i] = now]
  /\ cursor' = cursor
  /\ UNCHANGED <<stream, acks>>

(* The consumer group hands entry i to consumer c.                         *)
HandOver(i) ==
  /\ NextEntry(i)
  /\ pending' = pending \cup {i}
  /\ since' = [since EXCEPT ![i] = now]
  /\ cursor' = IF i > cursor THEN i ELSE cursor
  /\ UNCHANGED <<stream, acks>>

Receive(c) ==
  /\ pc[c] = "idle"
  /\ \E i \in Msgs :
       /\ HandOver(i)
       /\ stream[i] \notin Undecodable
       /\ msg' = [msg EXCEPT ![c] = i]
  /\ pc' = [pc EXCEPT ![c] = "received"]
  /\ UNCHANGED <<answer, store, reqMap, life, broker, env>>

(* The reply of XAUTOCLAIM or XREADGROUP is lost: the entry is pending but *)
(* next_command returned an error, and the loop polls again.               *)
LoseDelivery(c) ==
  /\ pc[c] = "idle"
  /\ failures < MaxFailures
  /\ failures' = failures + 1
  /\ \E i \in Msgs : HandOver(i)
  /\ UNCHANGED <<loop, broker, now, deaths>>

(* handle_payload diverts an undecodable entry to the dead letter stream   *)
(* and XACKs it; failures of the two calls are logged or ignored.          *)
DivertUndecodable(c) ==
  /\ pc[c] = "idle"
  /\ \E i \in Msgs :
       /\ NextEntry(i)
       /\ stream[i] \in Undecodable
       /\ since' = [since EXCEPT ![i] = now]
       /\ cursor' = IF i > cursor THEN i ELSE cursor
       /\ \/ pending' = pending \ {i} /\ UNCHANGED failures
          \/ /\ failures < MaxFailures
             /\ failures' = failures + 1
             /\ pending' = pending \cup {i}
  /\ UNCHANGED <<stream, acks, loop, broker, now, deaths>>

(* From here to the next Redis or socket call the loop runs without an     *)
(* await: check_and_set, validate_command, is_command_expired and, for a   *)
(* cancel, the early entry in request_map.                                 *)
Consult(c) ==
  /\ pc[c] = "received"
  /\ store' = [store EXCEPT ![c] = CheckAndSet(@, Request(c), now)]
  /\ UNCHANGED <<redis, msg, life, broker, env>>

Fresh(c) == IsFresh(store[c], Request(c), now)

PrepareAnswer(c, status, order) ==
  /\ answer' = [answer EXCEPT ![c] = [status |-> status, order |-> order]]
  /\ pc' = [pc EXCEPT ![c] = "answering"]

AnswerDuplicate(c) ==
  /\ Consult(c)
  /\ ~ Fresh(c)
  /\ PrepareAnswer(c, "Duplicate", 0)
  /\ UNCHANGED reqMap

AnswerInvalid(c) ==
  /\ Consult(c)
  /\ Fresh(c)
  /\ \E g \in Gates : ~ Passes(Request(c), g)
  /\ PrepareAnswer(c, "Rejected", 0)
  /\ UNCHANGED reqMap

AnswerExpired(c) ==
  /\ Consult(c)
  /\ Fresh(c)
  /\ \E g \in Gates : Passes(Request(c), g)
  /\ Expired(Request(c))
  /\ PrepareAnswer(c, "Expired", 0)
  /\ UNCHANGED reqMap

Admit(c) ==
  /\ Consult(c)
  /\ Fresh(c)
  /\ \E g \in Gates : Passes(Request(c), g)
  /\ ~ Expired(Request(c))
  /\ reqMap' = IF Request(c) \in Cancels
                 THEN [reqMap EXCEPT ![c] = InsertOrder(@, CancelTarget[Request(c)], Request(c))]
                 ELSE reqMap
  /\ pc' = [pc EXCEPT ![c] = "admitted"]
  /\ UNCHANGED answer

(* The long-lived control path could not be made fresh, or the send window *)
(* after its recycling is over: the command is answered and not sent.      *)
AnswerStalePath(c) ==
  /\ pc[c] = "admitted"
  /\ Request(c) \in Hardened
  /\ PrepareAnswer(c, "Error", 0)
  /\ UNCHANGED <<redis, msg, store, reqMap, life, broker, env>>

(* execute_command writes the request to a control socket.  The fields     *)
(* marked and after are history: when the store first saw the request in   *)
(* this delivery, and how many acknowledgements had been published.        *)
Send(c) ==
  /\ pc[c] = "admitted"
  /\ sends' = Append(sends, [req |-> Request(c), msg |-> msg[c], con |-> c,
                             life |-> life[c], state |-> "wire",
                             marked |-> store[c].entries[Request(c)],
                             after |-> Len(acks)])
  /\ sendOf' = [sendOf EXCEPT ![c] = Len(sends')]
  /\ reply' = [reply EXCEPT ![c] = NoReply]
  /\ pc' = [pc EXCEPT ![c] = "sent"]
  /\ UNCHANGED <<redis, msg, answer, store, reqMap, life, effects, env>>

-----------------------------------------------------------------------------
(* The broker (external).  A request on the wire may be lost, refused or   *)
(* carried out; its response reaches the loop only if it still waits for   *)
(* this send.  A limit order carries its request id as guid and asks the   *)
(* broker to check duplicates, a market order carries a fresh guid, so     *)
(* a repeated request may be refused, or not.  A response may lack the     *)
(* order number (order 0) or the http code (garbled).                      *)
Waits(c, n) == pc[c] = "sent" /\ sendOf[c] = n /\ reply[c] = NoReply

Settle(n, kind, order) ==
  /\ sends[n].state = "wire"
  /\ sends' = [sends EXCEPT ![n].state = "settled"]
  /\ reply' = IF Waits(sends[n].con, n)
                THEN [reply EXCEPT ![sends[n].con] = [kind |-> kind, order |-> order]]
                ELSE reply
  /\ UNCHANGED <<redis, loop, sendOf, env>>

Known(o) == o \in 1 .. Len(effects) /\ effects[o].req \notin Cancels

BrokerExecutes(n, kind) ==
  /\ LET r == sends[n].req
         o == IF r \in Cancels THEN CancelTarget[r] ELSE Len(effects) + 1
     IN  /\ r \in Cancels => Known(o)
         /\ \E shown \in (IF kind = "ok" THEN {o, 0} ELSE {0}) : Settle(n, kind, shown)
  /\ effects' = Append(effects, [req |-> sends[n].req, msg |-> sends[n].msg, send |-> n])

BrokerRefuses(n, kind) ==
  /\ Settle(n, kind, 0)
  /\ UNCHANGED effects

LoseRequest(n) ==
  /\ sends[n].state = "wire"
  /\ sends' = [sends EXCEPT ![n].state = "lost"]
  /\ UNCHANGED <<redis, loop, sendOf, reply, effects, env>>

-----------------------------------------------------------------------------
(* The response is classified; an accepted order whose number it shows is  *)
(* entered in request_map before the acknowledgement is published.         *)
Respond(c) ==
  /\ pc[c] = "sent"
  /\ reply[c] # NoReply
  /\ PrepareAnswer(c, StatusOf(reply[c].kind), reply[c].order)
  /\ reqMap' = IF StatusOf(reply[c].kind) = "Accepted" /\ reply[c].order # 0
                 THEN [reqMap EXCEPT ![c] = InsertOrder(@, reply[c].order, Request(c))]
                 ELSE reqMap
  /\ sendOf' = [sendOf EXCEPT ![c] = 0]
  /\ UNCHANGED <<redis, msg, store, life, sends, reply, effects, env>>

(* The socket fails or the response does not come in time: the loop gives  *)
(* up although the broker may have acted, or may yet act.                  *)
TransportError(c) ==
  /\ pc[c] = "sent"
  /\ reply[c] = NoReply
  /\ PrepareAnswer(c, "Error", 0)
  /\ sendOf' = [sendOf EXCEPT ![c] = 0]
  /\ UNCHANGED <<redis, msg, store, reqMap, life, sends, reply, effects, env>>

AckRecord(c) ==
  [req |-> Request(c), msg |-> msg[c], con |-> c, life |-> life[c],
   status |-> answer[c].status, order |-> answer[c].order]

PublishAck(c) ==
  /\ pc[c] = "answering"
  /\ acks' = Append(acks, AckRecord(c))
  /\ pc' = [pc EXCEPT ![c] = "acking"]
  /\ UNCHANGED <<stream, cursor, pending, since, msg, answer, store, reqMap, life, broker, env>>

Xack(c) ==
  /\ pc[c] = "acking"
  /\ pending' = pending \ {msg[c]}
  /\ pc' = [pc EXCEPT ![c] = "idle"]
  /\ UNCHANGED <<stream, cursor, since, acks, msg, answer, store, reqMap, life, broker, env>>

(* Variant of StopLoop: the loop survives the error and polls again.       *)
StopLoopNever(c) ==
  /\ failures < MaxFailures
  /\ failures' = failures + 1
  /\ pc' = [pc EXCEPT ![c] = "idle"]
  /\ UNCHANGED <<stream, cursor, since, msg, answer, store, reqMap, life, broker, now, deaths>>

(* A Redis call of the loop fails, before or after Redis applied it.  The  *)
(* error leaves run_command_consumer; the supervisor logs it and does not  *)
(* start the loop again, while the rest of the process keeps running.      *)
StopLoop(c) ==
  /\ failures < MaxFailures
  /\ failures' = failures + 1
  /\ pc' = [pc EXCEPT ![c] = "stopped"]
  /\ UNCHANGED <<stream, cursor, since, msg, answer, store, reqMap, life, broker, now, deaths>>

FailPublishAck(c) ==
  /\ pc[c] = "answering"
  /\ acks' \in {acks, Append(acks, AckRecord(c))}
  /\ StopLoop(c)
  /\ UNCHANGED pending

FailXack(c) ==
  /\ pc[c] = "acking"
  /\ pending' \in {pending, pending \ {msg[c]}}
  /\ StopLoop(c)
  /\ UNCHANGED acks

(* The process dies, at any point, and is started again with an empty      *)
(* store and an empty request_map (alor_gateway_transport_runner.rs).      *)
Die(c) ==
  /\ pc[c] # "down"
  /\ deaths < MaxDeaths
  /\ deaths' = deaths + 1
  /\ pc' = [pc EXCEPT ![c] = "down"]
  /\ sendOf' = [sendOf EXCEPT ![c] = 0]
  /\ UNCHANGED <<redis, msg, answer, store, reqMap, life, sends, reply, effects, now, failures>>

Start(c) ==
  /\ pc[c] = "down"
  /\ pc' = [pc EXCEPT ![c] = "idle"]
  /\ store' = [store EXCEPT ![c] = EmptyStore]
  /\ reqMap' = [reqMap EXCEPT ![c] = NoOrders]
  /\ life' = [life EXCEPT ![c] = @ + 1]
  /\ UNCHANGED <<redis, msg, answer, broker, env>>

Tick ==
  /\ now < MaxTime
  /\ now' = now + 1
  /\ UNCHANGED <<redis, loop, broker, deaths, failures>>

Decide(c) == AnswerDuplicate(c) \/ AnswerInvalid(c) \/ AnswerExpired(c) \/ Admit(c)

LoopStep(c) ==
  \/ Receive(c)
  \/ DivertUndecodable(c)
  \/ Decide(c)
  \/ AnswerStalePath(c)
  \/ Send(c)
  \/ Respond(c)
  \/ TransportError(c)
  \/ PublishAck(c)
  \/ Xack(c)

Fail(c) == LoseDelivery(c) \/ FailPublishAck(c) \/ FailXack(c) \/ Die(c)

BrokerStep(n) ==
  \/ \E kind \in {"ok", "garbled"} : BrokerExecutes(n, kind)
  \/ \E kind \in {"refused", "garbled"} : BrokerRefuses(n, kind)
  \/ LoseRequest(n)

Next ==
  \/ \E r \in Requests : Publish(r)
  \/ \E c \in Consumers : LoopStep(c) \/ Fail(c) \/ Start(c)
  \/ \E n \in 1 .. Len(sends) : BrokerStep(n)
  \/ Tick

Spec == Init /\ [][Next]_vars

(* The scheduler of the process runs the loop, the operator's restart      *)
(* policy starts a dead process, the clock advances.  Nothing obliges      *)
(* anything to fail, nor anyone to kill a process whose loop has stopped.  *)
Fairness ==
  /\ \A c \in Consumers : WF_vars(LoopStep(c)) /\ WF_vars(Start(c))
  /\ WF_vars(Tick)

FairSpec == Spec /\ Fairness
-----------------------------------------------------------------------------
AckRecords ==
  [req : Requests, msg : Msgs, con : Consumers, life : Nat,
   status : Statuses, order : Nat]

SendRecords ==
  [req : Requests, msg : Msgs, con : Consumers, life : Nat,
   state : {"wire", "settled", "lost"}, marked : Nat, after : Nat]

Replies == [kind : {"ok", "refused", "garbled"}, order : Nat] \cup {NoReply}

TypeOK ==
  /\ stream \in Seq(Requests) /\ Len(stream) <= MaxMsgs
  /\ cursor \in 0 .. Len(stream)
  /\ pending \subseteq 1 .. cursor
  /\ since \in [Msgs -> 0 .. now]
  /\ acks \in Seq(AckRecords)
  /\ pc \in [Consumers -> Stages]
  /\ msg \in [Consumers -> 0 .. cursor]
  /\ \A c \in Consumers : pc[c] \notin {"idle", "down"} => msg[c] # 0
  /\ answer \in [Consumers -> [status : Statuses, order : Nat]]
  /\ life \in [Consumers -> Nat]
  /\ sends \in Seq(SendRecords)
  /\ sendOf \in [Consumers -> 0 .. Len(sends)]
  /\ reply \in [Consumers -> Replies]
  /\ effects \in Seq([req : Requests, msg : Msgs, send : 1 .. Len(sends)])
  /\ now \in 0 .. MaxTime

(* The command path implements the contract: seen through this mapping,    *)
(* every step is a step of CommandContract or leaves it unchanged.  This   *)
(* is about the order publish_ack, then source.ack in every branch of      *)
(* run_command_consumer, and about which responses become Accepted.        *)
Contract == INSTANCE CommandContract WITH
  Entries   <- Msgs,
  published <- 1 .. Len(stream),
  poison    <- {i \in 1 .. Len(stream) : stream[i] \in Undecodable},
  taken     <- 1 .. cursor,
  executed  <- {effects[k].msg : k \in 1 .. Len(effects)},
  answered  <- {acks[k].msg : k \in 1 .. Len(acks)},
  accepted  <- {acks[k].msg : k \in {j \in 1 .. Len(acks) : acks[j].status = "Accepted"}},
  retired   <- (1 .. cursor) \ pending

ImplementsContract == Contract!Spec

(* One process sends the same request to the broker twice only when its    *)
(* store was entitled to forget it in between: more than Ttl after it was  *)
(* first seen, or after MaxEntries other commands were handled.            *)
HandledBetween(a, b) ==
  {k \in sends[a].after + 1 .. sends[b].after :
     /\ acks[k].con = sends[a].con
     /\ acks[k].life = sends[a].life
     /\ acks[k].status # "Duplicate"
     /\ acks[k].req # sends[a].req}

SentAgainOnlyWhenForgotten ==
  \A a, b \in 1 .. Len(sends) :
    (/\ a < b
     /\ sends[a].req = sends[b].req
     /\ sends[a].con = sends[b].con
     /\ sends[a].life = sends[b].life)
      => \/ sends[b].marked - sends[a].marked > Ttl
         \/ Cardinality(HandledBetween(a, b)) >= MaxEntries

(* A Duplicate acknowledgement is never the only word on a request: the    *)
(* process that says Duplicate has published a real answer for the same    *)
(* request before.  Strategies count Duplicate as a successful ack.        *)
DuplicateFollowsAnswer ==
  \A k \in 1 .. Len(acks) :
    acks[k].status = "Duplicate" =>
      \E j \in 1 .. k - 1 : /\ acks[j].req = acks[k].req
                            /\ acks[j].con = acks[k].con
                            /\ acks[j].life = acks[k].life
                            /\ acks[j].status # "Duplicate"

(* When a process answers Rejected or Expired, no request it sent for this *)
(* entry in this life has been or will be carried out by the broker, so    *)
(* the strategy may drop its pending state.  (An Error answer says nothing *)
(* of the kind.)                                                           *)
NegativeAnswerHasNoEffect ==
  \A k \in 1 .. Len(acks) :
    acks[k].status \in {"Rejected", "Expired"} =>
      \A n \in 1 .. Len(sends) :
        (/\ sends[n].msg = acks[k].msg
         /\ sends[n].con = acks[k].con
         /\ sends[n].life = acks[k].life)
          => /\ sends[n].state # "wire"
             /\ \A e \in 1 .. Len(effects) : effects[e].send # n

(* By the time an Accepted acknowledgement that names an order is out, the *)
(* events of that order can be given a request id: request_map holds it,   *)
(* under the accepted request or under a cancel that names the order.      *)
AcceptedOrderIsMapped ==
  \A k \in 1 .. Len(acks) :
    LET a == acks[k] IN
    (a.status = "Accepted" /\ a.order # 0 /\ a.life = life[a.con]) =>
      /\ a.order \in DOMAIN reqMap[a.con]
      /\ LET q == reqMap[a.con][a.order]
         IN  q = a.req \/ (q \in Cancels /\ CancelTarget[q] = a.order)

(* Every command that can be decoded is eventually answered, also when the *)
(* process dies over it, unless a failed Redis call stopped the loop: the  *)
(* supervisor does not start it again.                                     *)
Awaited(i) == i <= Len(stream) /\ stream[i] \notin Undecodable
Answered(i) == \E k \in 1 .. Len(acks) : acks[k].msg = i
Stopped == \E c \in Consumers : pc[c] = "stopped"

EveryCommandAnswered == \A i \in Msgs : Awaited(i) ~> (Answered(i) \/ Stopped)

(* The stronger promise of the migration audit: a request id produces at   *)
(* most one broker effect.                                                 *)
NoDuplicateEffect ==
  \A a, b \in 1 .. Len(effects) :
    (a # b /\ effects[a].req \notin Cancels) => effects[a].req # effects[b].req
=============================================================================
