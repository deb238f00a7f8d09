----------------------------- MODULE ControlPath -----------------------------
(***************************************************************************)
(* How a command reaches the broker: the command consumer's admission of a *)
(* limit order (services/command_consumer.rs), the task that owns the      *)
(* control WebSocket (cws_client.rs) with its command channel and pending  *)
(* requests, and the connection opened for one action only                 *)
(* (action_scope_cws.rs).                                                  *)
(*                                                                         *)
(* The consumer and the session task share the health record.  A path      *)
(* without a recent control success is stale: the consumer has it recycled *)
(* and waits for a new connection.  There is no clock: an age passes its   *)
(* threshold, and a wait its limit, at any moment.  The threshold is not 0 *)
(* (0 switches the check off).  The flag `readiness` of the gateway is     *)
(* left to the caller: a poll that finds it down only waits on.            *)
(***************************************************************************)
EXTENDS Integers, SequencesExt

CONSTANTS
  Commands,     \* commands that passed validation, each handled once
  Class,        \* entry, exit or other (market, cancel, stop orders)
  Scoped,       \* classes executed on a connection of their own
  Admitted,     \* classes with control_path_pre_*_recycle_enabled
  LogOnly,      \* control_path_hardening_log_only
  Capacity,     \* of cmd_tx; the code has 256
  MaxConns      \* bound: connections of the session task

Classes == {"entry", "exit", "other"}
Answers == {"accepted", "rejected", "cws_error", "recycle_failed"}

ASSUME ControlPathAssumption ==
  /\ Class \in [Commands -> Classes]
  /\ Scoped \subseteq Classes
  /\ Admitted \subseteq {"entry", "exit"}
  /\ LogOnly \in BOOLEAN
  /\ Capacity \in Nat \ {0}
  /\ MaxConns \in Nat
  /\ "none" \notin Commands

VARIABLES
  session,      \* the session task: its connection and pending requests
  queue,        \* cmd_tx: the channel from the consumer to the session
  health,       \* the fields of HealthState the two tasks share
  consumer,     \* where run_command_consumer stands
  reply,        \* the oneshot channel of the command it waits for
  answer,       \* history: the acknowledgement of a command
  wire          \* history: connections a command was written to

vars == <<session, queue, health, consumer, reply, answer, wire>>

None == "none"
Idle == [at |-> "idle", cmd |-> None, conn |-> 0]
SendOf(c) == [kind |-> "send", cmd |-> c]
Recycle == [kind |-> "recycle", cmd |-> None]
HasRoom == Len(queue) < Capacity

Init ==
  /\ session = [st |-> "down", conn |-> 0, pending |-> {}]
  /\ queue = <<>>
  /\ health = [authorized |-> FALSE, conn |-> 0, armed |-> None,
               success |-> None, tx |-> None]
  /\ consumer = Idle /\ reply = None
  /\ answer = [c \in Commands |-> None]
  /\ wire = [c \in Commands |-> <<>>]

(* evaluate_control_path_stale: the connection is judged by its last       *)
(* control success, which survives a reconnection, and its last send.      *)
Stale(h) == h.success = "old" \/ h.tx = "old"

(* mark_cws_unauthorized, which also disarms the exit.                     *)
Unauthorized(h) == [h EXCEPT !.authorized = FALSE, !.armed = None]

-----------------------------------------------------------------------------
(* The session task.                                                       *)

(* run_session up to the authorize frame.                                  *)
Connect ==
  /\ session.st = "down" /\ session.conn < MaxConns
  /\ session' = [session EXCEPT !.st = "authorizing", !.conn = @ + 1]
  /\ health' = [Unauthorized(health) EXCEPT !.conn = session'.conn, !.tx = "fresh"]
  /\ UNCHANGED <<queue, consumer, reply, answer, wire>>

Authorize ==
  /\ session.st = "authorizing"
  /\ session' = [session EXCEPT !.st = "ready"]
  /\ health' = [health EXCEPT !.authorized = TRUE]
  /\ UNCHANGED <<queue, consumer, reply, answer, wire>>

(* The waiting end of a request that is gone or answered.                  *)
Resolve(cs, result) ==
  reply' = IF consumer.at = "reply" /\ consumer.cmd \in cs THEN result ELSE reply

(* A variant of Lose that saves the pending requests for the next session. *)
LoseAndRetry(pending) ==
  /\ session' = [session EXCEPT !.st = "down", !.pending = {}]
  /\ health' = Unauthorized(health)
  /\ queue' = [k \in 1..Cardinality(pending) |-> SendOf(SetToSeq(pending)[k])] \o queue
  /\ Resolve({}, "cws_error")

(* The connection is over; every pending request fails.                    *)
Lose(pending) ==
  /\ session' = [session EXCEPT !.st = "down", !.pending = {}]
  /\ health' = Unauthorized(health)
  /\ UNCHANGED queue
  /\ Resolve(pending, "cws_error")

(* A close frame, an error of the socket, or a refused authorization.      *)
Disconnect ==
  /\ session.st # "down"
  /\ Lose(session.pending)
  /\ UNCHANGED <<consumer, answer, wire>>

WriteTo(c) == wire' = [wire EXCEPT ![c] = Append(@, session.conn)]

(* SessionCommand::Send.  A request is pending before it is written.       *)
ServeSend ==
  /\ session.st = "ready" /\ queue # <<>> /\ Head(queue).kind = "send"
  /\ LET c == Head(queue).cmd
     IN  /\ queue' = Tail(queue)
         /\ session' = [session EXCEPT !.pending = @ \cup {c}]
         /\ health' = [health EXCEPT !.tx = "fresh"]
         /\ WriteTo(c)
  /\ UNCHANGED <<consumer, reply, answer>>

(* The write fails: the broker may have the frame all the same.            *)
SendFails ==
  /\ session.st = "ready" /\ queue # <<>> /\ Head(queue).kind = "send"
  /\ LET c == Head(queue).cmd
     IN  /\ session' = [session EXCEPT !.st = "down", !.pending = {}]
         /\ health' = [Unauthorized(health) EXCEPT !.tx = "fresh"]
         /\ queue' = Tail(queue)
         /\ Resolve(session.pending \cup {c}, "cws_error")
         /\ WriteTo(c) \/ UNCHANGED wire
  /\ UNCHANGED <<consumer, answer>>

(* SessionCommand::Recycle, whoever asked for it and whenever: the pending *)
(* requests are dropped with their channels.                               *)
ServeRecycle ==
  /\ session.st = "ready" /\ queue # <<>> /\ Head(queue).kind = "recycle"
  /\ queue' = Tail(queue)
  /\ session' = [session EXCEPT !.st = "down", !.pending = {}]
  /\ health' = Unauthorized(health)
  /\ Resolve(session.pending, "cws_error")
  /\ UNCHANGED <<consumer, answer, wire>>

(* The broker's response: httpCode 200, another code, or none.             *)
Response(c) ==
  /\ session.st = "ready" /\ c \in session.pending
  /\ session' = [session EXCEPT !.pending = @ \ {c}]
  /\ \E result \in {"accepted", "rejected", "cws_error"} :
       /\ health' = [health EXCEPT !.success = IF result = "accepted" THEN "fresh" ELSE @]
       /\ Resolve({c}, result)
  /\ UNCHANGED <<queue, consumer, answer, wire>>

(* Time passes: control_path_stale_after_sec.                              *)
Age ==
  /\ \/ health.success = "fresh" /\ health' = [health EXCEPT !.success = "old"]
     \/ health.tx = "fresh" /\ health' = [health EXCEPT !.tx = "old"]
  /\ UNCHANGED <<session, queue, consumer, reply, answer, wire>>

-----------------------------------------------------------------------------
(* The command consumer, which handles one command at a time.              *)

Goto(at) == consumer' = [consumer EXCEPT !.at = at]

AnswerWith(result) ==
  /\ answer' = [answer EXCEPT ![consumer.cmd] = result]
  /\ consumer' = Idle /\ reply' = None

(* execution_path_for_command and control_path_hardening_policy.           *)
Take(c) ==
  /\ consumer = Idle /\ answer[c] = None
  /\ consumer' = [Idle EXCEPT !.cmd = c,
                  !.at = IF Class[c] \in Scoped THEN "open"
                         ELSE IF Class[c] \in Admitted THEN "detect" ELSE "send"]
  /\ UNCHANGED <<session, queue, health, reply, answer, wire>>

(* The first evaluation, before the lock of the recycling is taken.        *)
Detect ==
  /\ consumer.at = "detect"
  /\ Goto(IF Stale(health) /\ ~ LogOnly THEN "recheck" ELSE "send")
  /\ UNCHANGED <<session, queue, health, reply, answer, wire>>

(* The second evaluation, under the lock: the connection to be replaced is *)
(* the one seen now, whatever happens before the request is handed over.   *)
Recheck ==
  /\ consumer.at = "recheck"
  /\ IF Stale(health)
     THEN consumer' = [consumer EXCEPT !.at = "request", !.conn = health.conn]
     ELSE Goto("send")
  /\ UNCHANGED <<session, queue, health, reply, answer, wire>>

(* The request goes through the channel of the commands.  Handing it over  *)
(* waits for room, and nothing limits that wait.                           *)
RequestRecycle ==
  /\ consumer.at = "request" /\ HasRoom
  /\ queue' = Append(queue, Recycle)
  /\ Goto("recycle")
  /\ UNCHANGED <<session, health, reply, answer, wire>>

(* A new connection is seen to be authorized: an entry also needs a path   *)
(* that is not stale any more, an exit is to be armed for one send.        *)
NewConnection ==
  /\ consumer.at = "recycle"
  /\ health.authorized /\ health.conn # consumer.conn
  /\ \/ /\ Class[consumer.cmd] = "exit"
        /\ consumer' = [consumer EXCEPT !.at = "arm", !.conn = health.conn]
     \/ /\ Class[consumer.cmd] = "entry" /\ ~ Stale(health)
        /\ Goto("send")
  /\ UNCHANGED <<session, queue, health, reply, answer, wire>>

(* The health record was unlocked after it was read: the connection may be *)
(* gone by now, and the exit is armed all the same.                        *)
Arm ==
  /\ consumer.at = "arm"
  /\ health' = [health EXCEPT !.armed = consumer.cmd]
  /\ Goto("begin")
  /\ UNCHANGED <<session, queue, reply, answer, wire>>

(* A variant of RecycleTimesOut that waits for as long as it takes.        *)
RecycleNeverTimesOut ==
  /\ consumer.at = "recycle" /\ health.authorized /\ health.conn # consumer.conn
  /\ AnswerWith("recycle_failed")
  /\ UNCHANGED <<session, queue, health, wire>>

(* control_path_recycle_timeout, or the longer one of an exit.             *)
RecycleTimesOut ==
  /\ consumer.at = "recycle"
  /\ AnswerWith("recycle_failed")
  /\ UNCHANGED <<session, queue, health, wire>>

(* A variant of BeginExitSend that leaves the slot armed when it refuses.  *)
BeginLeavingArmed ==
  /\ consumer.at = "begin"
  /\ \/ /\ health.armed = consumer.cmd /\ Goto("send")
        /\ health' = [health EXCEPT !.armed = None]
        /\ UNCHANGED <<reply, answer>>
     \/ AnswerWith("recycle_failed") /\ UNCHANGED health
  /\ UNCHANGED <<session, queue, wire>>

(* begin_post_recycle_exit_send: refused when a disconnect has disarmed    *)
(* the exit, or when the window of the send is over.                       *)
BeginExitSend ==
  /\ consumer.at = "begin"
  /\ health' = [health EXCEPT !.armed = None]
  /\ \/ /\ health.armed = consumer.cmd /\ Goto("send")
        /\ UNCHANGED <<reply, answer>>
     \/ AnswerWith("recycle_failed")
  /\ UNCHANGED <<session, queue, wire>>

(* CwsHandle::send_command.  The five seconds begin when the command is in *)
(* the channel: until then it waits for room, for as long as it takes.     *)
SendCommand ==
  /\ consumer.at = "send" /\ HasRoom
  /\ queue' = Append(queue, SendOf(consumer.cmd))
  /\ Goto("reply")
  /\ UNCHANGED <<session, health, reply, answer, wire>>

GetReply ==
  /\ consumer.at = "reply" /\ reply # None
  /\ AnswerWith(reply)
  /\ UNCHANGED <<session, queue, health, wire>>

(* A variant of GiveUp that tells the strategy the order was refused.      *)
GiveUpRejecting ==
  /\ consumer.at = "reply" /\ reply = None
  /\ AnswerWith("rejected")
  /\ UNCHANGED <<session, queue, health, wire>>

(* Five seconds without a response.  The command is left where it is, in   *)
(* the channel or among the pending requests.                              *)
GiveUp ==
  /\ consumer.at = "reply" /\ reply = None
  /\ AnswerWith("cws_error")
  /\ UNCHANGED <<session, queue, health, wire>>

(* open_session: the connection is opened and authorized, or it is not and *)
(* nothing was written.  Opening it and the answer to its authorization    *)
(* have a limit; the token request and the write of the authorization have *)
(* none, and may never return.                                             *)
OpenScope ==
  /\ consumer.at = "open"
  /\ \/ Goto("scope") /\ UNCHANGED <<reply, answer>>
     \/ AnswerWith("cws_error")
  /\ UNCHANGED <<session, queue, health, wire>>

(* send_and_await_response, then close_session: no other request uses the  *)
(* connection, written down as connection 0.  A success is not recorded    *)
(* where the staleness of the long-lived path looks for it.  The answer is *)
(* awaited for a limited time, the write is not.                           *)
ScopedSend ==
  /\ consumer.at = "scope"
  /\ \E result \in {"accepted", "rejected", "cws_error"} :
       /\ AnswerWith(result)
       /\ \/ wire' = [wire EXCEPT ![consumer.cmd] = Append(@, 0)]
          \/ result = "cws_error" /\ UNCHANGED wire
  /\ UNCHANGED <<session, queue, health>>

(* The consumer on the long-lived path.                                    *)
LongLivedStep ==
  \/ Detect \/ Recheck \/ RequestRecycle \/ NewConnection \/ Arm \/ RecycleTimesOut
  \/ BeginExitSend \/ SendCommand \/ GetReply \/ GiveUp

ConsumerStep == LongLivedStep \/ OpenScope \/ ScopedSend

SessionStep ==
  \/ Connect \/ Authorize \/ Disconnect \/ ServeSend \/ SendFails \/ ServeRecycle
  \/ \E c \in Commands : Response(c)

Next == (\E c \in Commands : Take(c)) \/ ConsumerStep \/ SessionStep \/ Age

Spec == Init /\ [][Next]_vars

(* The consumer goes on where it may: what it computes, what it awaits for *)
(* a limited time, and the channel when there is room.  Nothing is assumed *)
(* of the session task, which may be stuck in a write or a token request   *)
(* itself, nor of the connection opened for one action.                    *)
FairSpec ==
  /\ Spec
  /\ WF_vars(LongLivedStep)
  /\ \A c \in Commands : WF_vars(Take(c))

-----------------------------------------------------------------------------
Conns == 0..MaxConns
Places == {"idle", "detect", "recheck", "request", "recycle", "arm", "begin", "send", "reply", "open", "scope"}

(* Every variable keeps to its values; an armed exit is the command at     *)
(* hand, so that no exit finds the slot armed for another one.             *)
TypeOK ==
  /\ session \in [st : {"down", "authorizing", "ready"}, conn : Conns,
                  pending : SUBSET Commands]
  /\ queue \in Seq({Recycle} \cup {SendOf(c) : c \in Commands})
  /\ Len(queue) <= Capacity
  /\ health \in [authorized : BOOLEAN, conn : Conns, armed : Commands \cup {None},
                 success : {None, "fresh", "old"}, tx : {None, "fresh", "old"}]
  /\ consumer \in [at : Places, cmd : Commands \cup {None}, conn : Conns]
  /\ reply \in {None, "accepted", "rejected", "cws_error"}
  /\ answer \in [Commands -> Answers \cup {None}]
  /\ wire \in [Commands -> Seq(Conns)]
  /\ health.armed # None => consumer.at = "begin" /\ consumer.cmd = health.armed

(* A command is written to the broker at most once, whatever is recycled,  *)
(* lost or reconnected in between: the gateway never sends by itself what  *)
(* it has already sent.                                                    *)
(* An admission refused is an order that is never written at all.          *)
WrittenOnce ==
  \A c \in Commands :
    Len(wire[c]) <= IF answer[c] = "recycle_failed" THEN 0 ELSE 1

(* Which answers are final: once a command was refused by the admission,   *)
(* rejected or accepted, nothing of it is written later, and so the        *)
(* strategy's retry of an exit whose recycling failed cannot double it.    *)
(* After cws_error alone the command may still be in the channel, and then *)
(* the next connection writes it; on a connection of its own, never.       *)
OnlyGivenUpIsWrittenLate ==
  [][\A c \in Commands :
       wire'[c] # wire[c] =>
         \/ answer[c] = None
         \/ answer[c] = "cws_error" /\ Class[c] \notin Scoped]_vars

(* The waits that nothing limits: for room in a full channel, and on a     *)
(* connection of its own.                                                  *)
HeldUp ==
  \/ consumer.at \in {"request", "send"} /\ ~ HasRoom
  \/ consumer.at \in {"open", "scope"}

(* A session task that never returns does not stop the consumer by itself: *)
(* the wait for a new connection and the wait for an answer are given up,  *)
(* and command after command is answered.  The consumer stands still for   *)
(* ever only in front of a channel that what it gave up has filled and     *)
(* that nobody empties any more, or in a call on a connection of its own;  *)
(* when the session takes one message out, it goes on.                     *)
AnsweredUnlessHeldUp ==
  (\A c \in Commands : <>(answer[c] # None)) \/ <>[]HeldUp
=============================================================================
