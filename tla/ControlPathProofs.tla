-------------------------- MODULE ControlPathProofs --------------------------
(***************************************************************************)
(* A command is written to the broker at most once, and after its answer   *)
(* only when the consumer gave it up, for any commands, any policy of the  *)
(* admission, any capacity of the channel and any number of connections.   *)
(***************************************************************************)
EXTENDS ControlPath, SequenceTheorems, TLAPS

Messages == {Recycle} \cup {SendOf(c) : c \in Commands}

(* Command c waits in a channel.                                           *)
In(q, c) == \E k \in 1 .. Len(q) : q[k] = SendOf(c)

(* No command waits twice in a channel.                                    *)
Once(q) ==
  \A i, j \in 1 .. Len(q) : q[i] = q[j] /\ q[i].kind = "send" => i = j

(* The places on the way over the long-lived connection.                   *)
LongLived == {"detect", "recheck", "request", "recycle", "arm", "begin", "send", "reply"}

(* The command at hand has no answer yet.                                  *)
ConsumerRight ==
  /\ consumer.at = "idle" => consumer = Idle
  /\ consumer.at # "idle" => consumer.cmd \in Commands /\ answer[consumer.cmd] = None
  /\ consumer.at \in LongLived => Class[consumer.cmd] \notin Scoped
  /\ reply # None => consumer.at = "reply" /\ ~ In(queue, consumer.cmd)

(* What is in the channel was not written, and is awaited or given up;     *)
(* what was written is awaited or answered.                                *)
CommandRight(c) ==
  /\ Len(wire[c]) <= 1
  /\ c \in session.pending => wire[c] # << >>
  /\ In(queue, c) => wire[c] = << >> /\ Class[c] \notin Scoped
  /\ In(queue, c) => \/ answer[c] = "cws_error"
                     \/ consumer.at = "reply" /\ consumer.cmd = c
  /\ wire[c] # << >> => answer[c] # None \/ (consumer.at = "reply" /\ consumer.cmd = c)
  /\ answer[c] = "recycle_failed" => wire[c] = << >>

IInv ==
  /\ TypeOK
  /\ Once(queue)
  /\ ConsumerRight
  /\ \A c \in Commands : CommandRight(c)

-----------------------------------------------------------------------------
(* The channel.                                                            *)

LEMMA MessageKinds ==
  /\ Recycle.kind = "recycle"
  /\ \A c : SendOf(c).kind = "send" /\ SendOf(c).cmd = c
  BY DEF Recycle, SendOf

(* The session task takes the first message out.                           *)
LEMMA PopQueue ==
  ASSUME NEW q \in Seq(Messages), q # << >>, Once(q)
  PROVE  /\ Tail(q) \in Seq(Messages) /\ Len(Tail(q)) <= Len(q)
         /\ Head(q) \in Messages
         /\ Once(Tail(q))
         /\ \A c : In(Tail(q), c) => In(q, c)
         /\ \A c : Head(q) = SendOf(c) => In(q, c) /\ ~ In(Tail(q), c)
<1>1. /\ Tail(q) \in Seq(Messages) /\ Head(q) = q[1] /\ Head(q) \in Messages
      /\ Len(Tail(q)) = Len(q) - 1 /\ Len(q) \in Nat \ {0}
      /\ \A k \in 1 .. Len(q) - 1 : Tail(q)[k] = q[k + 1]
  OBVIOUS
<1>2. Once(Tail(q))
  <2> SUFFICES ASSUME NEW i \in 1 .. Len(q) - 1, NEW j \in 1 .. Len(q) - 1,
                      Tail(q)[i] = Tail(q)[j], Tail(q)[i].kind = "send"
               PROVE  i = j
    BY <1>1 DEF Once
  <2>1. q[i + 1] = q[j + 1] /\ q[i + 1].kind = "send" /\ i + 1 \in 1 .. Len(q) /\ j + 1 \in 1 .. Len(q)
    BY <1>1
  <2>2. i + 1 = j + 1
    BY <2>1 DEF Once
  <2> QED
    BY <2>2
<1>3. ASSUME NEW c, In(Tail(q), c)
      PROVE  In(q, c) /\ Head(q) # SendOf(c)
  <2>1. PICK k \in 1 .. Len(q) - 1 : q[k + 1] = SendOf(c)
    BY <1>1, <1>3 DEF In
  <2>2. k + 1 \in 1 .. Len(q) /\ 1 \in 1 .. Len(q) /\ k + 1 # 1
    BY <1>1
  <2>3. q[1] # SendOf(c)
    BY <2>1, <2>2, MessageKinds DEF Once
  <2> QED
    BY <1>1, <2>1, <2>2, <2>3 DEF In
<1>4. ASSUME NEW c, Head(q) = SendOf(c)
      PROVE  In(q, c)
  BY <1>1, <1>4 DEF In
<1> QED
  BY <1>1, <1>2, <1>3, <1>4

(* The consumer appends a message.                                         *)
LEMMA PushQueue ==
  ASSUME NEW q \in Seq(Messages), Once(q), NEW m \in Messages,
         \A c : m = SendOf(c) => ~ In(q, c)
  PROVE  /\ Append(q, m) \in Seq(Messages) /\ Len(Append(q, m)) = Len(q) + 1
         /\ Once(Append(q, m))
         /\ \A c : In(Append(q, m), c) <=> In(q, c) \/ m = SendOf(c)
<1>1. /\ Append(q, m) \in Seq(Messages) /\ Len(Append(q, m)) = Len(q) + 1 /\ Len(q) \in Nat
      /\ \A k \in 1 .. Len(q) : Append(q, m)[k] = q[k]
      /\ Append(q, m)[Len(q) + 1] = m
  OBVIOUS
<1>2. m.kind = "send" => \E c : m = SendOf(c)
  BY MessageKinds DEF Messages
<1>3. \A k \in 1 .. Len(q) : m.kind = "send" => q[k] # m
  BY <1>2 DEF In
<1>4. \A k : k \in 1 .. Len(q) + 1 <=> k \in 1 .. Len(q) \/ k = Len(q) + 1
  BY <1>1
<1>5. Once(Append(q, m))
  BY <1>1, <1>3, <1>4 DEF Once
<1>6. \A c : In(Append(q, m), c) <=> In(q, c) \/ m = SendOf(c)
  BY <1>1, <1>4 DEF In
<1> QED
  BY <1>1, <1>5, <1>6

(* A command is written for the first time.                                *)
LEMMA WriteOnce ==
  ASSUME TypeOK, NEW c \in Commands, wire[c] = << >>, WriteTo(c)
  PROVE  /\ wire' \in [Commands -> Seq(Conns)]
         /\ Len(wire'[c]) = 1 /\ wire'[c] # << >>
         /\ \A d \in Commands : d # c => wire'[d] = wire[d]
<1>1. session.conn \in Conns /\ wire \in [Commands -> Seq(Conns)]
  BY DEF TypeOK
<1>2. wire'[c] = Append(wire[c], session.conn)
  BY <1>1 DEF WriteTo
<1>3. Append(wire[c], session.conn) \in Seq(Conns) /\ Len(Append(wire[c], session.conn)) = 1
  BY <1>1
<1> QED
  BY <1>1, <1>2, <1>3 DEF WriteTo
-----------------------------------------------------------------------------
(* The session task.                                                       *)

(* A new connection.                                                       *)
LEMMA ConnectKeeps ==
  ASSUME IInv, Connect
  PROVE  IInv'
<1>1. TypeOK'
  <2>1. session.conn + 1 \in Conns
    BY ControlPathAssumption DEF IInv, TypeOK, Conns, Connect
  <2>2. /\ session' = [session EXCEPT !.st = "authorizing", !.conn = session.conn + 1]
        /\ health' = [health EXCEPT !.authorized = FALSE, !.armed = None,
                                    !.conn = session.conn + 1, !.tx = "fresh"]
    BY DEF IInv, TypeOK, Connect, Unauthorized
  <2> QED
    BY <2>1, <2>2 DEF IInv, TypeOK, Connect
<1>2. Once(queue)'
  BY SMT DEF IInv, Connect, Unauthorized
<1>3. ConsumerRight'
  BY DEF IInv, TypeOK, ConsumerRight, LongLived, In, Connect, Unauthorized
<1>4. ASSUME NEW c \in Commands PROVE CommandRight(c)'
  BY DEF IInv, TypeOK, CommandRight, None, In, Connect, Unauthorized
<1> QED
  BY <1>1, <1>2, <1>3, <1>4 DEF IInv

(* Its authorization.                                                      *)
LEMMA AuthorizeKeeps ==
  ASSUME IInv, Authorize
  PROVE  IInv'
<1>1. TypeOK'
  BY DEF IInv, TypeOK, Authorize
<1>2. Once(queue)'
  BY SMT DEF IInv, Authorize
<1>3. ConsumerRight'
  BY DEF IInv, TypeOK, ConsumerRight, LongLived, In, Authorize
<1>4. ASSUME NEW c \in Commands PROVE CommandRight(c)'
  BY DEF IInv, TypeOK, CommandRight, None, In, Authorize
<1> QED
  BY <1>1, <1>2, <1>3, <1>4 DEF IInv

(* Time passes.                                                            *)
LEMMA AgeKeeps ==
  ASSUME IInv, Age
  PROVE  IInv'
<1>1. TypeOK'
  BY DEF IInv, TypeOK, Age
<1>2. Once(queue)'
  BY SMT DEF IInv, Age
<1>3. ConsumerRight'
  BY DEF IInv, TypeOK, ConsumerRight, LongLived, In, Age
<1>4. ASSUME NEW c \in Commands PROVE CommandRight(c)'
  BY DEF IInv, TypeOK, CommandRight, None, In, Age
<1> QED
  BY <1>1, <1>2, <1>3, <1>4 DEF IInv

-----------------------------------------------------------------------------
(* The consumer.                                                           *)

(* An answer leaves the consumer idle.                                     *)
LEMMA AnswerTypes ==
  ASSUME TypeOK, NEW result \in Answers, AnswerWith(result)
  PROVE  /\ consumer' \in [at : Places, cmd : Commands \cup {None}, conn : Conns]
         /\ consumer' = Idle
         /\ reply' \in {None, "accepted", "rejected", "cws_error"}
         /\ answer' \in [Commands -> Answers \cup {None}]
<1>1. 0 \in Conns
  BY ControlPathAssumption DEF Conns
<1> QED
  BY <1>1 DEF TypeOK, AnswerWith, Idle, Places

(* The next command is at hand.                                            *)
LEMMA TakeKeeps ==
  ASSUME IInv, NEW d \in Commands, Take(d)
  PROVE  IInv'
<1>1. TypeOK'
  BY ControlPathAssumption DEF IInv, TypeOK, Conns, Places, Idle, Take
<1>2. Once(queue)'
  BY SMT DEF IInv, Take
<1>3. ConsumerRight'
  BY DEF IInv, TypeOK, ConsumerRight, LongLived, Idle, In, Take
<1>4. ASSUME NEW c \in Commands PROVE CommandRight(c)'
  BY DEF IInv, TypeOK, ConsumerRight, CommandRight, None, Idle, In, Take
<1> QED
  BY <1>1, <1>2, <1>3, <1>4 DEF IInv

(* The first evaluation of the path.                                       *)
LEMMA DetectKeeps ==
  ASSUME IInv, Detect
  PROVE  IInv'
<1>1. TypeOK'
  BY DEF IInv, TypeOK, Places, Detect, Goto
<1>2. Once(queue)'
  BY SMT DEF IInv, Detect, Goto
<1>3. ConsumerRight'
  BY DEF IInv, TypeOK, ConsumerRight, LongLived, In, Detect, Goto
<1>4. ASSUME NEW c \in Commands PROVE CommandRight(c)'
  BY DEF IInv, TypeOK, CommandRight, None, In, Detect, Goto
<1> QED
  BY <1>1, <1>2, <1>3, <1>4 DEF IInv

(* The recycling has succeeded.                                            *)
LEMMA NewConnectionKeeps ==
  ASSUME IInv, NewConnection
  PROVE  IInv'
<1>1. TypeOK'
  BY DEF IInv, TypeOK, Places, NewConnection, Goto
<1>2. Once(queue)'
  BY SMT DEF IInv, NewConnection, Goto
<1>3. ConsumerRight'
  BY DEF IInv, TypeOK, ConsumerRight, LongLived, In, NewConnection, Goto
<1>4. ASSUME NEW c \in Commands PROVE CommandRight(c)'
  BY DEF IInv, TypeOK, CommandRight, None, In, NewConnection, Goto
<1> QED
  BY <1>1, <1>2, <1>3, <1>4 DEF IInv

(* The exit is armed.                                                      *)
LEMMA ArmKeeps ==
  ASSUME IInv, Arm
  PROVE  IInv'
<1>1. TypeOK'
  BY DEF IInv, TypeOK, Places, Arm, Goto
<1>2. Once(queue)'
  BY SMT DEF IInv, Arm, Goto
<1>3. ConsumerRight'
  BY DEF IInv, TypeOK, ConsumerRight, LongLived, In, Arm, Goto
<1>4. ASSUME NEW c \in Commands PROVE CommandRight(c)'
  BY DEF IInv, TypeOK, CommandRight, None, In, Arm, Goto
<1> QED
  BY <1>1, <1>2, <1>3, <1>4 DEF IInv

(* The recycling has failed.                                               *)
LEMMA RecycleTimesOutKeeps ==
  ASSUME IInv, RecycleTimesOut
  PROVE  IInv'
<1>1. TypeOK'
  BY AnswerTypes DEF IInv, TypeOK, Answers, RecycleTimesOut
<1>2. Once(queue)'
  BY SMT DEF IInv, RecycleTimesOut, AnswerWith
<1>3. ConsumerRight'
  BY DEF IInv, TypeOK, ConsumerRight, LongLived, Idle, In, RecycleTimesOut, AnswerWith
<1>4. ASSUME NEW c \in Commands PROVE CommandRight(c)'
  BY DEF IInv, TypeOK, ConsumerRight, CommandRight, None, Idle, In, RecycleTimesOut, AnswerWith
<1> QED
  BY <1>1, <1>2, <1>3, <1>4 DEF IInv

(* The armed exit is let through, or refused.                              *)
LEMMA BeginExitSendKeeps ==
  ASSUME IInv, BeginExitSend
  PROVE  IInv'
<1>1. TypeOK'
  <2>1. health' \in [authorized : BOOLEAN, conn : Conns, armed : {None},
                     success : {None, "fresh", "old"}, tx : {None, "fresh", "old"}]
    BY DEF IInv, TypeOK, BeginExitSend
  <2>2. CASE Goto("send") /\ UNCHANGED <<reply, answer>>
    BY <2>1, <2>2 DEF IInv, TypeOK, Places, BeginExitSend, Goto
  <2>3. CASE AnswerWith("recycle_failed")
    BY <2>1, <2>3, AnswerTypes DEF IInv, TypeOK, Answers, BeginExitSend
  <2> QED
    BY <2>2, <2>3 DEF BeginExitSend
<1>2. Once(queue)'
  BY SMT DEF IInv, BeginExitSend, AnswerWith, Goto
<1>3. ConsumerRight'
  <2>1. CASE Goto("send") /\ UNCHANGED <<reply, answer>>
    BY <2>1 DEF IInv, TypeOK, ConsumerRight, LongLived, BeginExitSend, Goto, In
  <2>2. CASE AnswerWith("recycle_failed")
    BY <2>2 DEF IInv, ConsumerRight, LongLived, Idle, BeginExitSend, AnswerWith
  <2> QED
    BY <2>1, <2>2 DEF BeginExitSend
<1>4. ASSUME NEW c \in Commands PROVE CommandRight(c)'
  BY DEF IInv, TypeOK, ConsumerRight, CommandRight, None, Idle, In, BeginExitSend, AnswerWith, Goto
<1> QED
  BY <1>1, <1>2, <1>3, <1>4 DEF IInv

(* The awaited result has come.                                            *)
LEMMA GetReplyKeeps ==
  ASSUME IInv, GetReply
  PROVE  IInv'
<1>1. TypeOK'
  BY AnswerTypes DEF IInv, TypeOK, Answers, GetReply
<1>2. Once(queue)'
  BY SMT DEF IInv, GetReply, AnswerWith
<1>3. ConsumerRight'
  BY DEF IInv, TypeOK, ConsumerRight, LongLived, Idle, In, GetReply, AnswerWith
<1>4. ASSUME NEW c \in Commands PROVE CommandRight(c)'
  BY DEF IInv, TypeOK, ConsumerRight, CommandRight, None, Idle, In, GetReply, AnswerWith
<1> QED
  BY <1>1, <1>2, <1>3, <1>4 DEF IInv

(* The consumer waits no longer.                                           *)
LEMMA GiveUpKeeps ==
  ASSUME IInv, GiveUp
  PROVE  IInv'
<1>1. TypeOK'
  BY AnswerTypes DEF IInv, TypeOK, Answers, GiveUp
<1>2. Once(queue)'
  BY SMT DEF IInv, GiveUp, AnswerWith
<1>3. ConsumerRight'
  BY DEF IInv, TypeOK, ConsumerRight, LongLived, Idle, In, GiveUp, AnswerWith
<1>4. ASSUME NEW c \in Commands PROVE CommandRight(c)'
  BY DEF IInv, TypeOK, ConsumerRight, CommandRight, None, Idle, In, GiveUp, AnswerWith
<1> QED
  BY <1>1, <1>2, <1>3, <1>4 DEF IInv

(* A connection for one action is opened.                                  *)
LEMMA OpenScopeKeeps ==
  ASSUME IInv, OpenScope
  PROVE  IInv'
<1>1. TypeOK'
  <2>1. CASE Goto("scope") /\ UNCHANGED <<reply, answer>>
    BY <2>1 DEF IInv, TypeOK, Places, OpenScope, Goto
  <2>2. CASE AnswerWith("cws_error")
    BY <2>2, AnswerTypes DEF IInv, TypeOK, Answers, OpenScope
  <2> QED
    BY <2>1, <2>2 DEF OpenScope
<1>2. Once(queue)'
  BY SMT DEF IInv, OpenScope, AnswerWith, Goto
<1>3. ConsumerRight'
  BY DEF IInv, TypeOK, ConsumerRight, LongLived, Idle, In, OpenScope, AnswerWith, Goto
<1>4. ASSUME NEW c \in Commands PROVE CommandRight(c)'
  BY DEF IInv, TypeOK, ConsumerRight, CommandRight, None, Idle, In, OpenScope, AnswerWith, Goto
<1> QED
  BY <1>1, <1>2, <1>3, <1>4 DEF IInv

-----------------------------------------------------------------------------
(* The steps that use the channel or the wire.                             *)

(* The connection is lost: whoever waited for a pending request is told.   *)
LEMMA DisconnectKeeps ==
  ASSUME IInv, Disconnect
  PROVE  IInv'
<1>1. TypeOK'
  BY DEF IInv, TypeOK, Disconnect, Lose, Resolve, Unauthorized
<1>2. Once(queue)'
  BY SMT DEF IInv, Disconnect, Lose
<1>3. ConsumerRight'
  BY DEF IInv, TypeOK, ConsumerRight, CommandRight, LongLived, In, Disconnect, Lose, Resolve
<1>4. ASSUME NEW c \in Commands PROVE CommandRight(c)'
  BY DEF IInv, TypeOK, CommandRight, In, Disconnect, Lose
<1> QED
  BY <1>1, <1>2, <1>3, <1>4 DEF IInv

(* What the first message of the channel tells of its command.             *)
LEMMA HeadIsUnwritten ==
  ASSUME IInv, queue # << >>, Head(queue).kind = "send"
  PROVE  /\ Head(queue).cmd \in Commands
         /\ Head(queue) = SendOf(Head(queue).cmd)
         /\ In(queue, Head(queue).cmd)
         /\ ~ In(Tail(queue), Head(queue).cmd)
         /\ wire[Head(queue).cmd] = << >>
         /\ Class[Head(queue).cmd] \notin Scoped
         /\ answer[Head(queue).cmd] # "recycle_failed"
         /\ \/ answer[Head(queue).cmd] = "cws_error"
            \/ /\ consumer.at = "reply" /\ consumer.cmd = Head(queue).cmd
               /\ answer[Head(queue).cmd] = None
<1>1. queue \in Seq(Messages) /\ Once(queue)
  BY DEF IInv, TypeOK, Messages
<1>2. Head(queue) \in Messages
  BY <1>1, PopQueue
<1>3. /\ Head(queue).cmd \in Commands
      /\ Head(queue) = SendOf(Head(queue).cmd)
  BY <1>2, MessageKinds DEF Messages
<1>4. In(queue, Head(queue).cmd) /\ ~ In(Tail(queue), Head(queue).cmd)
  BY <1>1, <1>3, PopQueue
<1> QED
  BY <1>3, <1>4 DEF IInv, ConsumerRight, CommandRight, None

(* A command is written on the long-lived connection.                      *)
LEMMA ServeSendKeeps ==
  ASSUME IInv, ServeSend
  PROVE  IInv'
<1> DEFINE d == Head(queue).cmd
<1>1. queue \in Seq(Messages) /\ Once(queue) /\ queue # << >> /\ Head(queue).kind = "send"
  BY DEF IInv, TypeOK, Messages, ServeSend
<1>2. /\ d \in Commands /\ Head(queue) = SendOf(d) /\ wire[d] = << >>
      /\ Class[d] \notin Scoped /\ answer[d] # "recycle_failed"
      /\ ~ In(Tail(queue), d)
      /\ \/ answer[d] = "cws_error"
         \/ consumer.at = "reply" /\ consumer.cmd = d /\ answer[d] = None
  BY <1>1, HeadIsUnwritten
<1>3. /\ queue' = Tail(queue)
      /\ session' = [session EXCEPT !.pending = @ \cup {d}]
      /\ health' = [health EXCEPT !.tx = "fresh"]
      /\ WriteTo(d)
      /\ UNCHANGED <<consumer, reply, answer>>
  BY DEF ServeSend
<1>4. /\ wire' \in [Commands -> Seq(Conns)]
      /\ Len(wire'[d]) = 1 /\ wire'[d] # << >>
      /\ \A e \in Commands : e # d => wire'[e] = wire[e]
  BY <1>2, <1>3, WriteOnce DEF IInv
<1>5. /\ queue' \in Seq(Messages) /\ Once(queue') /\ Len(queue') <= Capacity
      /\ \A c : In(queue', c) => In(queue, c)
  <2>1. /\ Tail(queue) \in Seq(Messages) /\ Once(Tail(queue)) /\ Len(Tail(queue)) <= Len(queue)
        /\ \A c : In(Tail(queue), c) => In(queue, c)
    BY <1>1, PopQueue
  <2>2. Len(queue) <= Capacity /\ Len(queue) \in Nat /\ Len(Tail(queue)) \in Nat
    BY <1>1, <2>1 DEF IInv, TypeOK
  <2> QED
    BY <1>3, <2>1, <2>2, ControlPathAssumption
<1>6. TypeOK'
  BY <1>2, <1>3, <1>4, <1>5 DEF IInv, TypeOK, Messages
<1>7. ConsumerRight'
  BY <1>3, <1>5 DEF IInv, ConsumerRight, LongLived
<1>8. ASSUME NEW c \in Commands PROVE CommandRight(c)'
  <2>1. CASE c = d
    BY <2>1, <1>2, <1>3, <1>4, None # "cws_error" DEF CommandRight, None
  <2>2. CASE c # d
    <3>1. c \in session'.pending => c \in session.pending
      BY <2>2, <1>3 DEF IInv, TypeOK
    <3> QED
      BY <2>2, <3>1, <1>3, <1>4, <1>5 DEF IInv, CommandRight
  <2> QED
    BY <2>1, <2>2
<1> QED
  BY <1>5, <1>6, <1>7, <1>8 DEF IInv

(* The write fails, with the frame at the broker or without.               *)
LEMMA SendFailsKeeps ==
  ASSUME IInv, SendFails
  PROVE  IInv'
<1> DEFINE d == Head(queue).cmd
<1>1. queue \in Seq(Messages) /\ Once(queue) /\ queue # << >> /\ Head(queue).kind = "send"
  BY DEF IInv, TypeOK, Messages, SendFails
<1>2. /\ d \in Commands /\ Head(queue) = SendOf(d) /\ wire[d] = << >>
      /\ Class[d] \notin Scoped /\ answer[d] # "recycle_failed"
      /\ ~ In(Tail(queue), d)
      /\ \/ answer[d] = "cws_error"
         \/ consumer.at = "reply" /\ consumer.cmd = d /\ answer[d] = None
  BY <1>1, HeadIsUnwritten
<1>3. /\ queue' = Tail(queue)
      /\ session' = [session EXCEPT !.st = "down", !.pending = {}]
      /\ health' = [Unauthorized(health) EXCEPT !.tx = "fresh"]
      /\ Resolve(session.pending \cup {d}, "cws_error")
      /\ WriteTo(d) \/ UNCHANGED wire
      /\ UNCHANGED <<consumer, answer>>
  BY DEF SendFails
<1>4. /\ wire' \in [Commands -> Seq(Conns)]
      /\ Len(wire'[d]) <= 1
      /\ \A e \in Commands : e # d => wire'[e] = wire[e]
  <2>1. CASE WriteTo(d)
    <3>1. /\ wire' \in [Commands -> Seq(Conns)] /\ Len(wire'[d]) = 1
          /\ \A e \in Commands : e # d => wire'[e] = wire[e]
      BY <2>1, <1>2, WriteOnce DEF IInv
    <3> QED
      BY <3>1
  <2>2. CASE UNCHANGED wire
    <3>1. Len(wire[d]) = 0
      BY <1>2
    <3> QED
      BY <2>2, <3>1 DEF IInv, TypeOK
  <2> QED
    BY <2>1, <2>2, <1>3
<1>5. /\ queue' \in Seq(Messages) /\ Once(queue') /\ Len(queue') <= Capacity
      /\ \A c : In(queue', c) => In(queue, c)
  <2>1. /\ Tail(queue) \in Seq(Messages) /\ Once(Tail(queue)) /\ Len(Tail(queue)) <= Len(queue)
        /\ \A c : In(Tail(queue), c) => In(queue, c)
    BY <1>1, PopQueue
  <2>2. Len(queue) <= Capacity /\ Len(queue) \in Nat /\ Len(Tail(queue)) \in Nat
    BY <1>1, <2>1 DEF IInv, TypeOK
  <2> QED
    BY <1>3, <2>1, <2>2, ControlPathAssumption
<1>6. TypeOK'
  BY <1>2, <1>3, <1>4, <1>5 DEF IInv, TypeOK, Messages, Resolve, Unauthorized
<1>7. ConsumerRight'
  <2>1. reply' # None => consumer.at = "reply" /\ ~ In(queue', consumer.cmd)
    <3>1. CASE consumer.at = "reply" /\ consumer.cmd \in session.pending \cup {d}
      BY <3>1, <1>2, <1>3, <1>5 DEF IInv, ConsumerRight, CommandRight
    <3>2. CASE ~ (consumer.at = "reply" /\ consumer.cmd \in session.pending \cup {d})
      BY <3>2, <1>3, <1>5 DEF IInv, ConsumerRight, Resolve
    <3> QED
      BY <3>1, <3>2
  <2> QED
    BY <2>1, <1>3 DEF IInv, ConsumerRight, LongLived
<1>8. ASSUME NEW c \in Commands PROVE CommandRight(c)'
  <2>0. session'.pending = {}
    BY <1>3 DEF IInv, TypeOK
  <2>1. CASE c = d
    BY <2>0, <2>1, <1>2, <1>3, <1>4, None # "cws_error" DEF CommandRight, None
  <2>2. CASE c # d
    BY <2>0, <2>2, <1>3, <1>4, <1>5 DEF IInv, CommandRight
  <2> QED
    BY <2>1, <2>2
<1> QED
  BY <1>5, <1>6, <1>7, <1>8 DEF IInv

(* The connection is given up on request.                                  *)
LEMMA ServeRecycleKeeps ==
  ASSUME IInv, ServeRecycle
  PROVE  IInv'
<1>1. queue \in Seq(Messages) /\ Once(queue) /\ queue # << >> /\ queue' = Tail(queue)
  BY DEF IInv, TypeOK, Messages, ServeRecycle
<1>2. /\ queue' \in Seq(Messages) /\ Once(queue') /\ Len(queue') <= Capacity
      /\ \A c : In(queue', c) => In(queue, c)
  <2>1. /\ Tail(queue) \in Seq(Messages) /\ Once(Tail(queue)) /\ Len(Tail(queue)) <= Len(queue)
        /\ \A c : In(Tail(queue), c) => In(queue, c)
    BY <1>1, PopQueue
  <2>2. Len(queue) <= Capacity /\ Len(queue) \in Nat /\ Len(Tail(queue)) \in Nat
    BY <1>1, <2>1 DEF IInv, TypeOK
  <2> QED
    BY <1>1, <2>1, <2>2, ControlPathAssumption
<1>3. TypeOK'
  BY <1>2 DEF IInv, TypeOK, Messages, ServeRecycle, Resolve, Unauthorized
<1>4. ConsumerRight'
  BY <1>2 DEF IInv, TypeOK, ConsumerRight, CommandRight, LongLived, ServeRecycle, Resolve
<1>5. ASSUME NEW c \in Commands PROVE CommandRight(c)'
  BY <1>2 DEF IInv, TypeOK, CommandRight, ServeRecycle
<1> QED
  BY <1>2, <1>3, <1>4, <1>5 DEF IInv

(* The broker's response.                                                  *)
LEMMA ResponseKeeps ==
  ASSUME IInv, NEW d \in Commands, Response(d)
  PROVE  IInv'
<1>1. TypeOK'
  BY DEF IInv, TypeOK, Response, Resolve
<1>2. Once(queue)'
  BY SMT DEF IInv, Response
<1>3. ConsumerRight'
  BY DEF IInv, TypeOK, ConsumerRight, CommandRight, LongLived, In, Response, Resolve
<1>4. ASSUME NEW c \in Commands PROVE CommandRight(c)'
  BY DEF IInv, TypeOK, CommandRight, In, Response
<1> QED
  BY <1>1, <1>2, <1>3, <1>4 DEF IInv

(* The second evaluation, which may decide on a recycling.                 *)
LEMMA RecheckKeeps ==
  ASSUME IInv, Recheck
  PROVE  IInv'
<1>1. TypeOK'
  BY DEF IInv, TypeOK, Places, Recheck, Goto
<1>2. Once(queue)'
  BY SMT DEF IInv, Recheck
<1>3. ConsumerRight'
  BY DEF IInv, TypeOK, ConsumerRight, LongLived, In, Recheck, Goto
<1>4. ASSUME NEW c \in Commands PROVE CommandRight(c)'
  BY DEF IInv, TypeOK, CommandRight, In, Recheck, Goto
<1> QED
  BY <1>1, <1>2, <1>3, <1>4 DEF IInv

(* The request for a recycling enters the channel.                         *)
LEMMA RequestRecycleKeeps ==
  ASSUME IInv, RequestRecycle
  PROVE  IInv'
<1>1. queue \in Seq(Messages) /\ Once(queue) /\ Recycle \in Messages
      /\ \A c : Recycle # SendOf(c)
  BY MessageKinds DEF IInv, TypeOK, Messages
<1>2. /\ queue' \in Seq(Messages) /\ Once(queue') /\ Len(queue') = Len(queue) + 1
      /\ \A c : In(queue', c) <=> In(queue, c)
  BY <1>1, PushQueue DEF RequestRecycle
<1>3. Len(queue') <= Capacity
  BY <1>1, <1>2, ControlPathAssumption DEF RequestRecycle, HasRoom
<1>4. TypeOK'
  BY <1>2, <1>3 DEF IInv, TypeOK, Messages, Places, RequestRecycle, Goto
<1>5. ConsumerRight'
  BY <1>2 DEF IInv, TypeOK, ConsumerRight, LongLived, RequestRecycle, Goto
<1>6. ASSUME NEW c \in Commands PROVE CommandRight(c)'
  BY <1>2 DEF IInv, TypeOK, CommandRight, RequestRecycle, Goto
<1> QED
  BY <1>2, <1>4, <1>5, <1>6 DEF IInv

(* The command enters the channel.                                         *)
LEMMA SendCommandKeeps ==
  ASSUME IInv, SendCommand
  PROVE  IInv'
<1> DEFINE d == consumer.cmd
<1>1. /\ d \in Commands /\ answer[d] = None /\ Class[d] \notin Scoped
      /\ consumer.at = "send" /\ reply = None
  BY DEF IInv, ConsumerRight, LongLived, SendCommand
<1>2. ~ In(queue, d) /\ wire[d] = << >>
  BY <1>1 DEF IInv, CommandRight, None
<1>3. queue \in Seq(Messages) /\ Once(queue) /\ SendOf(d) \in Messages
      /\ \A c : SendOf(d) = SendOf(c) => c = d
  BY <1>1, MessageKinds DEF IInv, TypeOK, Messages
<1>4. /\ queue' \in Seq(Messages) /\ Once(queue') /\ Len(queue') <= Capacity
      /\ \A c : In(queue', c) <=> In(queue, c) \/ c = d
  BY <1>2, <1>3, PushQueue, ControlPathAssumption DEF SendCommand, HasRoom
<1>5. /\ consumer' = [consumer EXCEPT !.at = "reply"] /\ consumer'.at = "reply" /\ consumer'.cmd = d
      /\ UNCHANGED <<session, health, reply, answer, wire>>
  BY DEF IInv, TypeOK, SendCommand, Goto
<1>6. TypeOK'
  BY <1>1, <1>4, <1>5 DEF IInv, TypeOK, Messages, Places
<1>7. ConsumerRight'
  BY <1>1, <1>5 DEF ConsumerRight, LongLived
<1>8. ASSUME NEW c \in Commands PROVE CommandRight(c)'
  BY <1>1, <1>2, <1>4, <1>5 DEF IInv, CommandRight
<1> QED
  BY <1>4, <1>6, <1>7, <1>8 DEF IInv

(* A command is written on a connection of its own.                        *)
LEMMA ScopedSendKeeps ==
  ASSUME IInv, ScopedSend
  PROVE  IInv'
<1> DEFINE d == consumer.cmd
<1>1. d \in Commands /\ answer[d] = None /\ consumer.at = "scope"
  BY DEF IInv, ConsumerRight, ScopedSend
<1>2. ~ In(queue, d) /\ wire[d] = << >>
  BY <1>1 DEF IInv, CommandRight, None
<1>3. PICK result \in {"accepted", "rejected", "cws_error"} :
        /\ AnswerWith(result)
        /\ \/ wire' = [wire EXCEPT ![d] = Append(@, 0)]
           \/ result = "cws_error" /\ UNCHANGED wire
  BY DEF ScopedSend
<1>4. /\ wire' \in [Commands -> Seq(Conns)]
      /\ Len(wire'[d]) <= 1
      /\ \A e \in Commands : e # d => wire'[e] = wire[e]
  <2>1. 0 \in Conns /\ wire \in [Commands -> Seq(Conns)]
    BY ControlPathAssumption DEF Conns, IInv, TypeOK
  <2>2. Append(wire[d], 0) \in Seq(Conns) /\ Len(Append(wire[d], 0)) = 1
    BY <1>1, <1>2, <2>1
  <2>3. CASE wire' = [wire EXCEPT ![d] = Append(@, 0)]
    BY <1>1, <2>1, <2>2, <2>3
  <2>4. CASE UNCHANGED wire
    <3>1. Len(wire[d]) = 0
      BY <1>2
    <3> QED
      BY <2>1, <2>4, <3>1
  <2> QED
    BY <1>3, <2>3, <2>4
<1>5. /\ consumer' \in [at : Places, cmd : Commands \cup {None}, conn : Conns]
      /\ consumer' = Idle
      /\ reply' = None
      /\ answer' \in [Commands -> Answers \cup {None}]
      /\ answer'[d] = result
      /\ \A e \in Commands : e # d => answer'[e] = answer[e]
  BY <1>1, <1>3, AnswerTypes DEF IInv, TypeOK, Answers, AnswerWith
<1>6. UNCHANGED <<session, queue, health>>
  BY DEF ScopedSend
<1>7. TypeOK'
  BY <1>1, <1>4, <1>5, <1>6 DEF IInv, TypeOK
<1>8. ConsumerRight'
  BY <1>5 DEF ConsumerRight, Idle, LongLived
<1>9. ASSUME NEW c \in Commands PROVE CommandRight(c)'
  <2>1. CASE c = d
    BY <2>1, <1>2, <1>4, <1>5, <1>6 DEF IInv, CommandRight, In, None
  <2>2. CASE c # d
    BY <2>2, <1>1, <1>4, <1>5, <1>6 DEF IInv, CommandRight, In
  <2> QED
    BY <2>1, <2>2
<1>10. Once(queue)'
  BY <1>6, SMT DEF IInv
<1> QED
  BY <1>7, <1>8, <1>9, <1>10 DEF IInv
-----------------------------------------------------------------------------
(* The theorems.                                                           *)

LEMMA InitHolds == Init => IInv
<1> SUFFICES ASSUME Init PROVE IInv
  OBVIOUS
<1>1. 0 \in Conns
  BY ControlPathAssumption DEF Conns
<1>2. TypeOK
  BY <1>1, ControlPathAssumption DEF Init, TypeOK, Idle, Places, None
<1>3. Once(queue)
  BY DEF Init, Once
<1>4. ConsumerRight
  BY DEF Init, ConsumerRight, Idle, LongLived
<1>5. \A c \in Commands : CommandRight(c)
  BY DEF Init, CommandRight, In, None
<1> QED
  BY <1>2, <1>3, <1>4, <1>5 DEF IInv

LEMMA StutterKeeps == IInv /\ UNCHANGED vars => IInv'
<1> SUFFICES ASSUME IInv, UNCHANGED vars PROVE IInv'
  OBVIOUS
<1>1. TypeOK'
  BY DEF IInv, TypeOK, vars
<1>2. Once(queue)'
  BY SMT DEF IInv, vars
<1>3. ConsumerRight'
  BY DEF IInv, ConsumerRight, In, vars
<1>4. ASSUME NEW c \in Commands PROVE CommandRight(c)'
  BY DEF IInv, CommandRight, In, vars
<1> QED
  BY <1>1, <1>2, <1>3, <1>4 DEF IInv

LEMMA StepKeeps == IInv /\ [Next]_vars => IInv'
<1> SUFFICES ASSUME IInv, [Next]_vars PROVE IInv'
  OBVIOUS
<1>1. CASE \E c \in Commands : Take(c)
  BY <1>1, TakeKeeps
<1>2. CASE ConsumerStep
  BY <1>2, DetectKeeps, RecheckKeeps, RequestRecycleKeeps, NewConnectionKeeps, ArmKeeps, RecycleTimesOutKeeps,
     BeginExitSendKeeps, SendCommandKeeps, GetReplyKeeps, GiveUpKeeps, OpenScopeKeeps,
     ScopedSendKeeps DEF ConsumerStep, LongLivedStep
<1>3. CASE SessionStep
  BY <1>3, ConnectKeeps, AuthorizeKeeps, DisconnectKeeps, ServeSendKeeps, SendFailsKeeps,
     ServeRecycleKeeps, ResponseKeeps DEF SessionStep
<1>4. CASE Age
  BY <1>4, AgeKeeps
<1>5. CASE UNCHANGED vars
  BY <1>5, StutterKeeps
<1> QED
  BY <1>1, <1>2, <1>3, <1>4, <1>5 DEF Next

(* The inductive invariant: the channel holds no command twice, what it    *)
(* holds was not written, and what was written is awaited or answered.     *)
THEOREM ControlInvariant == Spec => []IInv
<1> QED
  BY InitHolds, StepKeeps, PTL DEF Spec

(* The session task, the consumer and the health record they share keep to *)
(* their values, and an exit is armed for the command at hand only.        *)
THEOREM ControlTypeOK == Spec => []TypeOK
<1>1. IInv => TypeOK
  BY DEF IInv
<1> QED
  BY <1>1, ControlInvariant, PTL

(* However often the path is recycled or lost, a command is written at     *)
(* most once, and not at all when its admission was refused.               *)
THEOREM ControlWritesOnce == Spec => []WrittenOnce
<1>1. ASSUME IInv, NEW c \in Commands
      PROVE  Len(wire[c]) <= IF answer[c] = "recycle_failed" THEN 0 ELSE 1
  <2>1. CASE answer[c] = "recycle_failed"
    <3>1. Len(wire[c]) = 0
      BY <1>1, <2>1 DEF IInv, CommandRight
    <3> QED
      BY <2>1, <3>1
  <2>2. CASE answer[c] # "recycle_failed"
    BY <1>1, <2>2 DEF IInv, CommandRight
  <2> QED
    BY <2>1, <2>2
<1>2. IInv => WrittenOnce
  BY <1>1 DEF WrittenOnce
<1> QED
  BY <1>2, ControlInvariant, PTL

(* Which step writes a command, and what its answer is then.               *)
LEMMA WriterIsRight ==
  ASSUME IInv, [Next]_vars, NEW c \in Commands, wire'[c] # wire[c]
  PROVE  \/ answer[c] = None
         \/ answer[c] = "cws_error" /\ Class[c] \notin Scoped
<1>1. ServeSend \/ SendFails \/ ScopedSend
  BY DEF Next, ConsumerStep, LongLivedStep, SessionStep, Take, Detect, Recheck,
     RequestRecycle, NewConnection, Arm,
     RecycleTimesOut, BeginExitSend, SendCommand, GetReply, GiveUp, OpenScope, Connect,
     Authorize, Disconnect, ServeRecycle, Response, Age, vars
<1>2. CASE ServeSend \/ SendFails
  <2>1. /\ queue # << >> /\ Head(queue).kind = "send"
        /\ WriteTo(Head(queue).cmd) \/ UNCHANGED wire
    BY <1>2 DEF ServeSend, SendFails
  <2>2. c = Head(queue).cmd
    BY <2>1 DEF WriteTo, IInv, TypeOK
  <2> QED
    BY <2>1, <2>2, HeadIsUnwritten
<1>3. CASE ScopedSend
  <2>1. c = consumer.cmd /\ consumer.at = "scope"
    BY <1>3 DEF ScopedSend, IInv, TypeOK
  <2> QED
    BY <2>1 DEF IInv, ConsumerRight
<1> QED
  BY <1>1, <1>2, <1>3

(* After its answer a command is written only when the consumer gave it    *)
(* up, and then only over the long-lived connection.                       *)
THEOREM ControlOnlyGivenUp == Spec => OnlyGivenUpIsWrittenLate
<1>1. IInv /\ [Next]_vars =>
        [\A c \in Commands :
           wire'[c] # wire[c] =>
             \/ answer[c] = None
             \/ answer[c] = "cws_error" /\ Class[c] \notin Scoped]_vars
  BY WriterIsRight
<1> QED
  BY <1>1, ControlInvariant, PTL DEF Spec, OnlyGivenUpIsWrittenLate

=============================================================================
