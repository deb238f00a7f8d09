------------------------ MODULE EventPublisherProofs ------------------------
(***************************************************************************)
(* The streams keep the order of the events and the snapshots only move    *)
(* forward, for any number of events, ids and kinds of event, any room in  *)
(* the channels and any number of failed writes.                           *)
(***************************************************************************)
EXTENDS EventPublisher, FiniteSetTheorems, SequenceTheorems, TLAPS

(* How many events of kind k the source task handed to the manager, and    *)
(* how many of those the manager took.                                     *)
Handed(k) == IF hand[k].step = "hand" THEN hand[k].got - 1 ELSE hand[k].got
Managed(k) == Handed(k) - Len(mail[k])

(* Events are numbered as they come, the channel to the manager holds the  *)
(* last ones handed over, and the manager knows none that is still in it.  *)
SourcesRight(k) ==
  /\ \A n \in DOMAIN arrived[k] : arrived[k][n].n = n
  /\ hand[k].got <= Len(arrived[k]) /\ Managed(k) >= 0
  /\ \A i \in DOMAIN mail[k] : mail[k][i] = arrived[k][Managed(k) + i]
  /\ \A id \in Ids : store[k][id].n <= Managed(k)

(* How many messages the publisher took out of the queue.                  *)
Taken == Len(accepted) - Len(queue)

(* The queue holds the last messages it took, in order; the publisher      *)
(* works on the one before them, and wrote all earlier ones.               *)
WriterRight ==
  /\ Taken >= 0
  /\ \A i \in DOMAIN queue : queue[i] = Taken + i
  /\ publisher.pc = "write" => publisher.msg = Taken /\ written \in {1..(Taken - 1), 1..Taken}
  /\ publisher.pc # "write" => written = 1..Taken

(* While the queue is open it took every event its source task took, and   *)
(* each message of kind k is the event of its rank.                        *)
EventsRight(k) ==
  /\ ~Closed => Rank(k, Len(accepted)) = hand[k].got
  /\ \A i \in DOMAIN accepted :
       accepted[i].kind = k =>
         /\ Rank(k, i) \in DOMAIN arrived[k]
         /\ accepted[i].event = arrived[k][Rank(k, i)]

(* View v of the manager of kind k is no newer than view w.                *)
NoNewer(k, v, w) ==
  \A id \in Ids : v[id].n <= w[id].n /\ (k = "stop_order" => v[id].ts <= w[id].ts)

(* No snapshot, sent or waiting, is newer than the manager, and none that  *)
(* was sent is newer than the one that waits.                              *)
SnapshotsRight ==
  /\ \A i \in DOMAIN accepted : accepted[i].kind = "snapshot" =>
       /\ NoNewer(accepted[i].of, accepted[i].view, store[accepted[i].of])
       /\ (reporter # <<>> /\ reporter[1].of = accepted[i].of)
            => NoNewer(accepted[i].of, accepted[i].view, reporter[1].view)
  /\ reporter # <<>> => NoNewer(reporter[1].of, reporter[1].view, store[reporter[1].of])

IInv ==
  /\ TypeOK
  /\ \A k \in KindSet : SourcesRight(k) /\ EventsRight(k)
  /\ WriterRight
  /\ SnapshotsRight
  /\ SnapshotsMoveForward

-----------------------------------------------------------------------------
(* Facts about the operators.                                              *)
Snapshot == [kind : {"snapshot"}, of : KindSet, view : [Ids -> Views]]

(* The kinds of event are finitely many, and none is called "snapshot" or  *)
(* "health".                                                               *)
LEMMA KindsAreFinite ==
  /\ IsFiniteSet(KindSet) /\ KindSet \subseteq {"order", "stop_order", "position"}
  /\ \A i \in DOMAIN Kinds : Kinds[i] \in KindSet
  /\ 1 \in DOMAIN Kinds /\ DOMAIN Kinds = 1..Len(Kinds) /\ Len(Kinds) \in Nat
<1>1. KindSet \subseteq {"order", "stop_order", "position"}
  BY KindsAssumption DEF KindSet, Range
<1>2. IsFiniteSet({"order", "stop_order", "position"})
  <2>1. IsFiniteSet({"order"} \cup {"stop_order"})
    BY FS_Singleton, FS_Union
  <2>2. IsFiniteSet(({"order"} \cup {"stop_order"}) \cup {"position"})
    BY <2>1, FS_Singleton, FS_Union
  <2>3. ({"order"} \cup {"stop_order"}) \cup {"position"} = {"order", "stop_order", "position"}
    OBVIOUS
  <2> QED BY <2>2, <2>3
<1>3. \A i \in DOMAIN Kinds : Kinds[i] \in KindSet
  BY DEF KindSet, Range
<1>4. 1 \in DOMAIN Kinds /\ DOMAIN Kinds = 1..Len(Kinds) /\ Len(Kinds) \in Nat
  BY KindsAssumption
<1> QED BY <1>1, <1>2, <1>3, <1>4, FS_Subset

(* The bound on all events bounds those of each kind.                      *)
LEMMA TotalBounds ==
  ASSUME TypeOK, NEW k \in KindSet, Total < MaxEvents
  PROVE  Len(arrived[k]) < MaxEvents
<1> DEFINE all == {e \in KindSet \X (1..MaxEvents) : e[2] <= Len(arrived[e[1]])}
           mine == {k} \X (1..MaxEvents)
<1>1. MaxEvents \in Nat /\ Len(arrived[k]) \in Nat
  BY PublisherBoundsAssumption DEF TypeOK
<1> SUFFICES ASSUME Len(arrived[k]) >= MaxEvents PROVE Total >= MaxEvents
  <2>1. Total \in Nat
    <3>1. IsFiniteSet(1..MaxEvents)
      BY <1>1, FS_Interval
    <3>2. IsFiniteSet(KindSet \X (1..MaxEvents))
      BY <3>1, KindsAreFinite, FS_Product
    <3> QED BY <3>2, FS_Subset, FS_CardinalityType DEF Total
  <2> QED BY <1>1, <2>1
<1>2. IsFiniteSet(1..MaxEvents) /\ Cardinality(1..MaxEvents) = MaxEvents
  BY <1>1, FS_Interval
<1>3. IsFiniteSet(all)
  <2>1. IsFiniteSet(KindSet \X (1..MaxEvents))
    BY <1>2, KindsAreFinite, FS_Product
  <2> QED BY <2>1, FS_Subset
<1>4. IsFiniteSet({k}) /\ Cardinality({k}) = 1
  BY FS_Singleton
<1>5. Cardinality(mine) = 1 * MaxEvents
  BY ZenonT(30), <1>2, <1>4, FS_Product
<1>6. mine \subseteq all
  <2> SUFFICES ASSUME NEW e \in mine PROVE e \in all
    OBVIOUS
  <2>1. e \in KindSet \X (1..MaxEvents) /\ e[1] = k /\ e[2] \in 1..MaxEvents
    OBVIOUS
  <2>2. e[2] <= Len(arrived[e[1]])
    BY <1>1, <2>1
  <2> QED BY <2>1, <2>2
<1>7. Cardinality(mine) <= Cardinality(all)
  BY <1>3, <1>6, FS_Subset
<1> QED BY <1>1, <1>5, <1>7 DEF Total

(* A rank counts no more messages than there are.                          *)
LEMMA RankType ==
  ASSUME NEW k, NEW i \in Nat
  PROVE  Rank(k, i) \in Nat
<1>1. IsFiniteSet(1..i)
  BY FS_Interval
<1>2. IsFiniteSet({j \in 1..i : accepted[j].kind = k})
  BY <1>1, FS_Subset
<1> QED BY <1>2, FS_CardinalityType DEF Rank

(* A message the queue takes changes no earlier rank and has the next one  *)
(* of its kind.                                                            *)
LEMMA RankOfNext ==
  ASSUME accepted \in Seq(Message), NEW m \in Message, NEW k,
         accepted' = Append(accepted, m),
         NEW n, n = Len(accepted)
  PROVE  /\ \A i \in 0..n : Rank(k, i)' = Rank(k, i)
         /\ Rank(k, n + 1)' = IF m.kind = k THEN Rank(k, n) + 1 ELSE Rank(k, n)
<1> DEFINE S(i) == {j \in 1..i : accepted[j].kind = k}
<1>1. n \in Nat /\ \A j \in 1..n : accepted'[j] = accepted[j]
  OBVIOUS
<1>2. accepted'[n + 1] = m
  OBVIOUS
<1>3. ASSUME NEW i \in 0..n PROVE Rank(k, i)' = Rank(k, i)
  <2>1. \A j \in 1..i : accepted'[j] = accepted[j]
    BY <1>1
  <2>2. {j \in 1..i : accepted'[j].kind = k} = S(i)
    BY <2>1
  <2> QED BY <2>2 DEF Rank
<1>4. {j \in 1..(n + 1) : accepted'[j].kind = k} = IF m.kind = k THEN S(n) \cup {n + 1} ELSE S(n)
  <2>1. 1..(n + 1) = (1..n) \cup {n + 1} /\ n + 1 \notin 1..n
    BY <1>1
  <2> QED BY <1>1, <1>2, <2>1
<1>5. IsFiniteSet(S(n)) /\ n + 1 \notin S(n)
  <2>1. IsFiniteSet(1..n)
    BY <1>1, FS_Interval
  <2> QED BY <1>1, <2>1, FS_Subset
<1>6. Cardinality(S(n) \cup {n + 1}) = Cardinality(S(n)) + 1
  BY <1>5, FS_AddElement
<1>7. Rank(k, n + 1)' = Cardinality({j \in 1..(n + 1) : accepted'[j].kind = k})
  BY DEF Rank
<1> QED BY <1>3, <1>4, <1>6, <1>7 DEF Rank

(* After a snapshot comes that of the next kind, if there is one.          *)
LEMMA NextKind ==
  ASSUME NEW k \in KindSet
  PROVE  LET i == CHOOSE j \in DOMAIN Kinds : Kinds[j] = k
         IN  i \in 1..Len(Kinds) /\ (i # Len(Kinds) => Kinds[i + 1] \in KindSet)
<1> DEFINE i == CHOOSE j \in DOMAIN Kinds : Kinds[j] = k
<1>1. \E j \in DOMAIN Kinds : Kinds[j] = k
  BY DEF KindSet, Range
<1>2. i \in DOMAIN Kinds
  BY <1>1
<1>3. i \in 1..Len(Kinds) /\ (i # Len(Kinds) => i + 1 \in DOMAIN Kinds)
  BY <1>2, KindsAreFinite
<1> QED BY <1>3, KindsAreFinite

-----------------------------------------------------------------------------
(* The type invariant.  Its part about the queue and the publisher:        *)
QueueType ==
  /\ accepted \in Seq(Message)
  /\ queue \in Seq(DOMAIN accepted) /\ Len(queue) <= QueueRoom
  /\ publisher \in [pc : {"select", "write", "ended"}, draining : BOOLEAN, msg : 0..Len(accepted)]
  /\ publisher.msg > 0 <=> publisher.pc = "write"
  /\ written \subseteq DOMAIN accepted

(* What the queue does with a message leaves that part right.              *)
LEMMA EnqueueType ==
  ASSUME TypeOK, NEW m \in Message,
         Enqueue(m) \/ UNCHANGED queueVars, UNCHANGED <<publisher, written>>
  PROVE  QueueType'
<1>1. CASE Enqueue(m)
  <2>1. accepted \in Seq(Message) /\ accepted' = Append(accepted, m)
    BY <1>1 DEF Enqueue, TypeOK
  <2>2. /\ accepted' \in Seq(Message) /\ Len(accepted') = Len(accepted) + 1
        /\ DOMAIN accepted = 1..Len(accepted) /\ DOMAIN accepted' = 1..(Len(accepted) + 1)
        /\ Len(accepted) \in Nat
    BY <2>1
  <2>3. queue \in Seq(DOMAIN accepted') /\ Len(accepted) + 1 \in DOMAIN accepted'
    <3>1. queue \in Seq(DOMAIN accepted) /\ DOMAIN accepted \subseteq DOMAIN accepted'
      BY <2>2 DEF TypeOK
    <3> QED BY <2>2, <3>1
  <2>4. queue' \in Seq(DOMAIN accepted') /\ Len(queue') = Len(queue) + 1
    BY <1>1, <2>3 DEF Enqueue
  <2>5. Len(queue) + 1 <= QueueRoom
    BY <1>1, <2>3, RoomAssumption DEF Enqueue
  <2>6. /\ publisher' \in [pc : {"select", "write", "ended"}, draining : BOOLEAN, msg : 0..Len(accepted')]
        /\ publisher'.msg > 0 <=> publisher'.pc = "write"
    BY <2>2 DEF TypeOK
  <2>7. written' \subseteq DOMAIN accepted'
    BY <2>2 DEF TypeOK
  <2> QED BY <2>2, <2>4, <2>5, <2>6, <2>7 DEF QueueType
<1>2. CASE UNCHANGED queueVars
  BY <1>2 DEF TypeOK, QueueType, queueVars
<1> QED BY <1>1, <1>2

(* A sequence of at most one element.                                      *)
LEMMA AtMostOne ==
  ASSUME NEW S
  PROVE  /\ <<>> \in BoundedSeq(S, 1)
         /\ \A e \in S : <<e>> \in BoundedSeq(S, 1)
         /\ \A s \in BoundedSeq(S, 1) : s # <<>> => s[1] \in S /\ Head(s) = s[1]
<1>1. <<>> \in [1..0 -> S] /\ 0 \in 0..1
  OBVIOUS
<1>2. \A e \in S : <<e>> \in [1..1 -> S] /\ 1 \in 0..1
  OBVIOUS
<1>3. ASSUME NEW s \in BoundedSeq(S, 1), s # <<>> PROVE s[1] \in S /\ Head(s) = s[1]
  <2>1. PICK m \in 0..1 : s \in [1..m -> S]
    BY DEF BoundedSeq, SeqOf
  <2>2. s \in Seq(S)
    BY <2>1, IsASeq
  <2>3. Len(s) # 0
    BY <1>3, <2>2
  <2>4. 1 \in 1..Len(s)
    BY <2>2, <2>3
  <2> QED BY <2>2, <2>4
<1> QED BY <1>1, <1>2, <1>3 DEF BoundedSeq, SeqOf

LEMMA InitType == Init => TypeOK
<1> SUFFICES ASSUME Init PROVE TypeOK
  OBVIOUS
<1> USE PublisherBoundsAssumption, RoomAssumption
<1>1. None \in Views
  BY DEF None, Views
<1>2. store \in [KindSet -> [Ids -> Views]]
  BY <1>1 DEF Init
<1>3. reporter \in BoundedSeq(Snapshot, 1)
  BY AtMostOne DEF Init
<1>4. arrived \in [KindSet -> Seq(Event)] /\ mail \in [KindSet -> Seq(Event)]
  BY DEF Init
<1>5. \A k \in KindSet : Len(mail[k]) <= MailRoom
  BY DEF Init
<1>6. hand \in [KindSet -> [step : {"recv", "hand"}, got : 0..MaxEvents]]
  BY DEF Init
<1>7. QueueType
  BY DEF Init, QueueType
<1>8. ticks \in 0..MaxTicks /\ faults \in 0..MaxFaults
  BY DEF Init
<1>9. degraded \in BOOLEAN /\ shutdown \in BOOLEAN
  BY Zenon DEF Init
<1> QED BY <1>2, <1>3, <1>4, <1>5, <1>6, <1>7, <1>8, <1>9 DEF TypeOK, QueueType, Snapshot

(* The rest of the type invariant: sources and managers, and the reporter. *)
SourcesType ==
  /\ arrived \in [KindSet -> Seq(Event)]
  /\ hand \in [KindSet -> [step : {"recv", "hand"}, got : 0..MaxEvents]]
  /\ mail \in [KindSet -> Seq(Event)] /\ \A k \in KindSet : Len(mail[k]) <= MailRoom
  /\ store \in [KindSet -> [Ids -> Views]]

ReporterType == reporter \in BoundedSeq(Snapshot, 1) /\ ticks \in 0..MaxTicks

RestType == degraded \in BOOLEAN /\ shutdown \in BOOLEAN /\ faults \in 0..MaxFaults

LEMMA TypeParts ==
  /\ TypeOK <=> SourcesType /\ ReporterType /\ QueueType /\ RestType
  /\ TypeOK' <=> SourcesType' /\ ReporterType' /\ QueueType' /\ RestType'
BY DEF TypeOK, SourcesType, ReporterType, QueueType, RestType, Snapshot

(* A step that leaves the variables of a part leaves its type.             *)
LEMMA PartsStay ==
  /\ SourcesType /\ UNCHANGED sourceVars => SourcesType'
  /\ ReporterType /\ UNCHANGED reporterVars => ReporterType'
  /\ QueueType /\ UNCHANGED <<queueVars, publisher, written>> => QueueType'
  /\ RestType /\ UNCHANGED <<degraded, shutdown, faults>> => RestType'
<1>1. SourcesType /\ UNCHANGED sourceVars => SourcesType'
  BY DEF SourcesType, sourceVars
<1>2. ReporterType /\ UNCHANGED reporterVars => ReporterType'
  BY DEF ReporterType, reporterVars, Snapshot
<1>3. QueueType /\ UNCHANGED <<queueVars, publisher, written>> => QueueType'
  BY DEF QueueType, queueVars
<1>4. RestType /\ UNCHANGED <<degraded, shutdown, faults>> => RestType'
  BY Zenon DEF RestType
<1> QED BY <1>1, <1>2, <1>3, <1>4

(* What Next does is one of these steps, or none.                          *)
SourceStep == \E k \in KindSet : Arrive(k) \/ Publish(k) \/ HandOver(k) \/ Manage(k)

LEMMA NextSteps == [Next]_vars => SourceStep \/ Reporter \/ Publisher \/ Shutdown \/ UNCHANGED vars
BY DEF Next, SourceStep

(* Both ways to publish either enqueue the message or leave the queue.     *)
LEMMA PublishMeans ==
  ASSUME NEW m, PublishCritical(m) \/ PublishLossy(m)
  PROVE  Enqueue(m) \/ UNCHANGED queueVars
BY DEF PublishCritical, PublishLossy

LEMMA SourceStepType ==
  ASSUME TypeOK, \A k \in KindSet : SourcesRight(k), SourceStep
  PROVE  TypeOK'
<1> USE PublisherBoundsAssumption, RoomAssumption
<1>0. SourcesType /\ ReporterType /\ QueueType /\ RestType
  BY TypeParts
<1>1. ASSUME NEW k \in KindSet, Arrive(k) PROVE TypeOK'
  <2>1. Len(arrived[k]) < MaxEvents /\ arrived[k] \in Seq(Event)
    BY <1>1, TotalBounds DEF Arrive, TypeOK
  <2>2. PICK id \in Ids, ts \in 0..MaxTs :
          arrived' = [arrived EXCEPT ![k] = Append(@, [id |-> id, n |-> Len(@) + 1, ts |-> ts])]
    <3>1. (IF k = "stop_order" THEN 0 ELSE 1)..MaxTs \subseteq 0..MaxTs
      OBVIOUS
    <3> QED BY <1>1, <3>1 DEF Arrive
  <2>3. [id |-> id, n |-> Len(arrived[k]) + 1, ts |-> ts] \in Event
    BY <2>1 DEF Event
  <2>4. arrived' \in [KindSet -> Seq(Event)]
    BY <1>0, <2>2, <2>3 DEF SourcesType
  <2> QED BY <1>0, <1>1, <2>4, TypeParts
          DEF Arrive, SourcesType, ReporterType, QueueType, RestType, reporterVars, queueVars, writerVars
<1>2. ASSUME NEW k \in KindSet, Publish(k) PROVE TypeOK'
  <2>1. /\ hand[k].step = "recv" /\ hand[k].got < Len(arrived[k])
        /\ hand[k].got \in 0..MaxEvents /\ arrived[k] \in Seq(Event)
    BY <1>0, <1>2 DEF Publish, SourcesType
  <2>2. arrived[k][hand[k].got + 1] \in Event
    BY <2>1
  <2>3. hand[k].got + 1 <= MaxEvents
    <3>1. arrived[k][hand[k].got + 1].n = hand[k].got + 1
      BY <2>1 DEF SourcesRight
    <3> QED BY SMTT(30), <2>1, <2>2, <3>1 DEF Event
  <2>4. hand' \in [KindSet -> [step : {"recv", "hand"}, got : 0..MaxEvents]]
    BY <1>0, <1>2, <2>1, <2>3 DEF Publish, SourcesType
  <2>5. [kind |-> k, event |-> arrived[k][hand[k].got + 1]] \in Message
    BY <2>2 DEF Message
  <2>6. QueueType'
    BY <1>2, <2>5, EnqueueType, PublishMeans DEF Publish, writerVars
  <2> QED BY <1>0, <1>2, <2>4, <2>6, TypeParts
          DEF Publish, SourcesType, ReporterType, RestType, reporterVars, writerVars
<1>3. ASSUME NEW k \in KindSet, HandOver(k) PROVE TypeOK'
  <2>1. /\ hand[k].step = "hand" /\ hand[k].got \in 0..MaxEvents /\ arrived[k] \in Seq(Event)
        /\ mail[k] \in Seq(Event) /\ Len(mail[k]) < MailRoom
    BY <1>0, <1>3 DEF HandOver, SourcesType
  <2>2. hand[k].got \in 1..Len(arrived[k])
    BY <2>1 DEF SourcesRight, Managed, Handed
  <2>3. arrived[k][hand[k].got] \in Event
    BY <2>1, <2>2
  <2>4. /\ mail' \in [KindSet -> Seq(Event)] /\ \A j \in KindSet : Len(mail'[j]) <= MailRoom
    BY <1>0, <1>3, <2>1, <2>3 DEF HandOver, SourcesType
  <2>5. hand' \in [KindSet -> [step : {"recv", "hand"}, got : 0..MaxEvents]]
    BY <1>0, <1>3, <2>1 DEF HandOver, SourcesType
  <2> QED BY <1>0, <1>3, <2>4, <2>5, TypeParts
          DEF HandOver, SourcesType, ReporterType, QueueType, RestType, reporterVars, queueVars, writerVars
<1>4. ASSUME NEW k \in KindSet, Manage(k) PROVE TypeOK'
  <2>1. mail[k] \in Seq(Event) /\ mail[k] # <<>> /\ Head(mail[k]) \in Event
    BY <1>0, <1>4 DEF Manage, SourcesType
  <2>2. mail' \in [KindSet -> Seq(Event)] /\ \A j \in KindSet : Len(mail'[j]) <= MailRoom
    BY <1>0, <1>4, <2>1 DEF Manage, SourcesType
  <2>3. /\ Head(mail[k]).id \in Ids
        /\ [n |-> Head(mail[k]).n, ts |-> Head(mail[k]).ts] \in Views
    BY <2>1 DEF Event, Views
  <2>4. store' \in [KindSet -> [Ids -> Views]]
    BY <1>0, <1>4, <2>3 DEF Manage, SourcesType
  <2> QED BY <1>0, <1>4, <2>2, <2>4, TypeParts
          DEF Manage, SourcesType, ReporterType, QueueType, RestType, reporterVars, queueVars, writerVars
<1> QED BY <1>1, <1>2, <1>3, <1>4 DEF SourceStep

LEMMA ReporterStepType ==
  ASSUME TypeOK, Reporter
  PROVE  TypeOK'
<1> USE PublisherBoundsAssumption, RoomAssumption
<1>0. SourcesType /\ ReporterType /\ QueueType /\ RestType
  BY TypeParts
<1>1. ASSUME NEW k \in KindSet PROVE SnapshotOf(k) \in Snapshot
  BY <1>0 DEF SnapshotOf, Snapshot, SourcesType
<1>2. CASE HealthTick
  <2>1. [kind |-> "health"] \in Message
    BY DEF Message
  <2>2. QueueType'
    BY <1>2, <2>1, EnqueueType, PublishMeans DEF HealthTick, writerVars
  <2>3. ticks' \in 0..MaxTicks
    BY <1>0, <1>2 DEF HealthTick, ReporterType
  <2> QED BY <1>0, <1>2, <2>2, <2>3, TypeParts
          DEF HealthTick, SourcesType, ReporterType, RestType, sourceVars, writerVars
<1>3. CASE SnapshotTick
  <2>1. reporter' \in BoundedSeq(Snapshot, 1)
    BY <1>1, <1>3, KindsAreFinite, AtMostOne DEF SnapshotTick
  <2>2. ticks' \in 0..MaxTicks
    BY <1>0, <1>3 DEF SnapshotTick, ReporterType
  <2> QED BY <1>0, <1>3, <2>1, <2>2, TypeParts
          DEF SnapshotTick, SourcesType, ReporterType, QueueType, RestType, sourceVars, queueVars, writerVars
<1>4. CASE SendSnapshot
  <2>1. Head(reporter) \in Snapshot
    BY <1>0, <1>4, AtMostOne DEF SendSnapshot, ReporterType
  <2>2. Head(reporter) \in Message /\ Head(reporter).of \in KindSet
    BY <2>1 DEF Snapshot, Message
  <2>3. QueueType'
    BY <1>4, <2>2, EnqueueType, PublishMeans DEF SendSnapshot, writerVars
  <2>4. reporter' \in BoundedSeq(Snapshot, 1)
    BY <1>1, <1>4, <2>2, NextKind, AtMostOne DEF SendSnapshot
  <2> QED BY <1>0, <1>4, <2>3, <2>4, TypeParts
          DEF SendSnapshot, SourcesType, ReporterType, RestType, sourceVars, writerVars
<1> QED BY <1>2, <1>3, <1>4 DEF Reporter

(* The publisher goes to another step with another message.                *)
LEMMA PublisherMoves ==
  ASSUME NEW P, NEW N, NEW p \in [pc : P, draining : BOOLEAN, msg : N], NEW a \in P, NEW x \in N
  PROVE  LET q == [p EXCEPT !.pc = a, !.msg = x]
         IN  q \in [pc : P, draining : BOOLEAN, msg : N] /\ q.pc = a /\ q.msg = x
OBVIOUS

LEMMA PublisherStepType ==
  ASSUME TypeOK, Publisher
  PROVE  TypeOK'
<1> USE PublisherBoundsAssumption, RoomAssumption
<1>0. SourcesType /\ ReporterType /\ QueueType /\ RestType
  BY TypeParts
<1>00. DOMAIN accepted = 1..Len(accepted) /\ Len(accepted) \in Nat
  BY <1>0 DEF QueueType
<1>1. CASE TakeMessage
  <2>1. Head(queue) \in 1..Len(accepted) /\ Tail(queue) \in Seq(DOMAIN accepted) /\ Len(Tail(queue)) <= QueueRoom
    BY <1>0, <1>00, <1>1 DEF QueueType, TakeMessage
  <2>2. publisher' = [publisher EXCEPT !.pc = "write", !.msg = Head(queue)]
    BY <1>1 DEF TakeMessage
  <2>3. /\ publisher' \in [pc : {"select", "write", "ended"}, draining : BOOLEAN, msg : 0..Len(accepted)]
        /\ publisher'.pc = "write" /\ publisher'.msg > 0
    <3>1. publisher \in [pc : {"select", "write", "ended"}, draining : BOOLEAN, msg : 0..Len(accepted)]
      BY <1>0 DEF QueueType
    <3>2. "write" \in {"select", "write", "ended"} /\ Head(queue) \in 0..Len(accepted)
      BY <1>00, <2>1
    <3>3. publisher' \in [pc : {"select", "write", "ended"}, draining : BOOLEAN, msg : 0..Len(accepted)]
      BY <2>2, <3>1, <3>2, PublisherMoves, Zenon
    <3>4. publisher'.pc = "write" /\ publisher'.msg = Head(queue)
      BY <2>2, <3>1, <3>2, PublisherMoves, Zenon
    <3> QED BY <2>1, <3>3, <3>4
  <2>4. QueueType'
    BY <1>0, <1>1, <2>1, <2>3 DEF QueueType, TakeMessage
  <2> QED BY <1>0, <1>1, <2>4, TypeParts
          DEF TakeMessage, SourcesType, ReporterType, RestType, sourceVars, reporterVars
<1>2. CASE SeeShutdown \/ EndPublisher
  <2>1. QueueType'
    BY <1>0, <1>2 DEF QueueType, SeeShutdown, EndPublisher, queueVars
  <2> QED BY <1>0, <1>2, <2>1, TypeParts
          DEF SeeShutdown, EndPublisher, SourcesType, ReporterType, RestType, sourceVars, reporterVars
<1>3. CASE Write
  <2>1. publisher.msg \in DOMAIN accepted
    BY <1>0, <1>00, <1>3 DEF QueueType, Write
  <2>2. publisher' = [publisher EXCEPT !.pc = "select", !.msg = 0] /\ UNCHANGED queueVars
    BY <1>3 DEF Write
  <2>3. /\ publisher' \in [pc : {"select", "write", "ended"}, draining : BOOLEAN, msg : 0..Len(accepted)]
        /\ publisher'.pc = "select" /\ publisher'.msg = 0
    <3>1. publisher \in [pc : {"select", "write", "ended"}, draining : BOOLEAN, msg : 0..Len(accepted)]
      BY <1>0 DEF QueueType
    <3>2. "select" \in {"select", "write", "ended"} /\ 0 \in 0..Len(accepted)
      BY <1>00
    <3> QED BY <2>2, <3>1, <3>2, PublisherMoves, Zenon
  <2>4. written' \subseteq DOMAIN accepted
    BY <1>0, <1>3, <2>1 DEF QueueType, Write
  <2>5. QueueType'
    BY <1>0, <2>2, <2>3, <2>4 DEF QueueType, queueVars
  <2> QED BY <1>0, <1>3, <2>5, TypeParts
          DEF Write, SourcesType, ReporterType, RestType, sourceVars, reporterVars
<1>4. CASE WriteFails
  <2>1. publisher.msg \in DOMAIN accepted
    BY <1>0, <1>00, <1>4 DEF QueueType, WriteFails
  <2>2. QueueType'
    BY <1>0, <1>4, <2>1 DEF QueueType, WriteFails, queueVars
  <2>3. RestType'
    <3>1. faults' \in 0..MaxFaults
      BY <1>0, <1>4 DEF WriteFails, RestType
    <3>2. degraded' \in BOOLEAN /\ shutdown' \in BOOLEAN
      BY <1>0, <1>4, Zenon DEF WriteFails, RestType
    <3> QED BY <3>1, <3>2, Zenon DEF RestType
  <2> QED BY <1>0, <1>4, <2>2, <2>3, TypeParts
          DEF WriteFails, SourcesType, ReporterType, sourceVars, reporterVars
<1> QED BY <1>1, <1>2, <1>3, <1>4 DEF Publisher

LEMMA StepType == TypeOK /\ (\A k \in KindSet : SourcesRight(k)) /\ [Next]_vars => TypeOK'
<1> SUFFICES ASSUME TypeOK, \A k \in KindSet : SourcesRight(k), [Next]_vars PROVE TypeOK'
  OBVIOUS
<1>0. SourcesType /\ ReporterType /\ QueueType /\ RestType
  BY TypeParts
<1>1. CASE Shutdown
  BY <1>0, <1>1, TypeParts DEF Shutdown, SourcesType, ReporterType, QueueType, RestType,
     sourceVars, reporterVars, queueVars, writerVars
<1>2. CASE UNCHANGED vars
  BY <1>0, <1>2, TypeParts DEF vars, SourcesType, ReporterType, QueueType, RestType,
     sourceVars, reporterVars, queueVars, writerVars
<1> QED BY <1>1, <1>2, NextSteps, SourceStepType, ReporterStepType, PublisherStepType

-----------------------------------------------------------------------------
(* The invariant of the sources and the managers.                          *)
LEMMA SourcesStay ==
  ASSUME NEW k \in KindSet, SourcesRight(k),
         arrived'[k] = arrived[k], hand'[k] = hand[k], mail'[k] = mail[k], store'[k] = store[k]
  PROVE  SourcesRight(k)'
BY DEF SourcesRight, Managed, Handed

LEMMA ArriveSources ==
  ASSUME TypeOK, NEW k \in KindSet, SourcesRight(k), Arrive(k)
  PROVE  SourcesRight(k)'
<1>1. arrived[k] \in Seq(Event) /\ arrived \in [KindSet -> Seq(Event)]
  BY DEF TypeOK
<1>2. PICK id \in Ids, ts \in (IF k = "stop_order" THEN 0 ELSE 1)..MaxTs :
        arrived' = [arrived EXCEPT ![k] = Append(@, [id |-> id, n |-> Len(@) + 1, ts |-> ts])]
  BY DEF Arrive
<1> DEFINE e == [id |-> id, n |-> Len(arrived[k]) + 1, ts |-> ts]
<1>3. arrived'[k] = Append(arrived[k], e)
  BY <1>1, <1>2
<1>4. /\ Len(arrived'[k]) = Len(arrived[k]) + 1 /\ Len(arrived[k]) \in Nat
      /\ DOMAIN arrived'[k] = 1..(Len(arrived[k]) + 1) /\ DOMAIN arrived[k] = 1..Len(arrived[k])
      /\ \A n \in DOMAIN arrived[k] : arrived'[k][n] = arrived[k][n]
      /\ arrived'[k][Len(arrived[k]) + 1] = e
  BY <1>1, <1>3
<1>5. e.n = Len(arrived[k]) + 1
  OBVIOUS
<1>6. \A n \in DOMAIN arrived'[k] : arrived'[k][n].n = n
  BY <1>4, <1>5 DEF SourcesRight
<1>7. UNCHANGED <<hand, mail, store>>
  BY DEF Arrive
<1>8. \A i \in DOMAIN mail[k] : Managed(k) + i \in DOMAIN arrived[k]
  <2>1. /\ mail[k] \in Seq(Event) /\ DOMAIN mail[k] = 1..Len(mail[k]) /\ Len(mail[k]) \in Nat
        /\ hand[k].got \in Nat
    BY DEF TypeOK
  <2>2. Handed(k) <= hand[k].got /\ Handed(k) \in Int
    BY <2>1 DEF Handed
  <2> QED BY SMTT(30), <1>4, <2>1, <2>2 DEF SourcesRight, Managed
<1>9. Managed(k)' = Managed(k)
  BY <1>7 DEF Managed, Handed
<1>10. \A i \in DOMAIN mail'[k] : mail'[k][i] = arrived'[k][Managed(k)' + i]
  BY <1>4, <1>7, <1>8, <1>9 DEF SourcesRight
<1>11. hand'[k].got <= Len(arrived'[k])
  <2>1. hand[k].got \in Nat
    BY DEF TypeOK
  <2> QED BY <1>4, <1>7, <2>1 DEF SourcesRight
<1> QED BY <1>6, <1>7, <1>9, <1>10, <1>11 DEF SourcesRight

LEMMA PublishSources ==
  ASSUME TypeOK, NEW k \in KindSet, SourcesRight(k), Publish(k)
  PROVE  SourcesRight(k)'
<1>1. /\ hand'[k].step = "hand" /\ hand'[k].got = hand[k].got + 1
      /\ hand[k].step = "recv" /\ hand[k].got \in Nat /\ hand[k].got < Len(arrived[k])
      /\ arrived[k] \in Seq(Event) /\ Len(arrived[k]) \in Nat
  BY DEF Publish, TypeOK
<1>2. UNCHANGED <<arrived, mail, store>>
  BY DEF Publish
<1>3. Managed(k)' = Managed(k)
  BY <1>1, <1>2 DEF Managed, Handed
<1> QED BY <1>1, <1>2, <1>3 DEF SourcesRight

LEMMA HandOverSources ==
  ASSUME TypeOK, NEW k \in KindSet, SourcesRight(k), HandOver(k)
  PROVE  SourcesRight(k)'
<1> DEFINE e == arrived[k][hand[k].got]
<1>1. /\ hand[k].step = "hand" /\ hand[k].got \in Nat
      /\ hand'[k].step = "recv" /\ hand'[k].got = hand[k].got
      /\ mail[k] \in Seq(Event) /\ Len(mail[k]) \in Nat
      /\ mail'[k] = Append(mail[k], e)
  BY DEF HandOver, TypeOK
<1>2. e \in Event
  <2>1. hand[k].got \in 1..Len(arrived[k]) /\ arrived[k] \in Seq(Event)
    BY <1>1 DEF SourcesRight, Managed, Handed, TypeOK
  <2> QED BY <2>1
<1>3. /\ Len(mail'[k]) = Len(mail[k]) + 1
      /\ \A i \in 1..Len(mail[k]) : mail'[k][i] = mail[k][i]
      /\ mail'[k][Len(mail[k]) + 1] = e
      /\ DOMAIN mail'[k] = 1..(Len(mail[k]) + 1) /\ DOMAIN mail[k] = 1..Len(mail[k])
  BY <1>1, <1>2
<1>4. UNCHANGED <<arrived, store>>
  BY DEF HandOver
<1>5. Managed(k) = hand[k].got - 1 - Len(mail[k]) /\ Managed(k)' = Managed(k)
  BY SMTT(30), <1>1, <1>3 DEF Managed, Handed
<1>6. \A i \in DOMAIN mail'[k] : mail'[k][i] = arrived[k][Managed(k) + i]
  <2> SUFFICES ASSUME NEW i \in 1..(Len(mail[k]) + 1) PROVE mail'[k][i] = arrived[k][Managed(k) + i]
    BY <1>3
  <2>1. CASE i \in 1..Len(mail[k])
    BY <1>3, <2>1 DEF SourcesRight
  <2>2. CASE i = Len(mail[k]) + 1
    <3>1. hand[k].got - 1 - Len(mail[k]) + (Len(mail[k]) + 1) = hand[k].got
      BY <1>1
    <3>2. Managed(k) + i = hand[k].got
      BY <1>5, <2>2, <3>1
    <3> QED BY <1>3, <2>2, <3>2
  <2> QED BY <1>1, <2>1, <2>2
<1> QED BY <1>1, <1>4, <1>5, <1>6 DEF SourcesRight

(* The manager takes the first event of its channel.                       *)
LEMMA ManageMeans ==
  ASSUME TypeOK, NEW k \in KindSet, SourcesRight(k), Manage(k)
  PROVE  LET e == Head(mail[k])
         IN  /\ e \in Event /\ e.n = Managed(k) + 1
             /\ Len(mail'[k]) = Len(mail[k]) - 1 /\ Len(mail[k]) \in Nat
             /\ \A i \in DOMAIN mail'[k] : i + 1 \in DOMAIN mail[k] /\ mail'[k][i] = mail[k][i + 1]
             /\ store'[k] = [store[k] EXCEPT ![e.id] =
                               IF Replaces(k, store[k][e.id], e) THEN [n |-> e.n, ts |-> e.ts]
                               ELSE store[k][e.id]]
             /\ Managed(k) \in Nat /\ Managed(k)' = Managed(k) + 1
             /\ UNCHANGED <<arrived, hand>>
             /\ \A j \in KindSet \ {k} : mail'[j] = mail[j] /\ store'[j] = store[j]
<1> DEFINE e == Head(mail[k])
<1>1. /\ mail[k] \in Seq(Event) /\ mail[k] # <<>> /\ mail'[k] = Tail(mail[k])
      /\ UNCHANGED <<arrived, hand>> /\ hand[k].got \in Nat
      /\ arrived[k] \in Seq(Event) /\ Len(arrived[k]) \in Nat
      /\ \A j \in KindSet \ {k} : mail'[j] = mail[j]
  BY DEF Manage, TypeOK
<1>2. /\ store' = [store EXCEPT ![k][e.id] = IF Replaces(k, @, e) THEN [n |-> e.n, ts |-> e.ts] ELSE @]
      /\ store \in [KindSet -> [Ids -> Views]]
  BY DEF Manage, TypeOK
<1>3. /\ Len(mail[k]) \in Nat /\ Len(mail[k]) >= 1 /\ 1 \in DOMAIN mail[k] /\ e = mail[k][1]
      /\ Len(mail'[k]) = Len(mail[k]) - 1
      /\ \A i \in DOMAIN mail'[k] : i + 1 \in DOMAIN mail[k] /\ mail'[k][i] = mail[k][i + 1]
      /\ e \in Event
  BY <1>1
<1>4. Managed(k) \in Nat /\ Managed(k)' = Managed(k) + 1
  <2>1. Handed(k) \in Int /\ Handed(k)' = Handed(k)
    BY <1>1 DEF Handed
  <2>2. Managed(k) = Handed(k) - Len(mail[k]) /\ Managed(k)' = Handed(k)' - Len(mail'[k])
    BY DEF Managed
  <2>3. Managed(k) >= 0
    BY DEF SourcesRight
  <2> QED BY <1>3, <2>1, <2>2, <2>3
<1>5. e = arrived[k][Managed(k) + 1] /\ Managed(k) + 1 \in DOMAIN arrived[k]
  <2>1. Managed(k) + 1 <= hand[k].got
    BY <1>1, <1>3 DEF Managed, Handed
  <2> QED BY <1>1, <1>3, <1>4, <2>1 DEF SourcesRight
<1>6. e.n = Managed(k) + 1
  BY <1>5 DEF SourcesRight
<1>7. /\ store'[k] = [store[k] EXCEPT ![e.id] =
                        IF Replaces(k, store[k][e.id], e) THEN [n |-> e.n, ts |-> e.ts]
                        ELSE store[k][e.id]]
      /\ \A j \in KindSet \ {k} : store'[j] = store[j]
  BY <1>2
<1> QED BY <1>1, <1>3, <1>4, <1>6, <1>7

(* What a manager shows of any id only moves forward.                      *)
LEMMA ManageMovesForward ==
  ASSUME TypeOK, NEW k \in KindSet, SourcesRight(k), Manage(k)
  PROVE  /\ NoNewer(k, store[k], store'[k])
         /\ \A id \in Ids : store'[k][id].n <= Managed(k) + 1
<1> DEFINE e == Head(mail[k])
<1>1. /\ e \in Event /\ e.n = Managed(k) + 1
      /\ store'[k] = [store[k] EXCEPT ![e.id] =
                        IF Replaces(k, store[k][e.id], e) THEN [n |-> e.n, ts |-> e.ts]
                        ELSE store[k][e.id]]
      /\ Managed(k) \in Nat
  BY ManageMeans
<1>2. store[k] \in [Ids -> Views] /\ e.n \in Nat /\ e.ts \in Nat /\ e.id \in Ids
  BY <1>1, PublisherBoundsAssumption DEF TypeOK, Event
<1>3. \A id \in Ids : /\ store[k][id].n \in Nat /\ store[k][id].ts \in Nat
                      /\ store[k][id].n <= Managed(k)
  BY <1>2, PublisherBoundsAssumption DEF Views, SourcesRight
<1>4. ASSUME NEW id \in Ids
      PROVE  /\ store[k][id].n <= store'[k][id].n
             /\ k = "stop_order" => store[k][id].ts <= store'[k][id].ts
             /\ store'[k][id].n <= Managed(k) + 1
  <2>1. CASE store'[k][id] = store[k][id]
    BY <1>1, <1>3, <2>1
  <2>2. CASE store'[k][id] # store[k][id]
    <3>1. id = e.id /\ Replaces(k, store[k][e.id], e) /\ store'[k][id] = [n |-> e.n, ts |-> e.ts]
      BY <1>1, <1>2, <2>2
    <3>2. store'[k][id].n = Managed(k) + 1 /\ store'[k][id].ts = e.ts
      BY <1>1, <3>1
    <3>3. k = "stop_order" => store[k][id].ts <= e.ts
      <4> SUFFICES ASSUME k = "stop_order" PROVE store[k][id].ts <= e.ts
        OBVIOUS
      <4>1. store[k][id] = None \/ store[k][id].ts = 0 \/ e.ts >= store[k][id].ts
        BY <3>1 DEF Replaces
      <4>2. store[k][id] = None => store[k][id].ts = 0
        BY DEF None
      <4> QED BY <1>2, <1>3, <4>1, <4>2
    <3>4. store[k][id].n <= Managed(k) + 1
      BY <1>1, <1>3
    <3> QED BY <1>1, <1>2, <1>3, <3>2, <3>3, <3>4
  <2> QED BY <2>1, <2>2
<1> QED BY <1>4 DEF NoNewer

LEMMA ManageSources ==
  ASSUME TypeOK, NEW k \in KindSet, SourcesRight(k), Manage(k)
  PROVE  SourcesRight(k)'
<1>1. /\ UNCHANGED <<arrived, hand>> /\ Managed(k) \in Nat /\ Managed(k)' = Managed(k) + 1
      /\ \A i \in DOMAIN mail'[k] : i + 1 \in DOMAIN mail[k] /\ mail'[k][i] = mail[k][i + 1]
      /\ Len(mail'[k]) = Len(mail[k]) - 1 /\ Len(mail[k]) \in Nat
      /\ mail[k] \in Seq(Event) /\ mail'[k] = Tail(mail[k]) /\ mail[k] # <<>>
  BY ManageMeans DEF Manage, TypeOK
<1>2. \A i \in DOMAIN mail'[k] : mail'[k][i] = arrived'[k][Managed(k)' + i]
  <2> SUFFICES ASSUME NEW i \in DOMAIN mail'[k] PROVE mail'[k][i] = arrived[k][Managed(k) + 1 + i]
    BY <1>1
  <2>1. mail'[k][i] = arrived[k][Managed(k) + (i + 1)]
    BY <1>1 DEF SourcesRight
  <2>2. i \in Nat
    BY <1>1
  <2>3. Managed(k) + (i + 1) = Managed(k) + 1 + i
    BY <1>1, <2>2
  <2> QED BY <2>1, <2>3
<1>3. \A id \in Ids : store'[k][id].n <= Managed(k)'
  BY <1>1, ManageMovesForward
<1> QED BY <1>1, <1>2, <1>3 DEF SourcesRight

LEMMA StepSources ==
  ASSUME TypeOK, NEW k \in KindSet, SourcesRight(k), [Next]_vars
  PROVE  SourcesRight(k)'
<1>1. ASSUME NEW j \in KindSet, Arrive(j) \/ Publish(j) \/ HandOver(j) \/ Manage(j)
      PROVE  SourcesRight(k)'
  <2>1. CASE j = k
    BY <1>1, <2>1, ArriveSources, PublishSources, HandOverSources, ManageSources
  <2>2. CASE j # k
    <3>1. arrived'[k] = arrived[k] /\ hand'[k] = hand[k] /\ mail'[k] = mail[k] /\ store'[k] = store[k]
      BY <1>1, <2>2 DEF Arrive, Publish, HandOver, Manage, TypeOK
    <3> QED BY <3>1, SourcesStay
  <2> QED BY <2>1, <2>2
<1>2. CASE Reporter \/ Publisher \/ Shutdown \/ UNCHANGED vars
  <2>1. UNCHANGED sourceVars
    BY <1>2 DEF Reporter, Publisher, Shutdown, vars, HealthTick, SnapshotTick, SendSnapshot,
       TakeMessage, SeeShutdown, EndPublisher, Write, WriteFails
  <2> QED BY <2>1, SourcesStay DEF sourceVars
<1> QED BY <1>1, <1>2, NextSteps DEF SourceStep

-----------------------------------------------------------------------------
(* The invariant of the queue and the publisher.                           *)

(* A message that Next publishes is one of these.                          *)
Publishes(m) ==
  \/ \E k \in KindSet : Publish(k) /\ m = [kind |-> k, event |-> arrived[k][hand[k].got + 1]]
  \/ HealthTick /\ m = [kind |-> "health"]
  \/ SendSnapshot /\ m = Head(reporter)

LEMMA PublishesMessage ==
  ASSUME TypeOK, NEW m, Publishes(m)
  PROVE  /\ m \in Message /\ (Enqueue(m) \/ UNCHANGED queueVars)
         /\ UNCHANGED <<publisher, written>>
<1>1. CASE \E k \in KindSet : Publish(k) /\ m = [kind |-> k, event |-> arrived[k][hand[k].got + 1]]
  <2> PICK k \in KindSet : Publish(k) /\ m = [kind |-> k, event |-> arrived[k][hand[k].got + 1]]
    BY <1>1
  <2>1. /\ hand[k].got < Len(arrived[k]) /\ hand[k].got \in 0..MaxEvents
        /\ arrived[k] \in Seq(Event)
    BY DEF Publish, TypeOK
  <2>2. arrived[k][hand[k].got + 1] \in Event
    BY <2>1, PublisherBoundsAssumption
  <2> QED BY <2>2, PublishMeans DEF Publish, Message, writerVars
<1>2. CASE HealthTick /\ m = [kind |-> "health"]
  BY <1>2, PublishMeans DEF HealthTick, Message, writerVars
<1>3. CASE SendSnapshot /\ m = Head(reporter)
  <2>1. m \in Snapshot
    <3>1. reporter \in BoundedSeq(Snapshot, 1) /\ reporter # <<>>
      BY <1>3, TypeParts DEF SendSnapshot, ReporterType
    <3> QED BY <1>3, <3>1, AtMostOne
  <2>2. m \in Message
    BY <2>1 DEF Snapshot, Message
  <2> QED BY <1>3, <2>2, PublishMeans DEF SendSnapshot, writerVars
<1> QED BY <1>1, <1>2, <1>3 DEF Publishes

(* Every step publishes a message, is one of the publisher, or does        *)
(* neither.                                                                *)
LEMMA QueueSteps ==
  [Next]_vars => \/ \E m : Publishes(m)
                 \/ Publisher
                 \/ UNCHANGED <<queueVars, publisher, written>>
<1> SUFFICES ASSUME [Next]_vars, ~ Publisher
             PROVE  (\E m : Publishes(m)) \/ UNCHANGED <<queueVars, publisher, written>>
  OBVIOUS
<1>1. CASE SourceStep
  <2>1. ASSUME NEW k \in KindSet, Publish(k) PROVE \E m : Publishes(m)
    BY <2>1 DEF Publishes
  <2>2. ASSUME NEW k \in KindSet, Arrive(k) \/ HandOver(k) \/ Manage(k)
        PROVE  UNCHANGED <<queueVars, publisher, written>>
    BY <2>2 DEF Arrive, HandOver, Manage, writerVars
  <2> QED BY <1>1, <2>1, <2>2 DEF SourceStep
<1>2. CASE Reporter
  <2>1. HealthTick \/ SendSnapshot => \E m : Publishes(m)
    BY DEF Publishes
  <2>2. SnapshotTick => UNCHANGED <<queueVars, publisher, written>>
    BY DEF SnapshotTick, writerVars
  <2> QED BY <1>2, <2>1, <2>2 DEF Reporter
<1>3. CASE Shutdown \/ UNCHANGED vars
  BY <1>3 DEF Shutdown, vars, writerVars
<1> QED BY <1>1, <1>2, <1>3, NextSteps

LEMMA StepWriter ==
  ASSUME TypeOK, WriterRight, [Next]_vars
  PROVE  WriterRight'
<1>0. /\ accepted \in Seq(Message) /\ Len(accepted) \in Nat /\ DOMAIN accepted = 1..Len(accepted)
      /\ queue \in Seq(DOMAIN accepted) /\ Len(queue) \in Nat /\ DOMAIN queue = 1..Len(queue)
      /\ Taken \in Int /\ publisher.msg \in Nat
  BY DEF TypeOK, Taken
<1>1. ASSUME NEW m, Publishes(m) PROVE WriterRight'
  <2>1. m \in Message /\ (Enqueue(m) \/ UNCHANGED queueVars) /\ UNCHANGED <<publisher, written>>
    BY <1>1, PublishesMessage
  <2>2. CASE Enqueue(m)
    <3>1. /\ accepted' = Append(accepted, m) /\ queue' = Append(queue, Len(accepted) + 1)
          /\ Len(accepted') = Len(accepted) + 1
      BY <1>0, <2>1, <2>2 DEF Enqueue
    <3>2. queue \in Seq(Nat) /\ Len(accepted) + 1 \in Nat
      BY <1>0
    <3>3. /\ Len(queue') = Len(queue) + 1 /\ DOMAIN queue' = 1..(Len(queue) + 1)
          /\ \A i \in 1..Len(queue) : queue'[i] = queue[i]
          /\ queue'[Len(queue) + 1] = Len(accepted) + 1
      BY <3>1, <3>2
    <3>4. Taken' = Taken
      BY <1>0, <3>1, <3>3 DEF Taken
    <3>5. Taken + (Len(queue) + 1) = Len(accepted) + 1
      BY <1>0 DEF Taken
    <3>6. \A i \in DOMAIN queue' : queue'[i] = Taken + i
      <4> SUFFICES ASSUME NEW i \in 1..(Len(queue) + 1) PROVE queue'[i] = Taken + i
        BY <3>3
      <4>1. CASE i \in 1..Len(queue)
        BY <1>0, <3>3, <4>1 DEF WriterRight
      <4>2. CASE i = Len(queue) + 1
        BY <3>3, <3>5, <4>2
      <4> QED BY <1>0, <4>1, <4>2
    <3> QED BY <2>1, <3>4, <3>6 DEF WriterRight
  <2>3. CASE UNCHANGED queueVars
    BY <2>1, <2>3 DEF WriterRight, Taken, queueVars
  <2> QED BY <2>1, <2>2, <2>3
<1>2. CASE TakeMessage
  <2>1. /\ queue # <<>> /\ queue' = Tail(queue) /\ accepted' = accepted /\ written' = written
        /\ publisher.pc = "select" /\ publisher'.pc = "write" /\ publisher'.msg = Head(queue)
    BY <1>2 DEF TakeMessage, TypeOK
  <2>2. /\ Len(queue) >= 1 /\ Head(queue) = queue[1] /\ Len(queue') = Len(queue) - 1
        /\ DOMAIN queue' = 1..(Len(queue) - 1)
        /\ \A i \in 1..(Len(queue) - 1) : queue'[i] = queue[i + 1]
    BY <1>0, <2>1
  <2>3. Taken' = Taken + 1
    BY <1>0, <2>1, <2>2 DEF Taken
  <2>4. Head(queue) = Taken + 1
    <3>1. 1 \in DOMAIN queue
      BY <1>0, <2>2
    <3> QED BY <2>2, <3>1 DEF WriterRight
  <2>5. \A i \in DOMAIN queue' : queue'[i] = Taken' + i
    <3> SUFFICES ASSUME NEW i \in 1..(Len(queue) - 1) PROVE queue[i + 1] = Taken + 1 + i
      BY <2>2, <2>3
    <3>1. i + 1 \in DOMAIN queue
      BY <1>0
    <3>2. queue[i + 1] = Taken + (i + 1)
      BY <3>1 DEF WriterRight
    <3> QED BY <1>0, <3>2
  <2>6. written = 1..Taken /\ Taken = Taken' - 1
    BY <1>0, <2>1, <2>3 DEF WriterRight
  <2>7. Taken' >= 0
    BY <1>0, <2>3 DEF WriterRight
  <2> QED BY <2>1, <2>3, <2>4, <2>5, <2>6, <2>7 DEF WriterRight
<1>3. CASE SeeShutdown \/ EndPublisher
  <2>1. publisher.pc = "select" /\ publisher'.pc # "write" /\ UNCHANGED <<queueVars, written>>
    BY <1>3 DEF SeeShutdown, EndPublisher, TypeOK
  <2> QED BY <2>1 DEF WriterRight, Taken, queueVars
<1>4. CASE Write \/ WriteFails
  <2>1. /\ publisher.pc = "write" /\ UNCHANGED queueVars
        /\ written' \in {written, written \union {publisher.msg}}
        /\ \/ publisher' = publisher
           \/ publisher'.pc = "select" /\ written' = written \union {publisher.msg}
    <3>1. CASE WriteFails
      BY <3>1 DEF WriteFails
    <3>2. CASE Write
      BY <3>2 DEF Write, TypeOK
    <3> QED BY <1>4, <3>1, <3>2
  <2>2. publisher.msg = Taken /\ written \in {1..(Taken - 1), 1..Taken} /\ Taken >= 1
    <3>1. publisher.msg > 0
      BY <2>1 DEF TypeOK
    <3>2. publisher.msg = Taken /\ written \in {1..(Taken - 1), 1..Taken}
      BY <2>1 DEF WriterRight
    <3> QED BY <1>0, <3>1, <3>2
  <2>3. (1..(Taken - 1)) \union {Taken} = 1..Taken /\ (1..Taken) \union {Taken} = 1..Taken
    BY <1>0, <2>2
  <2>4. written \union {publisher.msg} = 1..Taken
    BY <2>2, <2>3
  <2>5. Taken' = Taken
    BY <2>1 DEF Taken, queueVars
  <2>6. written' \in {1..(Taken - 1), 1..Taken}
    BY <2>1, <2>2, <2>4
  <2> QED BY <2>1, <2>2, <2>4, <2>5, <2>6 DEF WriterRight, queueVars
<1>5. CASE UNCHANGED <<queueVars, publisher, written>>
  BY <1>5 DEF WriterRight, Taken, queueVars
<1> QED BY <1>1, <1>2, <1>3, <1>4, <1>5, QueueSteps DEF Publisher

-----------------------------------------------------------------------------
(* The invariant of the events in the queue.                               *)

(* What arrived stays where it is, and only Publish takes it.              *)
LEMMA ArrivedStays ==
  ASSUME TypeOK, NEW k \in KindSet, [Next]_vars
  PROVE  /\ DOMAIN arrived[k] \subseteq DOMAIN arrived'[k]
         /\ \A n \in DOMAIN arrived[k] : arrived'[k][n] = arrived[k][n]
         /\ Publish(k) \/ hand'[k].got = hand[k].got
<1>0. arrived \in [KindSet -> Seq(Event)] /\ hand \in [KindSet -> [step : {"recv", "hand"}, got : 0..MaxEvents]]
  BY DEF TypeOK
<1>1. ASSUME NEW j \in KindSet, Arrive(j)
      PROVE  /\ DOMAIN arrived[k] \subseteq DOMAIN arrived'[k]
             /\ \A n \in DOMAIN arrived[k] : arrived'[k][n] = arrived[k][n]
             /\ hand'[k] = hand[k]
  <2>1. PICK e : arrived' = [arrived EXCEPT ![j] = Append(@, e)]
    BY <1>1 DEF Arrive
  <2>2. arrived'[k] = arrived[k] \/ arrived'[k] = Append(arrived[k], e)
    BY <1>0, <2>1
  <2>3. arrived[k] \in Seq(Event) /\ hand' = hand
    BY <1>0, <1>1 DEF Arrive
  <2>4. /\ DOMAIN arrived[k] \subseteq DOMAIN Append(arrived[k], e)
        /\ \A n \in DOMAIN arrived[k] : Append(arrived[k], e)[n] = arrived[k][n]
    BY <2>3
  <2> QED BY <2>2, <2>3, <2>4
<1>2. ASSUME NEW j \in KindSet, Publish(j) \/ HandOver(j) \/ Manage(j)
      PROVE  arrived' = arrived /\ (Publish(k) \/ hand'[k].got = hand[k].got)
  <2>1. arrived' = arrived
    BY <1>2 DEF Publish, HandOver, Manage
  <2>2. CASE Publish(j)
    <3>1. j # k => hand'[k] = hand[k]
      BY <1>0, <2>2 DEF Publish
    <3> QED BY <2>1, <2>2, <3>1
  <2>3. CASE HandOver(j)
    BY <1>0, <2>1, <2>3 DEF HandOver
  <2>4. CASE Manage(j)
    BY <2>1, <2>4 DEF Manage
  <2> QED BY <1>2, <2>2, <2>3, <2>4
<1>3. CASE Reporter \/ Publisher \/ Shutdown \/ UNCHANGED vars
  BY <1>3 DEF Reporter, Publisher, Shutdown, vars, HealthTick, SnapshotTick, SendSnapshot,
     TakeMessage, SeeShutdown, EndPublisher, Write, WriteFails, sourceVars
<1> QED BY <1>1, <1>2, <1>3, NextSteps DEF SourceStep

LEMMA PublisherLeavesEvents ==
  ASSUME TypeOK, Publisher
  PROVE  accepted' = accepted /\ UNCHANGED <<arrived, hand>> /\ (Closed => Closed')
BY DEF Publisher, TakeMessage, SeeShutdown, EndPublisher, Write, WriteFails, sourceVars, queueVars,
   Closed, TypeOK

LEMMA StepEvents ==
  ASSUME TypeOK, NEW k \in KindSet, EventsRight(k), [Next]_vars
  PROVE  EventsRight(k)'
<1> DEFINE n == Len(accepted)
<1>0. accepted \in Seq(Message) /\ n \in Nat /\ DOMAIN accepted = 1..n /\ hand[k].got \in Nat
  BY DEF TypeOK
<1>1. ASSUME accepted' = accepted, Closed => Closed', Closed' \/ hand'[k].got = hand[k].got
      PROVE  EventsRight(k)'
  <2>1. \A i : Rank(k, i)' = Rank(k, i)
    BY <1>1 DEF Rank
  <2>2. Rank(k, Len(accepted))' = Rank(k, Len(accepted))
    BY <1>1 DEF Rank
  <2> QED BY <1>1, <2>1, <2>2, ArrivedStays DEF EventsRight
<1>2. ASSUME NEW m, Publishes(m), Enqueue(m) PROVE EventsRight(k)'
  <2>1. m \in Message /\ UNCHANGED publisher /\ accepted' = Append(accepted, m) /\ ~Closed
    BY <1>2, PublishesMessage DEF Enqueue
  <2>2. /\ accepted' \in Seq(Message) /\ Len(accepted') = n + 1 /\ DOMAIN accepted' = 1..(n + 1)
        /\ \A i \in 1..n : accepted'[i] = accepted[i]
        /\ accepted'[n + 1] = m
    BY <1>0, <2>1
  <2>3. PICK r : r = n
    OBVIOUS
  <2>4. /\ \A i \in 0..n : Rank(k, i)' = Rank(k, i)
        /\ Rank(k, r + 1)' = IF m.kind = k THEN Rank(k, n) + 1 ELSE Rank(k, n)
    BY ZenonT(30), <1>0, <2>1, <2>3, RankOfNext
  <2>5. Rank(k, Len(accepted))' = Rank(k, r + 1)'
    BY <2>2, <2>3 DEF Rank
  <2>6. Rank(k, n) = hand[k].got
    BY <2>1 DEF EventsRight
  <2>7. CASE m.kind = k
    <3>1. Publish(k) /\ m = [kind |-> k, event |-> arrived[k][hand[k].got + 1]]
      <4>1. "health" # k /\ "snapshot" # k
        BY KindsAreFinite
      <4>2. ~ (m = [kind |-> "health"])
        BY <2>7, <4>1
      <4>3. SendSnapshot => Head(reporter).kind = "snapshot"
        <5>1. SendSnapshot => reporter \in BoundedSeq(Snapshot, 1) /\ reporter # <<>>
          BY TypeParts DEF SendSnapshot, ReporterType
        <5>2. SendSnapshot => Head(reporter) \in Snapshot
          BY <5>1, AtMostOne
        <5> QED BY <5>2 DEF Snapshot
      <4>4. PICK j \in KindSet : Publish(j) /\ m = [kind |-> j, event |-> arrived[j][hand[j].got + 1]]
        BY <1>2, <2>7, <4>1, <4>2, <4>3 DEF Publishes
      <4> QED BY <2>7, <4>4
    <3>2. hand'[k].got = hand[k].got + 1
      BY <3>1 DEF Publish, TypeOK
    <3>3. hand[k].got + 1 \in DOMAIN arrived[k]
      <4>1. arrived[k] \in Seq(Event) /\ hand[k].got < Len(arrived[k])
        BY <3>1 DEF Publish, TypeOK
      <4> QED BY <1>0, <4>1
    <3>4. ASSUME NEW i \in 1..(n + 1), accepted'[i].kind = k
          PROVE  Rank(k, i)' \in DOMAIN arrived[k] /\ accepted'[i].event = arrived[k][Rank(k, i)']
      <4>1. CASE i \in 1..n
        <5>1. i \in 0..n /\ accepted'[i] = accepted[i] /\ i \in DOMAIN accepted
          BY <1>0, <2>2, <4>1
        <5> QED BY <2>4, <3>4, <5>1 DEF EventsRight
      <4>2. CASE i = n + 1
        <5>1. Rank(k, i)' = hand[k].got + 1
          BY <2>3, <2>4, <2>6, <2>7, <4>2
        <5>2. accepted'[i].event = arrived[k][hand[k].got + 1]
          BY <2>2, <3>1, <4>2
        <5> QED BY <3>3, <5>1, <5>2
      <4> QED BY <1>0, <4>1, <4>2
    <3>5. \A i \in DOMAIN accepted' : accepted'[i].kind = k =>
            Rank(k, i)' \in DOMAIN arrived'[k] /\ accepted'[i].event = arrived'[k][Rank(k, i)']
      BY <2>2, <3>4, ArrivedStays
    <3>6. Rank(k, Len(accepted))' = hand'[k].got
      BY <2>4, <2>5, <2>6, <2>7, <3>2
    <3> QED BY <3>5, <3>6 DEF EventsRight
  <2>8. CASE m.kind # k
    <3>1. ~ Publish(k)
      <4> SUFFICES ASSUME Publish(k) PROVE FALSE
        OBVIOUS
      <4>1. \A j \in KindSet : Publish(j) => j = k
        BY DEF Publish, TypeOK
      <4>2. ~ HealthTick /\ ~ SendSnapshot
        BY DEF Publish, HealthTick, SendSnapshot, sourceVars, TypeOK
      <4>3. m.kind = k
        BY <1>2, <4>1, <4>2 DEF Publishes
      <4> QED BY <2>8, <4>3
    <3>2. hand'[k].got = hand[k].got
      BY <3>1, ArrivedStays
    <3>3. \A i \in DOMAIN accepted' : accepted'[i].kind = k =>
            Rank(k, i)' \in DOMAIN arrived'[k] /\ accepted'[i].event = arrived'[k][Rank(k, i)']
      <4> SUFFICES ASSUME NEW i \in 1..(n + 1), accepted'[i].kind = k
                   PROVE  Rank(k, i)' \in DOMAIN arrived[k] /\ accepted'[i].event = arrived[k][Rank(k, i)']
        BY <2>2, ArrivedStays
      <4>1. i \in 1..n
        BY <1>0, <2>2, <2>8
      <4>2. i \in 0..n /\ accepted'[i] = accepted[i] /\ i \in DOMAIN accepted
        BY <1>0, <2>2, <4>1
      <4> QED BY <2>4, <4>2 DEF EventsRight
    <3>4. Rank(k, Len(accepted))' = hand'[k].got
      BY <2>4, <2>5, <2>6, <2>8, <3>2
    <3> QED BY <3>3, <3>4 DEF EventsRight
  <2> QED BY <2>7, <2>8
<1>3. ASSUME NEW m, Publishes(m), ~ Enqueue(m) PROVE EventsRight(k)'
  <2>1. UNCHANGED queueVars /\ UNCHANGED publisher
    BY <1>3, PublishesMessage
  <2>2. Closed' <=> Closed
    BY <2>1 DEF Closed
  <2>3. Publish(k) => Closed
    <3> SUFFICES ASSUME Publish(k) PROVE Closed
      OBVIOUS
    <3>1. \A j \in KindSet : Publish(j) => j = k
      BY DEF Publish, TypeOK
    <3>2. ~ HealthTick /\ ~ SendSnapshot
      BY DEF Publish, HealthTick, SendSnapshot, sourceVars, TypeOK
    <3>3. m = [kind |-> k, event |-> arrived[k][hand[k].got + 1]]
      BY <1>3, <3>1, <3>2 DEF Publishes
    <3> QED BY <1>3, <3>3 DEF Publish, PublishCritical
  <2> QED BY <1>1, <2>1, <2>2, <2>3, ArrivedStays DEF queueVars
<1>4. CASE Publisher
  BY <1>1, <1>4, PublisherLeavesEvents
<1>5. CASE UNCHANGED <<queueVars, publisher, written>>
  <2>1. CASE Publish(k)
    <3>1. CASE Closed
      BY <1>1, <1>5, <3>1 DEF Closed, queueVars
    <3>2. CASE ~Closed
      <4>1. accepted' # accepted
        BY <1>0, <2>1, <3>2 DEF Publish, PublishCritical, Enqueue
      <4> QED BY <1>5, <4>1 DEF queueVars
    <3> QED BY <3>1, <3>2
  <2>2. CASE ~ Publish(k)
    BY <1>1, <1>5, <2>2, ArrivedStays DEF Closed, queueVars
  <2> QED BY <2>1, <2>2
<1> QED BY <1>2, <1>3, <1>4, <1>5, QueueSteps

-----------------------------------------------------------------------------
(* The invariant of the snapshots.                                         *)
LEMMA NoNewerOrder ==
  ASSUME NEW u \in [Ids -> Views], NEW v \in [Ids -> Views], NEW w \in [Ids -> Views]
  PROVE  \A k : NoNewer(k, u, u) /\ (NoNewer(k, u, v) /\ NoNewer(k, v, w) => NoNewer(k, u, w))
<1>1. \A x \in Views : x.n \in Int /\ x.ts \in Int
  BY PublisherBoundsAssumption DEF Views
<1>2. \A id \in Ids : u[id] \in Views /\ v[id] \in Views /\ w[id] \in Views
  OBVIOUS
<1> QED BY <1>1, <1>2 DEF NoNewer

(* The managers only move forward.                                         *)
LEMMA StoreMovesForward ==
  ASSUME TypeOK, \A k \in KindSet : SourcesRight(k), [Next]_vars
  PROVE  \A k \in KindSet : NoNewer(k, store[k], store'[k])
<1> SUFFICES ASSUME NEW k \in KindSet PROVE NoNewer(k, store[k], store'[k])
  OBVIOUS
<1>0. store \in [KindSet -> [Ids -> Views]]
  BY DEF TypeOK
<1>1. CASE store'[k] = store[k]
  BY <1>0, <1>1, NoNewerOrder
<1>2. CASE store'[k] # store[k]
  <2>1. ASSUME NEW j \in KindSet, Arrive(j) \/ Publish(j) \/ HandOver(j) PROVE FALSE
    BY <1>2, <2>1 DEF Arrive, Publish, HandOver
  <2>2. ASSUME Reporter \/ Publisher \/ Shutdown \/ UNCHANGED vars PROVE FALSE
    BY <1>2, <2>2 DEF Reporter, Publisher, Shutdown, vars, HealthTick, SnapshotTick, SendSnapshot,
       TakeMessage, SeeShutdown, EndPublisher, Write, WriteFails, sourceVars
  <2>3. PICK j \in KindSet : Manage(j)
    BY <2>1, <2>2, NextSteps DEF SourceStep
  <2>4. j = k
    BY <1>0, <1>2, <2>3 DEF Manage
  <2> QED BY <2>3, <2>4, ManageMovesForward
<1> QED BY <1>1, <1>2

(* What Next does to the snapshots: it sends the one that waits and takes  *)
(* the next, drops it, takes the first one, or leaves them.                *)
LEMMA SnapshotSteps ==
  ASSUME TypeOK, [Next]_vars
  PROVE  \/ /\ \/ accepted' = accepted
               \/ \E m : accepted' = Append(accepted, m) /\ m \in Message /\ m.kind # "snapshot"
            /\ \/ reporter' = reporter
               \/ /\ reporter = <<>> /\ UNCHANGED store
                  /\ \E k \in KindSet : reporter' = <<SnapshotOf(k)>>
         \/ /\ reporter # <<>> /\ UNCHANGED store
            /\ accepted' = Append(accepted, reporter[1]) \/ accepted' = accepted
            /\ reporter' = <<>> \/ \E k \in KindSet : reporter' = <<SnapshotOf(k)>>
<1>0. accepted \in Seq(Message) /\ reporter \in BoundedSeq(Snapshot, 1)
  BY TypeParts DEF QueueType, ReporterType
<1>1. ASSUME NEW k \in KindSet, Arrive(k) \/ HandOver(k) \/ Manage(k)
      PROVE  accepted' = accepted /\ reporter' = reporter
  BY <1>1 DEF Arrive, HandOver, Manage, reporterVars, queueVars
<1>2. ASSUME NEW k \in KindSet, Publish(k)
      PROVE  /\ reporter' = reporter
             /\ \/ accepted' = accepted
                \/ \E m : accepted' = Append(accepted, m) /\ m \in Message /\ m.kind # "snapshot"
  <2> DEFINE m == [kind |-> k, event |-> arrived[k][hand[k].got + 1]]
  <2>1. m \in Message /\ (Enqueue(m) \/ UNCHANGED queueVars)
    BY <1>2, PublishesMessage DEF Publishes
  <2>2. m.kind # "snapshot"
    BY KindsAreFinite
  <2>3. accepted' = accepted \/ accepted' = Append(accepted, m)
    BY <2>1 DEF Enqueue, queueVars
  <2>4. reporter' = reporter
    BY <1>2 DEF Publish, reporterVars
  <2> QED BY <2>1, <2>2, <2>3, <2>4
<1>3. ASSUME HealthTick
      PROVE  /\ reporter' = reporter
             /\ \/ accepted' = accepted
                \/ \E m : accepted' = Append(accepted, m) /\ m \in Message /\ m.kind # "snapshot"
  <2> DEFINE m == [kind |-> "health"]
  <2>1. m \in Message /\ (Enqueue(m) \/ UNCHANGED queueVars)
    BY <1>3, PublishesMessage DEF Publishes
  <2>2. accepted' = accepted \/ accepted' = Append(accepted, m)
    BY <2>1 DEF Enqueue, queueVars
  <2>3. reporter' = reporter /\ m.kind # "snapshot"
    BY <1>3 DEF HealthTick
  <2> QED BY <2>1, <2>2, <2>3
<1>4. ASSUME SnapshotTick
      PROVE  /\ accepted' = accepted /\ reporter = <<>> /\ UNCHANGED store
             /\ \E k \in KindSet : reporter' = <<SnapshotOf(k)>>
  BY <1>4, KindsAreFinite DEF SnapshotTick, queueVars, sourceVars
<1>5. ASSUME SendSnapshot
      PROVE  /\ reporter # <<>> /\ UNCHANGED store
             /\ accepted' = Append(accepted, reporter[1]) \/ accepted' = accepted
             /\ reporter' = <<>> \/ \E k \in KindSet : reporter' = <<SnapshotOf(k)>>
  <2>1. reporter # <<>> /\ UNCHANGED store
    BY <1>5 DEF SendSnapshot, sourceVars
  <2>2. Head(reporter) = reporter[1] /\ Head(reporter) \in Snapshot
    BY <1>0, <2>1, AtMostOne
  <2>3. accepted' = Append(accepted, reporter[1]) \/ accepted' = accepted
    <3>1. Enqueue(Head(reporter)) \/ UNCHANGED queueVars
      BY <1>5, PublishMeans DEF SendSnapshot
    <3> QED BY <2>2, <3>1 DEF Enqueue, queueVars
  <2>4. Head(reporter).of \in KindSet
    BY <2>2 DEF Snapshot
  <2>5. reporter' = <<>> \/ \E k \in KindSet : reporter' = <<SnapshotOf(k)>>
    BY <1>5, <2>4, NextKind DEF SendSnapshot
  <2> QED BY <2>1, <2>3, <2>5
<1>6. CASE Publisher \/ Shutdown \/ UNCHANGED vars
  BY <1>6 DEF Publisher, Shutdown, vars, TakeMessage, SeeShutdown, EndPublisher, Write, WriteFails,
     reporterVars, queueVars
<1> QED BY <1>1, <1>2, <1>3, <1>4, <1>5, <1>6, NextSteps DEF SourceStep, Reporter

LEMMA SnapshotMessage ==
  ASSUME NEW m \in Message, m.kind = "snapshot"
  PROVE  m.of \in KindSet /\ m.view \in [Ids -> Views]
<1>1. "snapshot" \notin KindSet
  BY KindsAreFinite
<1> QED BY <1>1 DEF Message

LEMMA MoveForwardMeans ==
  /\ SnapshotsMoveForward <=>
       \A i, j \in DOMAIN accepted :
         (/\ i < j
          /\ accepted[i].kind = "snapshot" /\ accepted[j].kind = "snapshot"
          /\ accepted[i].of = accepted[j].of)
         => NoNewer(accepted[i].of, accepted[i].view, accepted[j].view)
  /\ SnapshotsMoveForward' <=>
       \A i, j \in DOMAIN accepted' :
         (/\ i < j
          /\ accepted'[i].kind = "snapshot" /\ accepted'[j].kind = "snapshot"
          /\ accepted'[i].of = accepted'[j].of)
         => NoNewer(accepted'[i].of, accepted'[i].view, accepted'[j].view)
BY DEF SnapshotsMoveForward, NoNewer

(* Sent snapshots are not newer than the managers after the step either;   *)
(* neither is one that waits.                                              *)
LEMMA StepSnapshots ==
  ASSUME TypeOK, \A k \in KindSet : SourcesRight(k), SnapshotsRight, SnapshotsMoveForward, [Next]_vars
  PROVE  SnapshotsRight' /\ SnapshotsMoveForward'
<1> DEFINE n == Len(accepted)
<1>0. /\ accepted \in Seq(Message) /\ n \in Nat /\ DOMAIN accepted = 1..n
      /\ reporter \in BoundedSeq(Snapshot, 1)
      /\ store \in [KindSet -> [Ids -> Views]]
  BY TypeParts DEF SourcesType, QueueType, ReporterType
<1>1. store' \in [KindSet -> [Ids -> Views]] /\ reporter' \in BoundedSeq(Snapshot, 1)
  <2>1. TypeOK'
    BY StepType
  <2> QED BY <2>1, TypeParts DEF SourcesType, ReporterType, Snapshot
<1>2. \A k \in KindSet : NoNewer(k, store[k], store'[k])
  BY StoreMovesForward
<1>3. ASSUME NEW i \in DOMAIN accepted, accepted[i].kind = "snapshot"
      PROVE  /\ accepted[i].of \in KindSet /\ accepted[i].view \in [Ids -> Views]
             /\ NoNewer(accepted[i].of, accepted[i].view, store'[accepted[i].of])
  <2>1. accepted[i] \in Message
    BY <1>0
  <2>2. accepted[i].of \in KindSet /\ accepted[i].view \in [Ids -> Views]
    BY <1>3, <2>1, SnapshotMessage
  <2>3. NoNewer(accepted[i].of, accepted[i].view, store[accepted[i].of])
    BY <1>3 DEF SnapshotsRight
  <2>4. NoNewer(accepted[i].of, store[accepted[i].of], store'[accepted[i].of])
    BY <1>2, <2>2
  <2>5. store[accepted[i].of] \in [Ids -> Views] /\ store'[accepted[i].of] \in [Ids -> Views]
    BY <1>0, <1>1, <2>2
  <2> QED BY <2>2, <2>3, <2>4, <2>5, NoNewerOrder
<1>4. reporter # <<>> =>
        /\ reporter[1] \in Message /\ reporter[1].kind = "snapshot"
        /\ reporter[1].of \in KindSet /\ reporter[1].view \in [Ids -> Views]
        /\ NoNewer(reporter[1].of, reporter[1].view, store'[reporter[1].of])
  <2> SUFFICES ASSUME reporter # <<>>
               PROVE  /\ reporter[1] \in Message /\ reporter[1].kind = "snapshot"
                      /\ reporter[1].of \in KindSet /\ reporter[1].view \in [Ids -> Views]
                      /\ NoNewer(reporter[1].of, reporter[1].view, store'[reporter[1].of])
    OBVIOUS
  <2>1. reporter[1] \in Snapshot
    BY <1>0, AtMostOne
  <2>2. /\ reporter[1] \in Message /\ reporter[1].kind = "snapshot"
        /\ reporter[1].of \in KindSet /\ reporter[1].view \in [Ids -> Views]
    BY <2>1 DEF Snapshot, Message
  <2>3. NoNewer(reporter[1].of, reporter[1].view, store[reporter[1].of])
    BY DEF SnapshotsRight
  <2>4. NoNewer(reporter[1].of, store[reporter[1].of], store'[reporter[1].of])
    BY <1>2, <2>2
  <2>5. store[reporter[1].of] \in [Ids -> Views] /\ store'[reporter[1].of] \in [Ids -> Views]
    BY <1>0, <1>1, <2>2
  <2> QED BY <2>2, <2>3, <2>4, <2>5, NoNewerOrder
<1>5. ASSUME NEW k \in KindSet, UNCHANGED store, reporter' = <<SnapshotOf(k)>>
      PROVE  reporter'[1].of = k /\ reporter'[1].view = store'[k] /\ NoNewer(k, reporter'[1].view, store'[k])
  <2>1. reporter'[1].of = k /\ reporter'[1].view = store[k]
    BY <1>5 DEF SnapshotOf
  <2>2. store[k] \in [Ids -> Views]
    BY <1>0
  <2> QED BY <1>5, <2>1, <2>2, NoNewerOrder
<1>6. CASE /\ \/ accepted' = accepted
              \/ \E m : accepted' = Append(accepted, m) /\ m \in Message /\ m.kind # "snapshot"
           /\ \/ reporter' = reporter
              \/ /\ reporter = <<>> /\ UNCHANGED store
                 /\ \E k \in KindSet : reporter' = <<SnapshotOf(k)>>
  <2>1. \A i \in DOMAIN accepted' : accepted'[i].kind = "snapshot" =>
          i \in DOMAIN accepted /\ accepted'[i] = accepted[i]
    <3>1. CASE accepted' = accepted
      BY <3>1
    <3>2. ASSUME NEW m \in Message, accepted' = Append(accepted, m), m.kind # "snapshot"
          PROVE  \A i \in DOMAIN accepted' : accepted'[i].kind = "snapshot" =>
                   i \in DOMAIN accepted /\ accepted'[i] = accepted[i]
      <4>1. /\ DOMAIN accepted' = 1..(n + 1) /\ accepted'[n + 1] = m
            /\ \A i \in 1..n : accepted'[i] = accepted[i]
        BY <1>0, <3>2
      <4> QED BY <1>0, <3>2, <4>1
    <3> QED BY <1>6, <3>1, <3>2
  <2>2. SnapshotsMoveForward'
    BY <2>1, MoveForwardMeans
  <2>3. \A i \in DOMAIN accepted' : accepted'[i].kind = "snapshot" =>
          NoNewer(accepted'[i].of, accepted'[i].view, store'[accepted'[i].of])
    BY <1>3, <2>1
  <2>4. ASSUME reporter' # <<>>
        PROVE  /\ NoNewer(reporter'[1].of, reporter'[1].view, store'[reporter'[1].of])
               /\ \A i \in DOMAIN accepted' :
                    (accepted'[i].kind = "snapshot" /\ reporter'[1].of = accepted'[i].of)
                    => NoNewer(accepted'[i].of, accepted'[i].view, reporter'[1].view)
    <3>1. CASE reporter' = reporter
      BY <1>4, <2>1, <2>4, <3>1 DEF SnapshotsRight
    <3>2. CASE UNCHANGED store /\ \E k \in KindSet : reporter' = <<SnapshotOf(k)>>
      BY <1>5, <2>3, <3>2
    <3> QED BY <1>6, <3>1, <3>2
  <2>5. SnapshotsRight'
    BY <2>3, <2>4 DEF SnapshotsRight, NoNewer
  <2> QED BY <2>2, <2>5
<1>7. CASE /\ reporter # <<>> /\ UNCHANGED store
           /\ accepted' = Append(accepted, reporter[1]) \/ accepted' = accepted
           /\ reporter' = <<>> \/ \E k \in KindSet : reporter' = <<SnapshotOf(k)>>
  <2>1. /\ DOMAIN accepted' = 1..n \/ (DOMAIN accepted' = 1..(n + 1) /\ accepted'[n + 1] = reporter[1])
        /\ \A i \in 1..n : accepted'[i] = accepted[i]
    BY <1>0, <1>4, <1>7
  <2>2. \A i \in DOMAIN accepted' : accepted'[i].kind = "snapshot" =>
          NoNewer(accepted'[i].of, accepted'[i].view, store'[accepted'[i].of])
    <3> SUFFICES ASSUME NEW i \in DOMAIN accepted', accepted'[i].kind = "snapshot"
                 PROVE  NoNewer(accepted'[i].of, accepted'[i].view, store'[accepted'[i].of])
      OBVIOUS
    <3>1. CASE i \in 1..n
      BY <1>0, <1>3, <2>1, <3>1
    <3>2. CASE i \notin 1..n
      <4>1. accepted'[i] = reporter[1]
        BY <1>0, <2>1, <3>2
      <4> QED BY <1>4, <1>7, <4>1
    <3> QED BY <3>1, <3>2
  <2>3. SnapshotsMoveForward'
    <3> SUFFICES ASSUME NEW i \in DOMAIN accepted', NEW j \in DOMAIN accepted', i < j,
                        accepted'[i].kind = "snapshot", accepted'[j].kind = "snapshot",
                        accepted'[i].of = accepted'[j].of
                 PROVE  NoNewer(accepted'[i].of, accepted'[i].view, accepted'[j].view)
      BY MoveForwardMeans
    <3>1. i \in 1..n /\ accepted'[i] = accepted[i]
      BY <1>0, <2>1
    <3>2. CASE j \in 1..n
      BY <1>0, <2>1, <3>1, <3>2, MoveForwardMeans
    <3>3. CASE j \notin 1..n
      <4>1. accepted'[j] = reporter[1]
        BY <1>0, <2>1, <3>3
      <4> QED BY <1>0, <1>7, <3>1, <4>1 DEF SnapshotsRight
    <3> QED BY <3>2, <3>3
  <2>4. ASSUME reporter' # <<>>
        PROVE  /\ NoNewer(reporter'[1].of, reporter'[1].view, store'[reporter'[1].of])
               /\ \A i \in DOMAIN accepted' :
                    (accepted'[i].kind = "snapshot" /\ reporter'[1].of = accepted'[i].of)
                    => NoNewer(accepted'[i].of, accepted'[i].view, reporter'[1].view)
    BY <1>5, <1>7, <2>2, <2>4
  <2>5. SnapshotsRight'
    BY <2>2, <2>4 DEF SnapshotsRight, NoNewer
  <2> QED BY <2>3, <2>5
<1> QED BY <1>6, <1>7, SnapshotSteps

-----------------------------------------------------------------------------
(* The theorems.                                                           *)
LEMMA InitIInv == Init => IInv
<1> SUFFICES ASSUME Init PROVE IInv
  OBVIOUS
<1>1. TypeOK
  BY InitType
<1>2. \A k \in KindSet : SourcesRight(k)
  BY DEF Init, SourcesRight, Managed, Handed, None
<1>3. \A k \in KindSet : EventsRight(k)
  <2> SUFFICES ASSUME NEW k \in KindSet PROVE EventsRight(k)
    OBVIOUS
  <2>1. {j \in 1..0 : accepted[j].kind = k} = {}
    OBVIOUS
  <2>2. Rank(k, 0) = 0
    BY <2>1, FS_EmptySet DEF Rank
  <2> QED BY <2>2 DEF Init, EventsRight
<1>4. WriterRight
  BY DEF Init, WriterRight, Taken
<1>5. SnapshotsRight /\ SnapshotsMoveForward
  BY DEF Init, SnapshotsRight, SnapshotsMoveForward
<1> QED BY <1>1, <1>2, <1>3, <1>4, <1>5 DEF IInv

LEMMA NextIInv == IInv /\ [Next]_vars => IInv'
<1> SUFFICES ASSUME IInv, [Next]_vars PROVE IInv'
  OBVIOUS
<1>1. TypeOK /\ \A k \in KindSet : SourcesRight(k)
  BY DEF IInv
<1>2. TypeOK'
  BY <1>1, StepType
<1>3. \A k \in KindSet : SourcesRight(k)'
  BY <1>1, StepSources
<1>4. \A k \in KindSet : EventsRight(k)'
  BY <1>1, StepEvents DEF IInv
<1>5. WriterRight'
  BY <1>1, StepWriter DEF IInv
<1>6. SnapshotsRight' /\ SnapshotsMoveForward'
  BY <1>1, StepSnapshots DEF IInv
<1> QED BY <1>2, <1>3, <1>4, <1>5, <1>6 DEF IInv

(* What is written is a beginning of what the queue took, and that holds   *)
(* each event at its rank.                                                 *)
LEMMA OrderFollows == IInv => StreamsKeepOrder
<1> SUFFICES ASSUME IInv PROVE StreamsKeepOrder
  OBVIOUS
<1>1. \E n \in 0..Len(accepted) : written = 1..n
  <2>1. /\ Len(accepted) \in Nat /\ Len(queue) \in Nat /\ publisher.msg \in Nat
        /\ publisher.pc = "write" => publisher.msg > 0
    BY DEF IInv, TypeOK
  <2>2. Taken \in Int /\ 0 <= Taken /\ Taken <= Len(accepted)
    BY <2>1 DEF IInv, WriterRight, Taken
  <2>3. CASE publisher.pc = "write"
    <3>1. publisher.msg = Taken /\ (written = 1..(Taken - 1) \/ written = 1..Taken)
      BY <2>3 DEF IInv, WriterRight
    <3>2. Taken - 1 \in 0..Len(accepted) /\ Taken \in 0..Len(accepted)
      BY <2>1, <2>2, <2>3, <3>1
    <3> QED BY <3>1, <3>2
  <2>4. CASE publisher.pc # "write"
    <3>1. written = 1..Taken /\ Taken \in 0..Len(accepted)
      BY <2>1, <2>2, <2>4 DEF IInv, WriterRight
    <3> QED BY <3>1
  <2> QED BY <2>3, <2>4
<1>2. \A k \in KindSet : EventsRight(k)
  BY DEF IInv
<1> QED BY <1>1, <1>2 DEF StreamsKeepOrder, EventsRight

(* The inductive invariant holds throughout.                               *)
LEMMA PublisherIInv == Spec => []IInv
BY InitIInv, NextIInv, PTL DEF Spec

(* Every variable of the event publisher keeps its type, and no channel    *)
(* takes more than it has room for.                                        *)
THEOREM PublisherTypeOK == Spec => []TypeOK
<1>1. IInv => TypeOK
  BY DEF IInv
<1> QED BY <1>1, PublisherIInv, PTL

(* Through failures, timeouts and the drain at the shutdown, each stream   *)
(* holds the events of its kind in the order they came, none left out.     *)
THEOREM PublisherKeepsOrder == Spec => []StreamsKeepOrder
BY OrderFollows, PublisherIInv, PTL

(* No snapshot shows an order, a stop order or a position by an event that *)
(* came before the one an earlier snapshot showed, nor a stop order with   *)
(* an older timestamp.                                                     *)
THEOREM PublisherMovesForward == Spec => []SnapshotsMoveForward
<1>1. IInv => SnapshotsMoveForward
  BY DEF IInv
<1> QED BY <1>1, PublisherIInv, PTL
=============================================================================
