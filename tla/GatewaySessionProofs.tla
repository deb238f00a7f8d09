------------------------ MODULE GatewaySessionProofs ------------------------
(***************************************************************************)
(* Proofs about GatewaySession: its types, that bars leave in order, that  *)
(* the history of a connection reaches back far enough, and that no bar is *)
(* missing.                                                                *)
(***************************************************************************)
EXTENDS GatewaySession, FiniteSetTheorems, SequenceTheorems, WellFoundedInduction, TLAPS

(* The guids: one per feed in the subscriptions, numbered up to hub.n, and *)
(* none but that of the feed in turn is wanted.                            *)
GuidsRight ==
  /\ hub.pc \in {"send", "ack"} => hub.i >= 1 /\ \A g \in hub.active : g[1] < hub.i
  /\ hub.pc = "send" => \A g \in hub.desired : g[1] = hub.i
  /\ hub.pc = "ack" => hub.desired = {Guid}
  /\ hub.pc = "run" => hub.desired = {}
  /\ \A g, k \in hub.desired \cup hub.active : g[1] = k[1] => g = k
  /\ \A k \in 1 .. Len(wire) : wire[k].guid # << >> => wire[k].guid[2] \in 1 .. hub.n
  /\ \A k \in 1 .. Len(asked) : asked[k][2] \in 1 .. hub.n
  /\ streams \subseteq Bars \X Nat

(* The generations of the events: whatever is not of the current one comes *)
(* after the announcement of its own.                                      *)
Announces(e) == e.kind = "conn" /\ e.what = "Reconnecting"
GenerationsRight ==
  /\ current <= hub.gen
  /\ \A k \in 1 .. Len(events) :
       /\ events[k].gen <= hub.gen
       /\ IF Announces(events[k]) THEN events[k].gen > current
          ELSE \/ events[k].gen = current
               \/ \E j \in 1 .. (k - 1) : Announces(events[j]) /\ events[j].gen = events[k].gen
       /\ \A j \in 1 .. (k - 1) : /\ events[j].gen <= events[k].gen
                                  /\ Announces(events[k]) => events[j].gen < events[k].gen
  /\ \/ hub.gen = current
     \/ \E k \in 1 .. Len(events) : Announces(events[k]) /\ events[k].gen = hub.gen

(* A history that starts elsewhere than at FromTime is asked for only when *)
(* every symbol has a bar, and starts no later than the last of any.       *)
Fits(from) == from # 0 => \A s \in Names : lastEmitted[s] # 0 /\ from <= lastEmitted[s]
PlanRight ==
  /\ \A s \in Names : lastEmitted[s] = 0 \/ lastEmitted[s] >= FromTime
  /\ Fits(plan.from) /\ \A k \in 1 .. Len(cmds) : Fits(cmds[k].from)
  /\ hub.from \in {0, FromTime} \/ Fits(hub.from)
  /\ hub.skip => SkipHistory
  /\ hub.from = 0 => asked = << >> /\ hub.pc \notin {"send", "ack", "run"}
  /\ now >= FromTime

(* Until then no bar older than FromTime is about.                         *)
Early == \E s \in Names : lastEmitted[s] = 0
Recent(t) == Early => t >= FromTime
BarsRecent ==
  /\ \A k \in 1 .. Len(wire) : wire[k].what = "bar" => Recent(wire[k].t)
  /\ \A k \in 1 .. Len(events) :
       events[k].kind = "raw" => (events[k].msg.what = "bar" => Recent(events[k].msg.t))
  /\ \A k \in 1 .. Len(raw) : raw[k].msg.what = "bar" => Recent(raw[k].msg.t)
  /\ \A k \in 1 .. Len(bars) : Recent(bars[k].t)
  /\ \A s \in Names : router.held[s] # 0 => Recent(router.held[s])
  /\ \A s \in Names : \A u \in pending[s] : Recent(u)

EmittedRight ==
  /\ BarsInOrder
  /\ \A s \in Names :
       lastEmitted[s] = IF emitted[s] = << >> THEN 0 ELSE emitted[s][Len(emitted[s])]

IInv == /\ TypeOK /\ GuidsRight /\ GenerationsRight /\ PlanRight /\ BarsRecent
        /\ EmittedRight

-----------------------------------------------------------------------------
(* No bar is missing on the way from the broker to the emitted ones.  What *)
(* was emitted, is buffered, or is among the first i of the bar queue, has *)
(* the bar s, t, or a later one.                                           *)
Base(s) == IF lastEmitted[s] = 0 THEN FromTime - 1 ELSE lastEmitted[s]
Passed(s, t, i) ==
  \/ t <= Base(s)
  \/ \E u \in pending[s] : t <= u
  \/ \E j \in 1 .. i : bars[j].sym = s /\ t <= bars[j].t
Out(s, t) == Passed(s, t, Len(bars))
Routed(s, t) == Out(s, t) \/ t <= router.held[s]

(* The router may take the bar s, t of a connection whose Subscribed had   *)
(* the wallclock w.                                                        *)
Ready(s, t, w) == IF t <= w - 2 THEN Out(s, t - 1) ELSE Routed(s, t - 1)

IsBar(m, s, t) == m.what = "bar" /\ Symbols[m.guid[1]] = s /\ m.t = t
RawBar(k, s, t, w) == IsBar(raw[k].msg, s, t) /\ raw[k].wallclock = w
EventBar(k, s, t, w) ==
  events[k].kind = "raw" /\ IsBar(events[k].msg, s, t) /\ events[k].wallclock = w
Behind(s, t, w, i) ==
  \/ Ready(s, t, w)
  \/ \E k \in 1 .. Len(raw) : RawBar(k, s, t - 1, w)
  \/ \E k \in 1 .. i : EventBar(k, s, t - 1, w)
BarOn(k, g, t) == wire[k].guid = g /\ wire[k].what = "bar" /\ wire[k].t = t

(* The guids whose messages the hub forwards, now or once acknowledged.    *)
Live(g) == g \in hub.active \/ (hub.pc = "ack" /\ g = Guid)

Times == 1 .. MaxNow
Clocks == 0 .. MaxNow
PendingGapless ==
  \A s \in Names : \A u \in pending[s] : \A v \in Base(s) + 1 .. u : v \in pending[s]
BarsGapless == \A i \in 1 .. Len(bars) : Passed(bars[i].sym, bars[i].t - 1, i - 1)
HeldGapless == \A s \in Names : router.held[s] # 0 => Out(s, router.held[s] - 1)
RawGapless ==
  \A k \in 1 .. Len(raw), s \in Names, t \in Times, w \in Clocks :
    RawBar(k, s, t, w) => Ready(s, t, w) \/ \E j \in 1 .. (k - 1) : RawBar(j, s, t - 1, w)
EventsGapless ==
  \A k \in 1 .. Len(events), s \in Names, t \in Times, w \in Clocks :
    EventBar(k, s, t, w) => Behind(s, t, w, k - 1)
WireGapless ==
  \A k \in 1 .. Len(wire), g \in Bars \X Nat, t \in Times :
    Live(g) /\ BarOn(k, g, t) =>
      \/ Behind(Symbols[g[1]], t, hub.wallclock, Len(events))
      \/ \E j \in 1 .. (k - 1) : BarOn(j, g, t - 1)
StreamsGapless ==
  \A g \in streams :
    Live(g) => \/ Behind(Symbols[g[1]], now + 1, hub.wallclock, Len(events))
               \/ \E j \in 1 .. Len(wire) : BarOn(j, g, now)
AckFirst ==
  hub.pc = "ack" =>
    /\ \A k \in 1 .. Len(wire) : wire[k].guid = Guid =>
         \E j \in 1 .. k : wire[j].guid = Guid /\ wire[j].what # "bar"
    /\ Guid \in streams => \E j \in 1 .. Len(wire) : wire[j].guid = Guid /\ wire[j].what # "bar"
HistoryAsked ==
  /\ router.origin # "Live"
  /\ \A k \in 1 .. Len(wallclocks) : wallclocks[k].origin # "Live"
  /\ \A k \in 1 .. Len(events) : events[k].kind = "subscribed" => events[k].origin # "Live"

NoneMissing ==
  /\ PendingGapless /\ BarsGapless /\ HeldGapless /\ RawGapless /\ EventsGapless
  /\ WireGapless /\ StreamsGapless /\ AckFirst /\ HistoryAsked
  /\ \A s \in Names : \A k \in 1 .. Len(emitted[s]) : emitted[s][k] = FromTime + k - 1
GapInv == losses = {} /\ ~SkipHistory => NoneMissing

-----------------------------------------------------------------------------
(* Sequences.                                                              *)

LEMMA PopSeq ==
  ASSUME NEW S, NEW s \in Seq(S), s # << >>, NEW n, n = Len(s)
  PROVE  /\ n \in Nat /\ n >= 1 /\ Head(s) = s[1] /\ s[1] \in S
         /\ Tail(s) \in Seq(S) /\ Len(Tail(s)) = n - 1
         /\ \A k \in 1 .. n - 1 : Tail(s)[k] = s[k + 1]
<1>1. n \in Nat /\ n >= 1
  BY EmptySeq
<1>2. Head(s) = s[1] /\ s[1] \in S
  BY <1>1, ElementOfSeq
<1> QED
  BY <1>1, <1>2, HeadTailProperties

LEMMA PushSeq ==
  ASSUME NEW S, NEW s \in Seq(S), NEW e \in S, NEW n, n = Len(s)
  PROVE  /\ n \in Nat /\ Append(s, e) \in Seq(S) /\ Len(Append(s, e)) = n + 1
         /\ \A k \in 1 .. n : Append(s, e)[k] = s[k]
         /\ Append(s, e)[n + 1] = e
  OBVIOUS

LEMMA JoinSeq ==
  ASSUME NEW S, NEW s \in Seq(S), NEW t \in Seq(S), NEW n, n = Len(s), NEW m, m = Len(t)
  PROVE  /\ n \in Nat /\ m \in Nat /\ s \o t \in Seq(S) /\ Len(s \o t) = n + m
         /\ \A k \in 1 .. n : (s \o t)[k] = s[k]
         /\ \A k \in 1 .. m : (s \o t)[n + k] = t[k]
         /\ \A k \in n + 1 .. n + m : (s \o t)[k] = t[k - n]
<1>1. n \in Nat /\ m \in Nat
  BY LenProperties
<1>2. /\ s \o t \in Seq(S) /\ Len(s \o t) = n + m
      /\ \A i \in 1 .. n + m : (s \o t)[i] = IF i <= n THEN s[i] ELSE t[i - n]
  BY ConcatProperties
<1>3. \A k \in 1 .. m : (s \o t)[n + k] = t[k]
  <2> SUFFICES ASSUME NEW k \in 1 .. m PROVE (s \o t)[n + k] = t[k]
    OBVIOUS
  <2>1. n + k \in 1 .. n + m /\ ~(n + k <= n) /\ n + k - n = k
    BY <1>1
  <2> QED
    BY <1>2, <2>1
<1>4. \A k \in n + 1 .. n + m : (s \o t)[k] = t[k - n]
  BY <1>1, <1>2
<1>5. \A k \in 1 .. n : (s \o t)[k] = s[k]
  BY <1>1, <1>2
<1> QED
  BY <1>1, <1>2, <1>3, <1>4, <1>5

LEMMA ShortSeqs ==
  ASSUME NEW S, NEW c \in S, NEW s \in S, NEW x \in S
  PROVE  /\ <<c, s>> \in Seq(S) /\ <<s>> \in Seq(S)
         /\ <<c, s, x>> \in Seq(S) /\ <<s, x>> \in Seq(S)
         /\ \A k \in 1 .. Len(<<c, s, x>>) : <<c, s, x>>[k] \in {c, s, x}
         /\ \A k \in 1 .. Len(<<s, x>>) : <<s, x>>[k] \in {c, s, x}
<1>1. <<c, s>> \in Seq(S) /\ <<s>> \in Seq(S) /\ <<c, s, x>> \in Seq(S) /\ <<s, x>> \in Seq(S)
  OBVIOUS
<1>3. \A k \in 1 .. 3 : <<c, s, x>>[k] \in {c, s, x}
  OBVIOUS
<1>4. \A k \in 1 .. 2 : <<s, x>>[k] \in {c, s, x}
  OBVIOUS
<1>5. Len(<<c, s, x>>) = 3 /\ Len(<<s, x>>) = 2
  OBVIOUS
<1> QED
  BY <1>1, <1>3, <1>4, <1>5

(* SetToSeq lists a finite set.                                            *)
LEMMA ListedSet ==
  ASSUME NEW S, IsFiniteSet(S), NEW T, S \subseteq T
  PROVE  /\ SetToSeq(S) \in Seq(T) /\ Len(SetToSeq(S)) = Cardinality(S)
         /\ Cardinality(S) \in Nat
         /\ \A x \in S : \E k \in 1 .. Len(SetToSeq(S)) : SetToSeq(S)[k] = x
         /\ \A k \in 1 .. Len(SetToSeq(S)) : SetToSeq(S)[k] \in S
<1> DEFINE n == Cardinality(S)
           f == SetToSeq(S)
<1>1. n \in Nat /\ ExistsBijection(1 .. n, S)
  BY FS_CardinalityType
<1>2. PICK g \in Bijection(1 .. n, S) : TRUE
  BY <1>1 DEF ExistsBijection
<1>3. g \in [1 .. n -> S] /\ IsInjective(g)
  BY <1>2 DEF Bijection, Injection
<1>4. f \in [1 .. n -> S] /\ IsInjective(f)
  BY <1>3 DEF SetToSeq
<1>5. f \in Injection(1 .. n, S)
  BY <1>4 DEF Injection
<1>6. Cardinality(1 .. n) = n
  BY <1>1, FS_Interval
<1>7. f \in Surjection(1 .. n, S)
  BY <1>5, <1>6, FS_Injection
<1>8. \A x \in S : \E k \in 1 .. n : f[k] = x
  BY <1>7 DEF Surjection
<1>9. f \in Seq(T) /\ Len(f) = n
  BY <1>1, <1>4
<1> HIDE DEF f
<1>10. \A k \in 1 .. n : f[k] \in S
  BY <1>4
<1> QED
  BY <1>1, <1>8, <1>9, <1>10 DEF f

(* A nonempty set of natural numbers has a least element.                  *)
LEMMA LeastNat ==
  ASSUME NEW S, S \subseteq Nat, S # {}
  PROVE  Min(S) \in S /\ \A x \in S : Min(S) <= x
<1> DEFINE T == {0 .. x : x \in S}
<1>1. \A x \in Nat : IsFiniteSet(0 .. x) /\ 0 .. x \in SUBSET Nat
  BY FS_Interval
<1>2. T \subseteq FiniteSubsetsOf(Nat) /\ T # {}
  BY <1>1 DEF FiniteSubsetsOf
<1>3. \E t \in T : \A u \in T : ~(<<u, t>> \in StrictSubsetOrdering(Nat))
  <2>1. IsWellFoundedOn(StrictSubsetOrdering(Nat), FiniteSubsetsOf(Nat))
    BY FS_StrictSubsetOrderingWellFounded
  <2> HIDE DEF T
  <2> QED
    BY <1>2, <2>1, WFMin
<1>4. PICK a \in S : \A x \in S : ~(<<0 .. x, 0 .. a>> \in StrictSubsetOrdering(Nat))
  BY <1>3
<1>5. \A x \in S : a <= x
  <2> SUFFICES ASSUME NEW x \in S, ~(a <= x) PROVE FALSE
    OBVIOUS
  <2>1. x \in Nat /\ a \in Nat /\ x < a
    OBVIOUS
  <2>2. 0 .. x \subseteq 0 .. a /\ a \in 0 .. a /\ a \notin 0 .. x
    BY <2>1
  <2>3. 0 .. x \in SUBSET Nat /\ 0 .. a \in SUBSET Nat /\ 0 .. x # 0 .. a
    BY <1>1, <2>1, <2>2
  <2> QED
    BY <1>4, <2>2, <2>3 DEF StrictSubsetOrdering
<1> QED
  BY <1>5 DEF Min

-----------------------------------------------------------------------------
(* The constants, the messages and the events.                             *)

LEMMA Constants ==
  /\ MaxNow \in Nat /\ MaxFaults \in Nat /\ FromTime \in 1 .. MaxNow /\ EventRoom \in Nat
  /\ AckRetries \in Nat /\ AckRetries >= 1 /\ SkipHistory \in BOOLEAN
  /\ RawRoom \in Nat /\ BarRoom \in Nat /\ Padding \in Nat /\ MaxGap \in Nat
  /\ Padding < FromTime
  BY HubConfigAssumption, HubBoundsAssumption, FromAssumption, SessionAssumption

LEMMA FeedFacts ==
  /\ Len(Symbols) \in Nat /\ Len(Symbols) >= 1 /\ Len(Feeds) \in Nat /\ Len(Feeds) >= 1
  /\ Bars = 1 .. Len(Symbols) /\ Bars \subseteq 1 .. Len(Feeds)
  /\ \A k \in 1 .. Len(Feeds) : Feeds[k] \in ToSet(Feeds)
  /\ \A k \in Bars : Symbols[k] \in Names
  /\ Names # {}
<1>1. Symbols \in Seq(STRING) /\ AccountFeeds \in Seq(STRING) /\ Symbols # << >>
  BY FeedsAssumption
<1>2. Len(Symbols) \in Nat /\ Len(Symbols) >= 1 /\ Len(AccountFeeds) \in Nat
  BY <1>1, EmptySeq, LenProperties
<1>3. Feeds \in Seq(STRING) /\ Len(Feeds) = Len(Symbols) + Len(AccountFeeds)
  BY <1>1, ConcatProperties DEF Feeds
<1>4. \A k \in 1 .. Len(Feeds) : Feeds[k] \in ToSet(Feeds)
  BY <1>3 DEF ToSet
<1>5. \A k \in Bars : Symbols[k] \in Names
  BY DEF Names
<1>6. 1 \in Bars
  BY <1>2 DEF Bars
<1> QED
  BY <1>2, <1>3, <1>4, <1>5, <1>6 DEF Bars

LEMMA MessageFacts ==
  ASSUME NEW m \in Messages
  PROVE  /\ m.what = "bar" => /\ m.guid \in Bars \X Nat /\ m.t \in 1 .. MaxNow
                              /\ m.guid[1] \in Bars /\ Symbols[m.guid[1]] \in Names
                              /\ m.guid # << >>
         /\ m.what \in {"bar", "ok", "refused", "auth"}
<1>1. \/ m \in [guid : Bars \X Nat, what : {"bar"}, t : 1 .. MaxNow]
      \/ m \in [guid : Guids, what : {"ok", "refused"}, t : {0}]
      \/ m \in [guid : {<< >>}, what : {"auth"}, t : {0}]
  BY DEF Messages
<1>2. CASE m \in [guid : Bars \X Nat, what : {"bar"}, t : 1 .. MaxNow]
  BY <1>2, FeedFacts
<1> QED
  BY <1>1, <1>2

LEMMA EventFacts ==
  ASSUME NEW e \in Events
  PROVE  /\ e.gen \in Nat
         /\ e.kind = "raw" => e.msg \in Messages /\ e.wallclock \in 0 .. MaxNow
         /\ e.kind = "stats" => e.desired \in 0 .. Len(Feeds) /\ e.active \in 0 .. Len(Feeds)
         /\ e.kind = "subscribed" => e.origin \in Origins /\ e.wallclock \in 0 .. MaxNow
  BY DEF Events

LEMMA EventTypes ==
  ASSUME TypeOK
  PROVE  /\ \A what \in {"Reconnecting", "Connected", "Disconnected"}, g \in Nat :
              /\ Conn(what, g) \in Events /\ Conn(what, g).gen = g
              /\ Conn(what, g).kind = "conn" /\ Conn(what, g).what = what
         /\ \A origin \in Origins :
              /\ Subscribed(origin) \in Events /\ Subscribed(origin).gen = hub.gen
              /\ Subscribed(origin).kind = "subscribed" /\ Subscribed(origin).origin = origin
         /\ \A k \in 1 .. Len(Feeds) :
              /\ Ack(Feeds[k]) \in Events /\ Ack(Feeds[k]).gen = hub.gen
              /\ Ack(Feeds[k]).kind = "ack"
         /\ \A m \in Messages :
              /\ Raw(m) \in Events /\ Raw(m).gen = hub.gen
              /\ Raw(m).kind = "raw" /\ Raw(m).msg = m /\ Raw(m).wallclock = hub.wallclock
<1>1. hub.gen \in Nat /\ hub.wallclock \in 0 .. MaxNow /\ now \in 0 .. MaxNow
  BY Constants DEF TypeOK, HubTypeOK, Hubs
<1>2. ASSUME NEW what \in {"Reconnecting", "Connected", "Disconnected"}, NEW g \in Nat
      PROVE  /\ Conn(what, g) \in Events /\ Conn(what, g).gen = g
             /\ Conn(what, g).kind = "conn" /\ Conn(what, g).what = what
  BY DEF Conn, Events
<1>3. ASSUME NEW origin \in Origins
      PROVE  /\ Subscribed(origin) \in Events /\ Subscribed(origin).gen = hub.gen
             /\ Subscribed(origin).kind = "subscribed" /\ Subscribed(origin).origin = origin
  BY <1>1 DEF Subscribed, Events
<1>4. ASSUME NEW k \in 1 .. Len(Feeds)
      PROVE  /\ Ack(Feeds[k]) \in Events /\ Ack(Feeds[k]).gen = hub.gen
             /\ Ack(Feeds[k]).kind = "ack"
  BY <1>1, FeedFacts DEF Ack, Events
<1>5. ASSUME NEW m \in Messages
      PROVE  /\ Raw(m) \in Events /\ Raw(m).gen = hub.gen
             /\ Raw(m).kind = "raw" /\ Raw(m).msg = m /\ Raw(m).wallclock = hub.wallclock
  BY <1>1 DEF Raw, Events
<1> QED
  BY <1>2, <1>3, <1>4, <1>5

(* Of the guids of a connection at most one belongs to each feed, so there *)
(* are no more than feeds.                                                 *)
LEMMA StatsType ==
  ASSUME NEW h, h.gen \in Nat, h.desired \subseteq Guids, h.active \subseteq Guids,
         \A g, k \in h.desired \cup h.active : g[1] = k[1] => g = k
  PROVE  Stats(h) \in Events /\ Stats(h).gen = h.gen /\ Stats(h).kind = "stats"
<1>1. IsFiniteSet(1 .. Len(Feeds)) /\ Cardinality(1 .. Len(Feeds)) = Len(Feeds)
  BY FeedFacts, FS_Interval
<1>2. ASSUME NEW S, S \subseteq h.desired \cup h.active
      PROVE  Cardinality(S) \in 0 .. Len(Feeds)
  <2> DEFINE f == [g \in S |-> g[1]]
  <2>1. f \in [S -> 1 .. Len(Feeds)]
    BY <1>2 DEF Guids
  <2>2. IsInjective(f)
    BY <1>2 DEF IsInjective
  <2>3. f \in Injection(S, 1 .. Len(Feeds))
    BY <2>1, <2>2 DEF Injection
  <2> HIDE DEF f
  <2> QED
    BY <1>1, <2>3, FS_Injection, FS_CardinalityType, FeedFacts
<1>3. /\ Cardinality(h.desired \cup h.active) \in 0 .. Len(Feeds)
      /\ Cardinality(h.active) \in 0 .. Len(Feeds)
  BY <1>2
<1> QED
  BY <1>3 DEF Stats, Events

-----------------------------------------------------------------------------
(* The hub and the broker change none of the variables of the other tasks, *)
(* and these none of the socket.                                           *)

HubSide == (HubStep \/ HubFault \/ Broker) /\ UNCHANGED sessionVars
SessionSide == EventTask \/ RouterTask \/ BarTask \/ Ticker \/ Stop \/ Authorize \/ Unauthorize

LEMMA SessionFrame ==
  ASSUME SessionSide
  PROVE  UNCHANGED <<hub, wire, streams, asked, now>>
<1> USE DEF socket, link, hubVars
<1>1. CASE EventTask
  BY <1>1 DEF EventTask, OnReconnecting, OnConn, OnSubscribed, OnAck, OnStats, OnRaw
<1>2. CASE RouterTask
  BY <1>2 DEF RouterTask, RouterCommand, RouteAuthError, RouteBar
<1>3. CASE BarTask
  BY <1>3 DEF BarTask, TakeBar, FinishBar, FlushBar, GoLive
<1>4. CASE Ticker
  BY <1>4 DEF Ticker, Silence, AskResubscribe, Tick
<1>5. CASE Stop
  BY <1>5 DEF Stop
<1>6. CASE Authorize
  BY <1>6 DEF Authorize
<1>7. CASE Unauthorize
  BY <1>7 DEF Unauthorize
<1> QED
  BY <1>1, <1>2, <1>3, <1>4, <1>5, <1>6, <1>7 DEF SessionSide

-----------------------------------------------------------------------------
(* Types and guids under the steps of the hub and of the broker.           *)

LEMMA PushTypes ==
  ASSUME TypeOK, NEW es \in Seq(Events), Push(es)
  PROVE  events' \in Seq(Events) /\ Len(events') <= EventRoom
  BY ConcatProperties DEF Push, TypeOK, HubTypeOK

LEMMA HubFacts ==
  ASSUME TypeOK
  PROVE  /\ hub \in Hubs /\ hub.gen \in Nat /\ hub.i \in 0 .. Len(Feeds) /\ hub.n \in Nat
         /\ hub.desired \subseteq Guids /\ hub.active \subseteq Guids /\ hub.from \in 0 .. MaxNow
         /\ hub.wallclock \in 0 .. MaxNow /\ hub.skip \in BOOLEAN
         /\ hub.desired \cup hub.active \cup streams \subseteq (1 .. Len(Feeds)) \X (1 .. hub.n)
         /\ events \in Seq(Events) /\ wire \in Seq(Messages) /\ asked \in Seq(Guids)
         /\ cmds \in Seq(Commands) /\ plan \in Plans /\ now \in 1 .. MaxNow
         /\ faults \in 0 .. MaxFaults /\ Len(events) <= EventRoom /\ Len(asked) <= 1
  BY DEF TypeOK, HubTypeOK, Hubs

(* A connection that is closed.                                            *)
LEMMA ClosedTypes ==
  ASSUME TypeOK, GuidsRight, Closed,
         NEW pc \in {"backoff", "ended"}, hub' = [hub EXCEPT !.pc = pc],
         events' \in Seq(Events), Len(events') <= EventRoom,
         cmds' \in Seq(Commands), faults' \in 0 .. MaxFaults, UNCHANGED <<plan, now>>
  PROVE  HubTypeOK' /\ GuidsRight'
<1>1. /\ hub' \in Hubs /\ hub'.pc = pc /\ hub'.n = hub.n
      /\ hub'.desired = hub.desired /\ hub'.active = hub.active
  BY HubFacts DEF Hubs, Stages
<1>2. /\ wire' = << >> /\ streams' = {} /\ asked' = << >>
      /\ wire' \in Seq(Messages) /\ asked' \in Seq(Guids) /\ Len(wire') = 0 /\ Len(asked') = 0
  BY EmptySeq DEF Closed
<1>3. HubTypeOK'
  BY <1>1, <1>2, HubFacts DEF HubTypeOK
<1>4. GuidsRight'
  BY <1>1, <1>2 DEF GuidsRight
<1> QED
  BY <1>3, <1>4

LEMMA FailTypes ==
  ASSUME TypeOK, GuidsRight, Closed, Fail,
         cmds' \in Seq(Commands), faults' \in 0 .. MaxFaults, UNCHANGED <<plan, now>>
  PROVE  HubTypeOK' /\ GuidsRight'
<1> DEFINE es == <<Conn("Disconnected", hub.gen)>>
<1>1. es \in Seq(Events)
  BY EventTypes, HubFacts
<1>2. events' \in Seq(Events) /\ Len(events') <= EventRoom
  BY <1>1, PushTypes DEF Fail
<1>3. hub' = [hub EXCEPT !.pc = "backoff"]
  BY DEF Fail
<1> QED
  BY <1>2, <1>3, ClosedTypes

LEMMA SubscribingFacts ==
  ASSUME TypeOK, NEW from \in 0 .. MaxNow, hub' = Subscribing(from)
  PROVE  /\ hub' \in Hubs /\ hub'.pc = "send" /\ hub'.i = 1 /\ hub'.desired = {} /\ hub'.active = {}
         /\ hub'.n = hub.n /\ hub'.gen = hub.gen /\ hub'.wallclock = now
         /\ hub'.from = IF from = 0 THEN FromTime ELSE from
         /\ hub'.skip => SkipHistory
<1>1. PICK skip \in BOOLEAN : skip = (from = 0 /\ SkipHistory)
  BY Constants
<1>2. PICK start : start = IF from = 0 THEN FromTime ELSE from
  OBVIOUS
<1>3. start \in 0 .. MaxNow /\ now \in 0 .. MaxNow
  BY SMTT(30), <1>2, HubFacts, Constants
<1>4. hub' = [hub EXCEPT !.pc = "send", !.i = 1, !.tries = 0, !.desired = {}, !.active = {},
                         !.from = start, !.skip = skip, !.wallclock = now]
  BY <1>1, <1>2 DEF Subscribing
<1>5. hub \in Hubs /\ 0 \in 0 .. (AckRetries - 1) /\ 1 \in 0 .. Len(Feeds)
  BY HubFacts, Constants, FeedFacts
<1> QED
  BY <1>1, <1>2, <1>3, <1>4, <1>5 DEF Hubs, Stages

LEMMA SubscribingTypes ==
  ASSUME TypeOK, GuidsRight, NEW from \in 0 .. MaxNow, hub' = Subscribing(from),
         NEW es \in Seq(Events), Push(es),
         cmds' \in Seq(Commands), UNCHANGED <<plan, wire, streams, asked, now, faults>>
  PROVE  HubTypeOK' /\ GuidsRight'
<1>1. /\ hub' \in Hubs /\ hub'.pc = "send" /\ hub'.i = 1 /\ hub'.desired = {} /\ hub'.active = {}
      /\ hub'.n = hub.n /\ hub'.gen = hub.gen
  BY SubscribingFacts
<1>2. events' \in Seq(Events) /\ Len(events') <= EventRoom
  BY PushTypes
<1>3. HubTypeOK'
  BY <1>1, <1>2, HubFacts DEF HubTypeOK
<1>4. GuidsRight'
  BY <1>1, HubFacts DEF GuidsRight
<1> QED
  BY <1>3, <1>4

(* The history of a subscription.                                          *)
LEMMA HistoryFacts ==
  ASSUME TypeOK, NEW g \in Bars \X Nat, hub.from >= 1
  PROVE  /\ History(g) \in Seq(Messages)
         /\ \A k \in 1 .. Len(History(g)) :
              /\ History(g)[k].guid = g /\ History(g)[k].what = "bar"
              /\ History(g)[k].t = hub.from + k - 1
         /\ Len(History(g)) = IF hub.skip \/ hub.from > now THEN 0 ELSE now + 1 - hub.from
<1>0. hub.from \in Nat /\ now \in Nat /\ now <= MaxNow
  BY HubFacts, Constants
<1>1. CASE hub.skip
  BY <1>1, EmptySeq DEF History
<1>2. CASE ~hub.skip
  <2>1. PICK n \in Nat : /\ 1 .. (now + 1 - hub.from) = 1 .. n
                         /\ n = IF hub.from > now THEN 0 ELSE now + 1 - hub.from
    <3>1. CASE hub.from > now
      <4>1. 1 .. (now + 1 - hub.from) = 1 .. 0
        BY <1>0, <3>1
      <4> QED
        BY <3>1, <4>1
    <3>2. CASE ~(hub.from > now)
      <4>1. now + 1 - hub.from \in Nat
        BY <1>0, <3>2
      <4> QED
        BY <3>2, <4>1
    <3> QED
      BY <3>1, <3>2
  <2>2. History(g) = [k \in 1 .. n |-> Message(g, "bar", hub.from + k - 1)]
    BY <1>2, <2>1 DEF History
  <2>3. \A k \in 1 .. n : /\ hub.from + k - 1 \in 1 .. MaxNow
                          /\ Message(g, "bar", hub.from + k - 1) \in Messages
    <3> SUFFICES ASSUME NEW k \in 1 .. n
                 PROVE  /\ hub.from + k - 1 \in 1 .. MaxNow
                        /\ Message(g, "bar", hub.from + k - 1) \in Messages
      OBVIOUS
    <3>0. n = now + 1 - hub.from
      BY <2>1
    <3>1. hub.from + k - 1 \in 1 .. MaxNow
      BY <1>0, <3>0, Constants
    <3> QED
      BY <3>1 DEF Message, Messages
  <2>4. History(g) \in [1 .. n -> Messages]
    BY <2>2, <2>3
  <2>5. History(g) \in Seq(Messages) /\ Len(History(g)) = n
    BY <2>4, <2>1
  <2>6. \A k \in 1 .. n : /\ History(g)[k].guid = g /\ History(g)[k].what = "bar"
                          /\ History(g)[k].t = hub.from + k - 1
    BY <2>2 DEF Message
  <2> QED
    BY <1>2, <2>1, <2>5, <2>6
<1> QED
  BY <1>1, <1>2

(* What the broker does to the wire of a connection.                       *)
LEMMA AcceptFacts ==
  ASSUME TypeOK, GuidsRight, PlanRight, Accept
  PROVE  \E g \in Guids : \E h \in Seq(Messages) :
           /\ asked = <<g>> /\ asked' = << >> /\ g[2] \in 1 .. hub.n
           /\ wire' = wire \o (<<Message(g, "ok", 0)>> \o h)
           /\ \A k \in 1 .. Len(h) : h[k].guid = g /\ h[k].what = "bar" /\ h[k].t = hub.from + k - 1
           /\ g \in Bars \X Nat => /\ h = History(g) /\ streams' = streams \cup {g}
                                   /\ Len(h) = IF hub.skip \/ hub.from > now THEN 0 ELSE now + 1 - hub.from
           /\ g \notin Bars \X Nat => h = << >> /\ streams' = streams
           /\ hub.from >= 1
<1>1. PICK g : g = asked[1]
  OBVIOUS
<1>2. asked # << >> /\ asked \in Seq(Guids) /\ Len(asked) = 1
  BY HubFacts, EmptySeq DEF Accept
<1>3. g \in Guids /\ asked = <<g>> /\ g[2] \in 1 .. hub.n
  BY <1>1, <1>2, ElementOfSeq DEF GuidsRight
<1>4. hub.from >= 1
  BY <1>2, HubFacts DEF PlanRight
<1>5. g[1] \in Bars <=> g \in Bars \X Nat
  BY <1>3 DEF Guids
<1>6. PICK h : h = IF g[1] \in Bars THEN History(g) ELSE << >>
  OBVIOUS
<1>7. /\ h \in Seq(Messages)
      /\ \A k \in 1 .. Len(h) : h[k].guid = g /\ h[k].what = "bar" /\ h[k].t = hub.from + k - 1
      /\ g \in Bars \X Nat => Len(h) = IF hub.skip \/ hub.from > now THEN 0 ELSE now + 1 - hub.from
  <2>1. CASE g \in Bars \X Nat
    BY <1>4, <1>5, <1>6, <2>1, HistoryFacts
  <2>2. CASE g \notin Bars \X Nat
    BY <1>5, <1>6, <2>2, EmptySeq
  <2> QED
    BY <2>1, <2>2
<1>8. Message(g, "ok", 0) \in Messages
  BY <1>3 DEF Message, Messages
<1>9. wire' = (wire \o <<Message(g, "ok", 0)>>) \o h
  BY <1>1, <1>6 DEF Accept
<1>10. wire' = wire \o (<<Message(g, "ok", 0)>> \o h)
  BY SMTT(30), <1>7, <1>8, <1>9, HubFacts, ConcatAssociative
<1>11. /\ asked' = << >>
       /\ streams' = IF g[1] \in Bars THEN streams \cup {g} ELSE streams
  BY <1>1 DEF Accept
<1> QED
  BY <1>3, <1>4, <1>5, <1>6, <1>7, <1>10, <1>11

LEMMA NewBarFacts ==
  ASSUME TypeOK, GuidsRight, NewBar
  PROVE  \E h \in Seq(Messages) :
           /\ wire' = wire \o h /\ now' = now + 1 /\ now' \in 1 .. MaxNow
           /\ \A k \in 1 .. Len(h) : h[k].guid \in streams /\ h[k].what = "bar" /\ h[k].t = now + 1
           /\ \A g \in streams : \E k \in 1 .. Len(h) : h[k].guid = g
<1> DEFINE S == {Message(g, "bar", now + 1) : g \in streams}
<1>0. streams \subseteq Bars \X Nat /\ IsFiniteSet(streams)
  <2>0. Len(Feeds) \in Int /\ hub.n \in Int
    BY HubFacts, FeedFacts
  <2>1. IsFiniteSet(1 .. Len(Feeds)) /\ IsFiniteSet(1 .. hub.n)
    BY ONLY <2>0, FS_Interval
  <2>2. IsFiniteSet((1 .. Len(Feeds)) \X (1 .. hub.n))
    BY <2>1, FS_Product
  <2>3. streams \subseteq (1 .. Len(Feeds)) \X (1 .. hub.n)
    BY HubFacts
  <2> QED
    BY <2>2, <2>3, FS_Subset DEF GuidsRight
<1>1. now + 1 \in 1 .. MaxNow /\ now' = now + 1
  BY SMTT(30), HubFacts, Constants DEF NewBar
<1>2. S \subseteq Messages
  BY <1>0, <1>1 DEF Message, Messages
<1>3. IsFiniteSet(S)
  <2> DEFINE f == [g \in streams |-> Message(g, "bar", now + 1)]
  <2>1. f \in Surjection(streams, S)
    BY DEF Surjection
  <2> HIDE DEF f
  <2> QED
    BY <1>0, <2>1, FS_Surjection
<1>4. wire' = wire \o SetToSeq(S)
  BY DEF NewBar
<1> HIDE DEF S
<1>5. /\ SetToSeq(S) \in Seq(Messages)
      /\ \A x \in S : \E k \in 1 .. Len(SetToSeq(S)) : SetToSeq(S)[k] = x
      /\ \A k \in 1 .. Len(SetToSeq(S)) : SetToSeq(S)[k] \in S
  BY <1>2, <1>3, ListedSet
<1>6. \A x \in S : x.guid \in streams /\ x.what = "bar" /\ x.t = now + 1
  BY DEF S, Message
<1>7. ASSUME NEW g \in streams PROVE \E x \in S : x.guid = g
  <2>1. Message(g, "bar", now + 1) \in S /\ Message(g, "bar", now + 1).guid = g
    BY DEF S, Message
  <2> QED
    BY <2>1
<1>8. PICK h \in Seq(Messages) : h = SetToSeq(S)
  BY <1>5
<1>9. wire' = wire \o h
  BY <1>4, <1>8
<1>10. \A k \in 1 .. Len(h) : h[k].guid \in streams /\ h[k].what = "bar" /\ h[k].t = now + 1
  BY <1>5, <1>6, <1>8
<1>11. ASSUME NEW g \in streams PROVE \E k \in 1 .. Len(h) : h[k].guid = g
  <2>1. PICK x \in S : x.guid = g
    BY <1>7
  <2> QED
    BY <1>5, <1>8, <2>1
<1> QED
  BY <1>1, <1>9, <1>10, <1>11

(* A step of the hub that forwards no message and announces nothing.       *)
Report(e) ==
  /\ e \in Events /\ e.gen = hub.gen /\ ~Announces(e) /\ e.kind # "raw"
  /\ e.kind = "subscribed" => e.origin = Origin
Reports(es) ==
  /\ es \in Seq(Events) /\ events' = events \o es /\ hub'.gen = hub.gen
  /\ \A k \in 1 .. Len(es) : Report(es[k])
HubMoved == HubTypeOK' /\ GuidsRight' /\ \E es : Reports(es)

LEMMA OriginType == Origin \in Origins
  BY DEF Origin, Origins

LEMMA NothingReported ==
  ASSUME TypeOK, UNCHANGED events, hub'.gen = hub.gen
  PROVE  Reports(<< >>)
<1>1. << >> \in Seq(Events) /\ Len(<< >>) = 0 /\ events = events \o << >>
  BY EmptySeq, ConcatEmptySeq, HubFacts
<1> QED
  BY <1>1 DEF Reports

LEMMA FailReports ==
  ASSUME TypeOK, Fail
  PROVE  \E es : Reports(es)
<1> DEFINE es == <<Conn("Disconnected", hub.gen)>>
<1>1. /\ Conn("Disconnected", hub.gen) \in Events /\ Conn("Disconnected", hub.gen).gen = hub.gen
      /\ Conn("Disconnected", hub.gen).what = "Disconnected"
      /\ Conn("Disconnected", hub.gen).kind = "conn"
  BY EventTypes, HubFacts
<1>2. es \in Seq(Events) /\ Len(es) = 1 /\ es[1] = Conn("Disconnected", hub.gen)
  BY <1>1
<1>3. events' = events \o es /\ hub' = [hub EXCEPT !.pc = "backoff"]
  BY DEF Fail, Push
<1>4. hub'.gen = hub.gen
  BY <1>3, HubFacts DEF Hubs
<1> HIDE DEF es
<1> QED
  BY SMTT(30), <1>1, <1>2, <1>3, <1>4 DEF Reports, Report, Announces

LEMMA FaultMoves ==
  ASSUME TypeOK, GuidsRight, Closed,
         Fail \/ (hub' = [hub EXCEPT !.pc = "ended"] /\ UNCHANGED events),
         cmds' \in Seq(Commands), faults' \in 0 .. MaxFaults, UNCHANGED <<plan, now>>
  PROVE  HubMoved
<1>1. CASE Fail
  BY <1>1, FailTypes, FailReports DEF HubMoved
<1>2. CASE hub' = [hub EXCEPT !.pc = "ended"] /\ UNCHANGED events
  <2>1. HubTypeOK' /\ GuidsRight'
    BY <1>2, ClosedTypes, HubFacts
  <2>2. hub'.gen = hub.gen
    BY <1>2, HubFacts DEF Hubs
  <2>3. Reports(<< >>)
    BY <1>2, <2>2, NothingReported
  <2> QED
    BY <2>1, <2>3 DEF HubMoved
<1> QED
  BY <1>1, <1>2

LEMMA PopCommand ==
  ASSUME TypeOK, cmds # << >>
  PROVE  Head(cmds).from \in 0 .. MaxNow /\ Tail(cmds) \in Seq(Commands)
<1>1. cmds \in Seq(Commands)
  BY HubFacts
<1>2. Head(cmds) \in Commands /\ Tail(cmds) \in Seq(Commands)
  BY <1>1, HeadTailProperties
<1> QED
  BY <1>2 DEF Commands

LEMMA FaultsBound ==
  ASSUME TypeOK, faults < MaxFaults, faults' = faults + 1
  PROVE  faults' \in 0 .. MaxFaults
  BY SMTT(30), HubFacts, Constants

(* The list of subscriptions is started with two or three events.          *)
LEMMA SubscribingMoves ==
  ASSUME TypeOK, GuidsRight, NEW from \in 0 .. MaxNow, hub' = Subscribing(from),
         \/ Push(<<Conn("Connected", hub.gen), Subscribed(Origin), Stats(hub')>>)
         \/ Push(<<Subscribed(Origin), Stats(hub')>>),
         cmds' \in Seq(Commands), UNCHANGED <<plan, wire, streams, asked, now, faults>>
  PROVE  HubMoved
<1> DEFINE c == Conn("Connected", hub.gen)
           s == Subscribed(Origin)
           x == Stats(hub')
<1>1. c \in Events /\ c.gen = hub.gen /\ c.kind = "conn" /\ c.what = "Connected"
  BY EventTypes, HubFacts
<1>2. s \in Events /\ s.gen = hub.gen /\ s.kind = "subscribed" /\ s.origin = Origin
  BY EventTypes, OriginType
<1>3. hub'.desired = {} /\ hub'.active = {} /\ hub'.gen = hub.gen /\ hub'.gen \in Nat
  BY SubscribingFacts, HubFacts
<1>4. x \in Events /\ x.gen = hub.gen /\ x.kind = "stats"
  BY <1>3, StatsType
<1>5. /\ <<c, s>> \in Seq(Events) /\ <<s>> \in Seq(Events)
      /\ <<c, s, x>> \in Seq(Events) /\ <<s, x>> \in Seq(Events)
      /\ \A k \in 1 .. Len(<<c, s, x>>) : <<c, s, x>>[k] \in {c, s, x}
      /\ \A k \in 1 .. Len(<<s, x>>) : <<s, x>>[k] \in {c, s, x}
  BY ONLY ShortSeqs, <1>1, <1>2, <1>4
<1>6. ASSUME NEW es \in Seq(Events), Push(es), \A k \in 1 .. Len(es) : es[k] \in {c, s, x}
      PROVE  Reports(es)
  <2>1. events' = events \o es
    BY <1>6 DEF Push
  <2>2. \A e \in {c, s, x} : Report(e)
    BY <1>1, <1>2, <1>4 DEF Report, Announces
  <2> HIDE DEF c, s, x
  <2>3. \A k \in 1 .. Len(es) : Report(es[k])
    BY ONLY <1>6, <2>2
  <2>4. es \in Seq(Events) /\ hub'.gen = hub.gen
    BY <1>3
  <2> QED
    BY ONLY <2>1, <2>3, <2>4 DEF Reports
<1>7. CASE Push(<<c, s, x>>)
  <2>1. HubTypeOK' /\ GuidsRight'
    BY <1>5, <1>7, SubscribingTypes
  <2>2. Reports(<<c, s, x>>)
    BY <1>5, <1>6, <1>7
  <2> QED
    BY <2>1, <2>2 DEF HubMoved
<1>8. CASE Push(<<s, x>>)
  <2>1. HubTypeOK' /\ GuidsRight'
    BY <1>5, <1>8, SubscribingTypes
  <2>2. Reports(<<s, x>>)
    BY <1>5, <1>6, <1>8
  <2> QED
    BY <2>1, <2>2 DEF HubMoved
<1> QED
  BY <1>7, <1>8

LEMMA AnnounceMoves ==
  ASSUME TypeOK, GuidsRight, Announce
  PROVE  /\ HubTypeOK' /\ GuidsRight'
         /\ \E e \in Events : /\ events' = Append(events, e) /\ hub'.gen = hub.gen + 1
                              /\ Announces(e) /\ e.gen = hub.gen + 1 /\ e.kind = "conn"
<1> DEFINE e == Conn("Reconnecting", hub.gen + 1)
<1>1. hub.gen + 1 \in Nat
  BY HubFacts
<1>2. e \in Events /\ Announces(e) /\ e.gen = hub.gen + 1 /\ e.kind = "conn"
  BY <1>1, EventTypes DEF Announces
<1>3. Len(events) + Len(<<e>>) <= EventRoom /\ events' = events \o <<e>>
  BY DEF Announce, Push
<1>4. events' = Append(events, e) /\ events' \in Seq(Events) /\ Len(events') <= EventRoom
  <2> HIDE DEF e
  <2> QED
    BY <1>2, <1>3, HubFacts
<1>5. hub' = [Idle EXCEPT !.pc = "connect", !.gen = hub.gen + 1]
  BY DEF Announce
<1>6. /\ hub' \in Hubs /\ hub'.pc = "connect" /\ hub'.gen = hub.gen + 1 /\ hub'.n = 0
      /\ hub'.desired = {} /\ hub'.active = {}
  <2>1. 0 \in 0 .. (AckRetries - 1) /\ 0 \in 0 .. Len(Feeds) /\ 0 \in 0 .. MaxNow
    BY Constants, FeedFacts
  <2> QED
    BY <1>1, <1>5, <2>1 DEF Idle, Hubs, Stages
<1>7. /\ wire' = << >> /\ streams' = {} /\ asked' = << >>
      /\ wire' \in Seq(Messages) /\ asked' \in Seq(Guids) /\ Len(wire') = 0 /\ Len(asked') = 0
  BY EmptySeq DEF Announce, Closed
<1>8. HubTypeOK'
  BY SMTT(30), <1>4, <1>6, <1>7, HubFacts DEF HubTypeOK, Announce
<1>9. GuidsRight'
  BY <1>6, <1>7 DEF GuidsRight
<1> HIDE DEF e
<1> QED
  BY <1>2, <1>4, <1>6, <1>8, <1>9

LEMMA ConnectMoves ==
  ASSUME TypeOK, GuidsRight, Connect
  PROVE  HubMoved
<1>1. plan.from \in 0 .. MaxNow /\ cmds' \in Seq(Commands)
  BY HubFacts DEF Connect, Plans
<1> QED
  BY <1>1, SubscribingMoves DEF Connect

LEMMA ResubscribeMoves ==
  ASSUME TypeOK, GuidsRight, Resubscribe
  PROVE  HubMoved
<1>1. Head(cmds).from \in 0 .. MaxNow /\ cmds' \in Seq(Commands)
  BY PopCommand DEF Resubscribe
<1> QED
  BY <1>1, SubscribingMoves DEF Resubscribe

LEMMA ReconnectMoves ==
  ASSUME TypeOK, GuidsRight, Reconnect
  PROVE  HubMoved
<1>1. cmds' \in Seq(Commands) /\ faults' \in 0 .. MaxFaults
  BY PopCommand, HubFacts DEF Reconnect
<1> QED
  BY <1>1, FaultMoves DEF Reconnect

LEMMA ShutdownMoves ==
  ASSUME TypeOK, GuidsRight, Shutdown
  PROVE  HubMoved
<1>1. cmds' \in Seq(Commands) /\ faults' \in 0 .. MaxFaults
  BY PopCommand, HubFacts DEF Shutdown
<1> QED
  BY <1>1, FaultMoves DEF Shutdown, End

LEMMA SocketErrorMoves ==
  ASSUME TypeOK, GuidsRight, SocketError
  PROVE  HubMoved
<1>1. cmds' \in Seq(Commands) /\ faults' \in 0 .. MaxFaults
  BY FaultsBound, HubFacts DEF SocketError
<1> QED
  BY <1>1, FaultMoves DEF SocketError

LEMMA SocketClosedMoves ==
  ASSUME TypeOK, GuidsRight, SocketClosed
  PROVE  HubMoved
<1>1. cmds' \in Seq(Commands) /\ faults' \in 0 .. MaxFaults
  BY FaultsBound, HubFacts DEF SocketClosed
<1> QED
  BY <1>1, FaultMoves DEF SocketClosed, End

(* Only the stage of the hub changes, and the tries.                       *)
LEMMA StageMoves ==
  ASSUME TypeOK, GuidsRight, NEW pc \in {"start", "send"}, NEW tries \in 0 .. (AckRetries - 1),
         hub' = [hub EXCEPT !.pc = pc, !.tries = tries],
         pc = "send" => hub.pc = "ack",
         faults' \in 0 .. MaxFaults,
         UNCHANGED <<plan, cmds, events, wire, streams, asked, now>>
  PROVE  HubMoved
<1>1. /\ hub' \in Hubs /\ hub'.pc = pc /\ hub'.n = hub.n /\ hub'.i = hub.i /\ hub'.gen = hub.gen
      /\ hub'.desired = hub.desired /\ hub'.active = hub.active
  BY HubFacts DEF Hubs, Stages
<1>2. HubTypeOK'
  BY <1>1, HubFacts DEF HubTypeOK
<1>3. pc = "send" => \A g \in hub.desired : g[1] = hub.i
  BY DEF GuidsRight, Guid
<1>4. GuidsRight'
  BY <1>1, <1>3 DEF GuidsRight
<1>5. Reports(<< >>)
  BY <1>1, NothingReported
<1> QED
  BY <1>2, <1>4, <1>5 DEF HubMoved

LEMMA BackoffMoves ==
  ASSUME TypeOK, GuidsRight, Backoff
  PROVE  HubMoved
<1>1. hub \in Hubs /\ hub.tries \in 0 .. (AckRetries - 1) /\ faults' \in 0 .. MaxFaults
  BY HubFacts DEF Backoff, Hubs
<1>2. hub' = [hub EXCEPT !.pc = "start", !.tries = hub.tries]
  BY <1>1 DEF Backoff, Hubs
<1> QED
  BY <1>1, <1>2, StageMoves DEF Backoff

LEMMA AckTimeoutMoves ==
  ASSUME TypeOK, GuidsRight, AckTimeout
  PROVE  HubMoved
<1>1. faults' \in 0 .. MaxFaults /\ cmds' \in Seq(Commands)
  BY FaultsBound, HubFacts DEF AckTimeout
<1>2. CASE Fail /\ Closed
  BY <1>1, <1>2, FaultMoves DEF AckTimeout
<1>3. CASE hub.tries + 1 < AckRetries
  <2>1. hub.tries + 1 \in 0 .. (AckRetries - 1)
    BY SMTT(30), <1>3, HubFacts, Constants DEF Hubs
  <2>2. hub' = [hub EXCEPT !.pc = "send", !.tries = hub.tries + 1]
    BY <1>3 DEF AckTimeout
  <2> QED
    BY <1>1, <1>3, <2>1, <2>2, StageMoves DEF AckTimeout
<1> QED
  BY <1>2, <1>3 DEF AckTimeout

(* One report, or two.                                                     *)
LEMMA ReportTypes ==
  ASSUME TypeOK, NEW a, Report(a), NEW b, Report(b), hub'.gen = hub.gen,
         Push(<<b>>) \/ Push(<<a, b>>)
  PROVE  events' \in Seq(Events) /\ Len(events') <= EventRoom /\ \E es : Reports(es)
<1>1. a \in Events /\ b \in Events
  BY DEF Report
<1>2. CASE Push(<<b>>)
  <2>1. <<b>> \in Seq(Events) /\ \A k \in 1 .. Len(<<b>>) : <<b>>[k] = b
    BY <1>1
  <2>2. \A k \in 1 .. Len(<<b>>) : Report(<<b>>[k])
    BY <2>1
  <2>3. Reports(<<b>>)
    BY <1>2, <2>1, <2>2 DEF Reports, Push
  <2> QED
    BY <1>2, <2>1, <2>3, PushTypes
<1>3. CASE Push(<<a, b>>)
  <2>1. /\ <<a, b>> \in Seq(Events)
        /\ \A k \in 1 .. Len(<<a, b>>) : <<a, b>>[k] = a \/ <<a, b>>[k] = b
    BY <1>1
  <2>2. \A k \in 1 .. Len(<<a, b>>) : Report(<<a, b>>[k])
    BY <2>1
  <2>3. Reports(<<a, b>>)
    BY <1>3, <2>1, <2>2 DEF Reports, Push
  <2> QED
    BY <1>3, <2>1, <2>3, PushTypes
<1> QED
  BY <1>2, <1>3

LEMMA SendFacts ==
  ASSUME TypeOK, GuidsRight, Send
  PROVE  /\ hub.i \in 1 .. Len(Feeds) /\ hub.n \in Nat
         /\ hub' \in Hubs /\ hub'.pc = "ack" /\ hub'.n = hub.n + 1 /\ hub'.i = hub.i
         /\ hub'.gen = hub.gen /\ hub'.wallclock = hub.wallclock /\ hub'.from = hub.from
         /\ hub'.skip = hub.skip /\ hub'.active = hub.active
         /\ hub'.desired = {<<hub.i, hub.n + 1>>} /\ Guid' = <<hub.i, hub.n + 1>>
         /\ Guid' \in Guids /\ asked' = <<Guid'>>
         /\ asked' \in Seq(Guids) /\ Len(asked') = 1 /\ asked'[1] = Guid'
<1>1. hub.i \in 1 .. Len(Feeds) /\ hub.n \in Nat
  BY HubFacts DEF Send, GuidsRight
<1>2. <<hub.i, hub.n + 1>> \in Guids
  BY <1>1 DEF Guids
<1>3. {g \in hub.desired : g[1] # hub.i} = {}
  BY DEF Send, GuidsRight
<1>4. hub' = [hub EXCEPT !.pc = "ack", !.n = hub.n + 1,
                         !.desired = {g \in hub.desired : g[1] # hub.i} \cup {<<hub.i, hub.n + 1>>}]
  BY HubFacts DEF Send, Hubs
<1>5. hub' = [hub EXCEPT !.pc = "ack", !.n = hub.n + 1, !.desired = {<<hub.i, hub.n + 1>>}]
  BY <1>3, <1>4
<1>6. /\ hub' \in Hubs /\ hub'.pc = "ack" /\ hub'.n = hub.n + 1 /\ hub'.i = hub.i
      /\ hub'.gen = hub.gen /\ hub'.wallclock = hub.wallclock /\ hub'.from = hub.from
      /\ hub'.skip = hub.skip /\ hub'.active = hub.active
      /\ hub'.desired = {<<hub.i, hub.n + 1>>}
  <2>1. PICK d \in SUBSET Guids : d = {<<hub.i, hub.n + 1>>}
    BY <1>2
  <2>2. PICK n \in Nat : n = hub.n + 1
    BY <1>1
  <2>3. hub' = [hub EXCEPT !.pc = "ack", !.n = n, !.desired = d]
    BY <1>5, <2>1, <2>2
  <2>4. hub \in Hubs
    BY HubFacts
  <2>5. /\ hub' \in Hubs /\ hub'.pc = "ack" /\ hub'.n = n /\ hub'.i = hub.i
        /\ hub'.gen = hub.gen /\ hub'.wallclock = hub.wallclock /\ hub'.from = hub.from
        /\ hub'.skip = hub.skip /\ hub'.active = hub.active /\ hub'.desired = d
    BY ONLY <2>3, <2>4, d \in SUBSET Guids, n \in Nat DEF Hubs, Stages
  <2> QED
    BY <2>1, <2>2, <2>5
<1>7. Guid' = <<hub.i, hub.n + 1>>
  BY <1>6 DEF Guid
<1>8. asked' = <<Guid'>> /\ Guid' \in Guids
  BY <1>2, <1>7 DEF Send
<1>9. asked' \in Seq(Guids) /\ Len(asked') = 1 /\ asked'[1] = Guid'
  BY <1>8
<1> QED
  BY <1>1, <1>6, <1>7, <1>8, <1>9

LEMMA SendMoves ==
  ASSUME TypeOK, GuidsRight, Send
  PROVE  HubMoved
<1>1. /\ hub.i \in 1 .. Len(Feeds) /\ hub.n \in Nat
      /\ hub' \in Hubs /\ hub'.pc = "ack" /\ hub'.n = hub.n + 1 /\ hub'.i = hub.i
      /\ hub'.gen = hub.gen /\ hub'.active = hub.active
      /\ hub'.desired = {<<hub.i, hub.n + 1>>} /\ Guid' = <<hub.i, hub.n + 1>>
      /\ Guid' \in Guids /\ asked' = <<Guid'>>
      /\ asked' \in Seq(Guids) /\ Len(asked') = 1 /\ asked'[1] = Guid'
  BY SendFacts
<1>2. \A g \in hub.active : g[1] < hub.i
  BY DEF Send, GuidsRight
<1>3. \A g, k \in hub'.desired \cup hub'.active : g[1] = k[1] => g = k
  <2>1. ASSUME NEW g \in hub'.desired \cup hub'.active, NEW k \in hub'.desired \cup hub'.active,
               g[1] = k[1]
        PROVE  g = k
    <3>1. \A x \in hub'.desired : x = <<hub.i, hub.n + 1>> /\ x[1] = hub.i
      BY <1>1
    <3>2. CASE g \in hub.active /\ k \in hub.active
      BY <2>1, <3>2 DEF GuidsRight
    <3> QED
      BY <1>1, <1>2, <2>1, <3>1, <3>2
  <2> QED
    BY <2>1
<1>4. PICK x : x = Stats(hub')
  OBVIOUS
<1>5. Report(x)
  <2>1. hub'.gen \in Nat /\ hub'.desired \subseteq Guids /\ hub'.active \subseteq Guids
    BY <1>1, HubFacts
  <2> QED
    BY <1>1, <1>3, <1>4, <2>1, StatsType DEF Report, Announces
<1>6. events' \in Seq(Events) /\ Len(events') <= EventRoom /\ \E es : Reports(es)
  BY <1>1, <1>4, <1>5, ReportTypes DEF Send
<1>7. HubTypeOK'
  <2>1. hub'.desired \cup hub'.active \cup streams' \subseteq (1 .. Len(Feeds)) \X (1 .. hub'.n)
    <3>1. <<hub.i, hub.n + 1>> \in (1 .. Len(Feeds)) \X (1 .. hub.n + 1)
      BY <1>1
    <3>2. (1 .. Len(Feeds)) \X (1 .. hub.n) \subseteq (1 .. Len(Feeds)) \X (1 .. hub.n + 1)
      BY <1>1
    <3>3. hub.desired \cup hub.active \cup streams \subseteq (1 .. Len(Feeds)) \X (1 .. hub.n)
          /\ streams' = streams
      BY HubFacts DEF Send
    <3> QED
      BY <1>1, <3>1, <3>2, <3>3
  <2> QED
    BY <1>1, <1>6, <2>1, HubFacts DEF HubTypeOK, Send
<1>8. GuidsRight'
  <2>1. \A k \in 1 .. Len(wire') : wire'[k].guid # << >> => wire'[k].guid[2] \in 1 .. hub'.n
    BY <1>1 DEF GuidsRight, Send
  <2>2. \A k \in 1 .. Len(asked') : asked'[k][2] \in 1 .. hub'.n
    BY <1>1
  <2>3. hub'.desired = {Guid'} /\ hub'.i >= 1 /\ \A g \in hub'.active : g[1] < hub'.i
    BY <1>1, <1>2
  <2>4. streams' \subseteq Bars \X Nat
    BY DEF GuidsRight, Send
  <2> QED
    BY <1>1, <1>3, <2>1, <2>2, <2>3, <2>4 DEF GuidsRight
<1> QED
  BY <1>6, <1>7, <1>8 DEF HubMoved

LEMMA PopWire ==
  ASSUME TypeOK, GuidsRight, wire # << >>
  PROVE  /\ Len(wire) \in Nat /\ Len(wire) >= 1 /\ Head(wire) = wire[1] /\ wire[1] \in Messages
         /\ Tail(wire) \in Seq(Messages) /\ Len(Tail(wire)) = Len(wire) - 1
         /\ \A k \in 1 .. Len(wire) - 1 : Tail(wire)[k] = wire[k + 1]
         /\ \A k \in 1 .. Len(Tail(wire)) :
              Tail(wire)[k].guid # << >> => Tail(wire)[k].guid[2] \in 1 .. hub.n
<1>1. /\ Len(wire) \in Nat /\ Len(wire) >= 1 /\ Head(wire) = wire[1] /\ wire[1] \in Messages
      /\ Tail(wire) \in Seq(Messages) /\ Len(Tail(wire)) = Len(wire) - 1
      /\ \A k \in 1 .. Len(wire) - 1 : Tail(wire)[k] = wire[k + 1]
  BY PopSeq, HubFacts
<1> QED
  BY <1>1 DEF GuidsRight

LEMMA ReadAckFacts ==
  ASSUME TypeOK, GuidsRight, ReadAck
  PROVE  /\ hub.i \in 1 .. Len(Feeds) /\ Guid \in hub.desired /\ Guid[1] = hub.i
         /\ hub' \in Hubs /\ hub'.pc \in {"send", "run"} /\ hub'.n = hub.n
         /\ hub'.gen = hub.gen /\ hub'.wallclock = hub.wallclock /\ hub'.from = hub.from
         /\ hub'.skip = hub.skip /\ hub'.active = hub.active \cup {Guid} /\ hub'.desired = {}
         /\ hub'.pc = "send" => hub'.i = hub.i + 1
<1>1. hub.i \in 1 .. Len(Feeds) /\ hub.desired = {Guid} /\ hub.active \in SUBSET Guids
  BY SMTT(30), HubFacts DEF ReadAck, GuidsRight
<1>2. Guid \in Guids /\ Guid[1] = hub.i
  BY <1>1, HubFacts DEF Guid
<1>3. PICK act \in SUBSET Guids : act = hub.active \cup {Guid}
  BY <1>1, <1>2
<1>4. PICK i \in 0 .. Len(Feeds) : i = IF hub.i < Len(Feeds) THEN hub.i + 1 ELSE hub.i
  BY <1>1, FeedFacts
<1>5. PICK pc \in {"send", "run"} : pc = IF hub.i < Len(Feeds) THEN "send" ELSE "run"
  OBVIOUS
<1>6. hub' = [hub EXCEPT !.desired = {}, !.active = act, !.tries = 0, !.i = i, !.pc = pc]
  <2>1. hub.desired \ {Guid} = {}
    BY <1>1
  <2>2. hub' = [hub EXCEPT !.desired = hub.desired \ {Guid}, !.active = hub.active \cup {Guid},
                           !.tries = 0,
                           !.i = IF hub.i < Len(Feeds) THEN hub.i + 1 ELSE hub.i,
                           !.pc = IF hub.i < Len(Feeds) THEN "send" ELSE "run"]
    BY HubFacts DEF ReadAck, Hubs
  <2> QED
    BY <1>3, <1>4, <1>5, <2>1, <2>2
<1>7. hub \in Hubs /\ 0 \in 0 .. (AckRetries - 1)
  BY HubFacts, Constants
<1>8. /\ hub' \in Hubs /\ hub'.pc = pc /\ hub'.n = hub.n /\ hub'.i = i
      /\ hub'.gen = hub.gen /\ hub'.wallclock = hub.wallclock /\ hub'.from = hub.from
      /\ hub'.skip = hub.skip /\ hub'.active = act /\ hub'.desired = {}
  BY ONLY <1>6, <1>7, act \in SUBSET Guids, pc \in {"send", "run"}, i \in 0 .. Len(Feeds)
     DEF Hubs, Stages
<1>9. pc = "send" => i = hub.i + 1
  BY <1>4, <1>5
<1> QED
  BY <1>1, <1>2, <1>3, <1>8, <1>9

LEMMA ReadAckMoves ==
  ASSUME TypeOK, GuidsRight, ReadAck
  PROVE  HubMoved
<1>1. /\ hub.i \in 1 .. Len(Feeds) /\ Guid \in hub.desired /\ Guid[1] = hub.i
      /\ hub' \in Hubs /\ hub'.pc \in {"send", "run"} /\ hub'.n = hub.n
      /\ hub'.gen = hub.gen
      /\ hub'.active = hub.active \cup {Guid} /\ hub'.desired = {}
      /\ hub'.pc = "send" => hub'.i = hub.i + 1
  BY ReadAckFacts
<1>2. hub.i \in Nat /\ \A g \in hub.active : g[1] < hub.i /\ g[1] \in Nat
  BY SMTT(30), <1>1, HubFacts DEF ReadAck, GuidsRight, Guids
<1>3. \A g, k \in hub'.desired \cup hub'.active : g[1] = k[1] => g = k
  <2>1. ASSUME NEW g \in hub'.active, NEW k \in hub'.active, g[1] = k[1]
        PROVE  g = k
    <3>2. CASE g \in hub.active /\ k \in hub.active
      BY <2>1, <3>2 DEF GuidsRight
    <3> QED
      BY <1>1, <1>2, <2>1, <3>2
  <2> QED
    BY <1>1, <2>1
<1>4. PICK x : x = Stats(hub')
  OBVIOUS
<1>5. Report(x) /\ Report(Ack(Feeds[hub.i]))
  <2>1. hub'.gen \in Nat /\ hub'.desired \subseteq Guids /\ hub'.active \subseteq Guids
    BY <1>1, HubFacts DEF Hubs
  <2>2. Report(x)
    BY <1>1, <1>3, <1>4, <2>1, StatsType DEF Report, Announces
  <2>3. Report(Ack(Feeds[hub.i]))
    BY <1>1, EventTypes DEF Report, Announces
  <2> QED
    BY <2>2, <2>3
<1>6. events' \in Seq(Events) /\ Len(events') <= EventRoom /\ \E es : Reports(es)
  BY <1>1, <1>4, <1>5, ReportTypes DEF ReadAck
<1>7. wire' \in Seq(Messages)
      /\ \A k \in 1 .. Len(wire') : wire'[k].guid # << >> => wire'[k].guid[2] \in 1 .. hub.n
  BY PopWire DEF ReadAck
<1>8. HubTypeOK'
  <2>1. hub'.desired \cup hub'.active \cup streams' \subseteq (1 .. Len(Feeds)) \X (1 .. hub'.n)
    BY <1>1, HubFacts DEF ReadAck
  <2> QED
    BY <1>1, <1>6, <1>7, <2>1, HubFacts DEF HubTypeOK, ReadAck
<1>9. GuidsRight'
  <2>1. hub'.pc = "send" => hub'.i >= 1 /\ \A g \in hub'.active : g[1] < hub'.i
    BY <1>1, <1>2
  <2>2. (\A k \in 1 .. Len(asked) : asked[k][2] \in 1 .. hub.n)' /\ (streams \subseteq Bars \X Nat)'
    BY <1>1 DEF GuidsRight, ReadAck
  <2> QED
    BY <1>1, <1>3, <1>7, <2>1, <2>2 DEF GuidsRight
<1> QED
  BY <1>6, <1>8, <1>9 DEF HubMoved

(* A message is read and forwarded, or ignored.                            *)
LEMMA ReadMessageMoves ==
  ASSUME TypeOK, GuidsRight, ReadMessage
  PROVE  /\ HubTypeOK' /\ GuidsRight'
         /\ \/ events' = events /\ wire[1].guid \notin hub.active \cup {<< >>}
            \/ events' = Append(events, Raw(wire[1]))
<1>1. wire # << >> /\ wire' = Tail(wire) /\ UNCHANGED <<hub, plan, cmds, streams, asked, now, faults>>
  BY DEF ReadMessage
<1>2. /\ Head(wire) = wire[1] /\ wire[1] \in Messages /\ wire' \in Seq(Messages)
      /\ \A k \in 1 .. Len(wire') : wire'[k].guid # << >> => wire'[k].guid[2] \in 1 .. hub.n
  BY <1>1, PopWire
<1>3. \/ events' = events /\ wire[1].guid \notin hub.active \cup {<< >>}
      \/ events' = Append(events, Raw(wire[1])) /\ Len(events') <= EventRoom
  <2>1. CASE wire[1].guid \in hub.active \cup {<< >>}
    <3>1. PICK e \in Events : e = Raw(wire[1])
      BY <1>2, EventTypes
    <3>2. Len(events) + Len(<<e>>) <= EventRoom /\ events' = events \o <<e>>
      BY <1>2, <2>1, <3>1 DEF ReadMessage, Push
    <3>3. events' = Append(events, e) /\ Len(events') <= EventRoom
      BY ONLY <3>2, HubFacts, TypeOK, e \in Events
    <3> QED
      BY <3>1, <3>3
  <2>2. CASE wire[1].guid \notin hub.active \cup {<< >>}
    BY <1>2, <2>2 DEF ReadMessage
  <2> QED
    BY <2>1, <2>2
<1>4. events' \in Seq(Events) /\ Len(events') <= EventRoom
  <2>1. CASE events' = events
    BY <2>1, HubFacts
  <2>2. CASE events' = Append(events, Raw(wire[1])) /\ Len(events') <= EventRoom
    <3>1. PICK e \in Events : e = Raw(wire[1])
      BY <1>2, EventTypes
    <3>2. events \in Seq(Events)
      BY HubFacts
    <3>3. Append(events, e) \in Seq(Events)
      BY ONLY <3>2, e \in Events
    <3> QED
      BY <2>2, <3>1, <3>3
  <2> QED
    BY <1>3, <2>1, <2>2
<1>5. HubTypeOK'
  BY <1>1, <1>2, <1>4, HubFacts DEF HubTypeOK
<1>6. GuidsRight'
  BY <1>1, <1>2 DEF GuidsRight, Guid
<1> QED
  BY <1>3, <1>5, <1>6

LEMMA AppendOne ==
  ASSUME NEW S, NEW s \in Seq(S), NEW e \in S
  PROVE  /\ Append(s, e) = s \o <<e>> /\ <<e>> \in Seq(S) /\ Len(<<e>>) = 1
         /\ \A k \in 1 .. Len(<<e>>) : <<e>>[k] = e
  OBVIOUS

LEMMA MessageTypes ==
  /\ \A g \in Guids : Message(g, "ok", 0) \in Messages /\ Message(g, "refused", 0) \in Messages
  /\ Message(<< >>, "auth", 0) \in Messages
  /\ \A g, what, t : /\ Message(g, what, t).guid = g /\ Message(g, what, t).what = what
                     /\ Message(g, what, t).t = t
  BY DEF Message, Messages

(* The broker puts messages on the wire.                                   *)
LEMMA WireTypes ==
  ASSUME TypeOK, GuidsRight, NEW h \in Seq(Messages), wire' = wire \o h,
         \A k \in 1 .. Len(h) : h[k].guid # << >> => h[k].guid[2] \in 1 .. hub.n,
         asked' \in Seq(Guids), Len(asked') <= 1,
         \A k \in 1 .. Len(asked') : asked'[k][2] \in 1 .. hub.n,
         streams' \subseteq Bars \X Nat,
         streams' \subseteq (1 .. Len(Feeds)) \X (1 .. hub.n),
         now' \in 1 .. MaxNow, faults' \in 0 .. MaxFaults,
         UNCHANGED <<hub, plan, cmds, events>>
  PROVE  HubTypeOK' /\ GuidsRight'
<1>1. /\ wire' \in Seq(Messages) /\ Len(wire') = Len(wire) + Len(h)
      /\ Len(wire) \in Nat /\ Len(h) \in Nat
      /\ \A k \in 1 .. Len(wire) : wire'[k] = wire[k]
      /\ \A k \in Len(wire) + 1 .. Len(wire) + Len(h) : wire'[k] = h[k - Len(wire)]
  <2>1. wire \in Seq(Messages)
    BY HubFacts
  <2> QED
    BY <2>1, JoinSeq
<1>2. \A k \in 1 .. Len(wire') : wire'[k].guid # << >> => wire'[k].guid[2] \in 1 .. hub.n
  <2> SUFFICES ASSUME NEW k \in 1 .. Len(wire'), wire'[k].guid # << >>
               PROVE  wire'[k].guid[2] \in 1 .. hub.n
    OBVIOUS
  <2>1. CASE k <= Len(wire)
    BY <1>1, <2>1 DEF GuidsRight
  <2>2. CASE k > Len(wire)
    <3>1. k - Len(wire) \in 1 .. Len(h) /\ wire'[k] = h[k - Len(wire)]
      BY <1>1, <2>2
    <3> QED
      BY <3>1
  <2> QED
    BY <1>1, <2>1, <2>2
<1>3. HubTypeOK'
  BY <1>1, HubFacts DEF HubTypeOK
<1>4. GuidsRight'
  BY <1>2 DEF GuidsRight, Guid
<1> QED
  BY <1>3, <1>4

LEMMA AcceptMoves ==
  ASSUME TypeOK, GuidsRight, PlanRight, Accept
  PROVE  HubTypeOK' /\ GuidsRight'
<1>1. PICK g \in Guids, h \in Seq(Messages) :
        /\ g[2] \in 1 .. hub.n /\ asked' = << >>
        /\ wire' = wire \o (<<Message(g, "ok", 0)>> \o h)
        /\ \A k \in 1 .. Len(h) : h[k].guid = g
        /\ g \in Bars \X Nat => streams' = streams \cup {g}
        /\ g \notin Bars \X Nat => streams' = streams
  BY AcceptFacts
<1>2. PICK m \in Messages : m = Message(g, "ok", 0) /\ m.guid = g
  BY MessageTypes
<1>3. PICK x \in Seq(Messages) : x = <<m>> \o h
  <2>1. <<m>> \in Seq(Messages)
    OBVIOUS
  <2>2. <<m>> \o h \in Seq(Messages)
    BY <2>1, ConcatProperties
  <2> QED
    BY <2>2
<1>4. \A k \in 1 .. Len(x) : x[k].guid = g
  <2>1. <<m>> \in Seq(Messages) /\ Len(<<m>>) = 1 /\ <<m>>[1] = m
    OBVIOUS
  <2>2. /\ Len(x) = 1 + Len(h) /\ Len(h) \in Nat /\ x[1] = m
        /\ \A k \in 2 .. 1 + Len(h) : x[k] = h[k - 1]
    BY <1>3, <2>1, JoinSeq
  <2>3. ASSUME NEW k \in 1 .. Len(x) PROVE x[k].guid = g
    <3>1. CASE k = 1
      BY <1>2, <2>2, <3>1
    <3>2. CASE k # 1
      <4>1. k \in 2 .. 1 + Len(h) /\ k - 1 \in 1 .. Len(h)
        BY <2>2, <3>2
      <4> QED
        BY <1>1, <2>2, <4>1
    <3> QED
      BY <3>1, <3>2
  <2> QED
    BY <2>3
<1>5. wire' = wire \o x
  BY <1>1, <1>2, <1>3
<1>6. \A k \in 1 .. Len(x) : x[k].guid # << >> => x[k].guid[2] \in 1 .. hub.n
  BY <1>1, <1>4
<1>7. streams' \subseteq Bars \X Nat /\ streams' \subseteq (1 .. Len(Feeds)) \X (1 .. hub.n)
  <2>1. streams \subseteq Bars \X Nat /\ streams \subseteq (1 .. Len(Feeds)) \X (1 .. hub.n)
    BY HubFacts DEF GuidsRight
  <2>2. g \in Guids /\ g[2] \in 1 .. hub.n => g \in (1 .. Len(Feeds)) \X (1 .. hub.n)
    BY DEF Guids
  <2> QED
    BY <1>1, <2>1, <2>2
<1>8. /\ asked' \in Seq(Guids) /\ Len(asked') <= 1
      /\ \A k \in 1 .. Len(asked') : asked'[k][2] \in 1 .. hub.n
  <2>1. asked' \in Seq(Guids) /\ Len(asked') = 0
    BY <1>1, EmptySeq
  <2> QED
    BY <2>1
<1>9. faults' \in 0 .. MaxFaults /\ now' \in 1 .. MaxNow
  BY HubFacts DEF Accept
<1> QED
  BY <1>5, <1>6, <1>7, <1>8, <1>9, WireTypes DEF Accept

LEMMA RefuseMoves ==
  ASSUME TypeOK, GuidsRight, Refuse
  PROVE  HubTypeOK' /\ GuidsRight'
<1>1. asked \in Seq(Guids) /\ asked # << >>
  BY HubFacts DEF Refuse
<1>2. asked[1] \in Guids /\ asked[1][2] \in 1 .. hub.n
  BY <1>1, PopSeq DEF GuidsRight
<1>3. PICK m \in Messages : m = Message(asked[1], "refused", 0) /\ m.guid = asked[1]
  BY <1>2, MessageTypes
<1>4. /\ wire' = wire \o <<m>> /\ <<m>> \in Seq(Messages) /\ Len(<<m>>) = 1
      /\ \A k \in 1 .. Len(<<m>>) : <<m>>[k] = m
  <2>1. wire \in Seq(Messages) /\ wire' = Append(wire, m)
    BY <1>3, HubFacts DEF Refuse
  <2> QED
    BY <2>1, AppendOne
<1>5. /\ asked' \in Seq(Guids) /\ Len(asked') <= 1
      /\ \A k \in 1 .. Len(asked') : asked'[k][2] \in 1 .. hub.n
  <2>1. asked' \in Seq(Guids) /\ Len(asked') = 0
    BY EmptySeq DEF Refuse
  <2> QED
    BY <2>1
<1>6. \A k \in 1 .. Len(<<m>>) : <<m>>[k].guid # << >> => <<m>>[k].guid[2] \in 1 .. hub.n
  BY <1>2, <1>3, <1>4
<1>7. faults' \in 0 .. MaxFaults /\ now' \in 1 .. MaxNow
  BY HubFacts, FaultsBound DEF Refuse
<1>8. streams' \subseteq Bars \X Nat /\ streams' \subseteq (1 .. Len(Feeds)) \X (1 .. hub.n)
  BY HubFacts DEF GuidsRight, Refuse
<1> QED
  BY <1>4, <1>5, <1>6, <1>7, <1>8, WireTypes DEF Refuse

LEMMA AuthErrorMoves ==
  ASSUME TypeOK, GuidsRight, AuthError
  PROVE  HubTypeOK' /\ GuidsRight'
<1>1. PICK m \in Messages : m = Message(<< >>, "auth", 0) /\ m.guid = << >>
  BY MessageTypes
<1>2. /\ wire' = wire \o <<m>> /\ <<m>> \in Seq(Messages) /\ Len(<<m>>) = 1
      /\ \A k \in 1 .. Len(<<m>>) : <<m>>[k] = m
  <2>1. wire \in Seq(Messages) /\ wire' = Append(wire, m)
    BY <1>1, HubFacts DEF AuthError
  <2> QED
    BY <2>1, AppendOne
<1>3. \A k \in 1 .. Len(<<m>>) : <<m>>[k].guid # << >> => <<m>>[k].guid[2] \in 1 .. hub.n
  BY <1>1, <1>2
<1>4. \A k \in 1 .. Len(asked') : asked'[k][2] \in 1 .. hub.n
  BY DEF GuidsRight, AuthError
<1>5. faults' \in 0 .. MaxFaults /\ now' \in 1 .. MaxNow
  BY HubFacts, FaultsBound DEF AuthError
<1>6. streams' \subseteq Bars \X Nat /\ streams' \subseteq (1 .. Len(Feeds)) \X (1 .. hub.n)
  BY HubFacts DEF GuidsRight, AuthError
<1>7. asked' \in Seq(Guids) /\ Len(asked') <= 1
  BY HubFacts DEF AuthError
<1> QED
  BY <1>2, <1>3, <1>4, <1>5, <1>6, <1>7, WireTypes DEF AuthError

LEMMA NewBarMoves ==
  ASSUME TypeOK, GuidsRight, NewBar
  PROVE  HubTypeOK' /\ GuidsRight'
<1>1. PICK h \in Seq(Messages) :
        /\ wire' = wire \o h /\ now' = now + 1 /\ now' \in 1 .. MaxNow
        /\ \A k \in 1 .. Len(h) : h[k].guid \in streams
  BY NewBarFacts
<1>2. \A k \in 1 .. Len(h) : h[k].guid # << >> => h[k].guid[2] \in 1 .. hub.n
  BY <1>1, HubFacts
<1>3. \A k \in 1 .. Len(asked') : asked'[k][2] \in 1 .. hub.n
  BY DEF GuidsRight, NewBar
<1> QED
  BY <1>1, <1>2, <1>3, WireTypes, HubFacts DEF NewBar, GuidsRight

-----------------------------------------------------------------------------
(* The generations.                                                        *)

LEMMA GenerationsPushed ==
  ASSUME TypeOK, GenerationsRight, NEW es \in Seq(Events), events' = events \o es,
         hub'.gen = hub.gen, current' = current,
         \A k \in 1 .. Len(es) : es[k].gen = hub.gen /\ ~Announces(es[k])
  PROVE  GenerationsRight'
<1> DEFINE n == Len(events)
           m == Len(es)
<1>1. /\ n \in Nat /\ m \in Nat /\ Len(events') = n + m
      /\ \A k \in 1 .. n : events'[k] = events[k]
      /\ \A k \in n + 1 .. n + m : events'[k] = es[k - n]
  <2>1. events \in Seq(Events)
    BY HubFacts
  <2> QED
    BY <2>1, JoinSeq
<1>2. hub.gen \in Nat /\ \A k \in 1 .. n : events[k].gen \in Nat
  BY HubFacts, EventFacts
<1>3. current \in Nat
  BY <1>2 DEF TypeOK
<1> HIDE DEF n, m
<1>4. \A k \in n + 1 .. n + m : events'[k].gen = hub.gen /\ ~Announces(events'[k])
  <2> SUFFICES ASSUME NEW k \in n + 1 .. n + m
               PROVE  events'[k].gen = hub.gen /\ ~Announces(events'[k])
    OBVIOUS
  <2>1. PICK j \in 1 .. m : j = k - n
    BY <1>1
  <2>2. es[j].gen = hub.gen /\ ~Announces(es[j]) /\ events'[k] = es[j]
    BY <1>1, <2>1 DEF m
  <2> QED
    BY <2>2 DEF Announces
<1>5. hub.gen = current \/ \E j \in 1 .. n : Announces(events'[j]) /\ events'[j].gen = hub.gen
  BY <1>1 DEF GenerationsRight, Announces, n
<1>6. ASSUME NEW k \in 1 .. n + m
      PROVE  /\ events'[k].gen <= hub.gen
             /\ IF Announces(events'[k]) THEN events'[k].gen > current
                ELSE \/ events'[k].gen = current
                     \/ \E j \in 1 .. (k - 1) : Announces(events'[j]) /\ events'[j].gen = events'[k].gen
             /\ \A j \in 1 .. (k - 1) : /\ events'[j].gen <= events'[k].gen
                                        /\ Announces(events'[k]) => events'[j].gen < events'[k].gen
  <2>1. CASE k <= n
    <3>1. k \in 1 .. n /\ \A j \in 1 .. (k - 1) : j \in 1 .. n /\ events'[j] = events[j]
      BY <1>1, <2>1
    <3>2. events'[k] = events[k]
      BY <1>1, <3>1
    <3> QED
      BY <3>1, <3>2 DEF GenerationsRight, Announces, n
  <2>2. CASE k > n
    <3>1. events'[k].gen = hub.gen /\ ~Announces(events'[k])
      <4>1. k \in n + 1 .. n + m
        BY ONLY <1>1, <2>2, k \in 1 .. n + m
      <4> QED
        BY ONLY <1>4, <4>1
    <3>2. \A j \in 1 .. (k - 1) : events'[j].gen <= hub.gen
      <4> SUFFICES ASSUME NEW j \in 1 .. (k - 1) PROVE events'[j].gen <= hub.gen
        OBVIOUS
      <4>1. CASE j <= n
        BY <1>1, <4>1 DEF GenerationsRight, n
      <4>2. CASE j > n
        <5>1. events'[j].gen = hub.gen
          BY <1>1, <1>4, <4>2
        <5> QED
          BY <1>2, <5>1
      <4> QED
        BY <1>1, <4>1, <4>2
    <3>3. 1 .. n \subseteq 1 .. (k - 1)
      BY <1>1, <2>2
    <3>4. events'[k].gen <= hub.gen
      BY <1>2, <3>1
    <3>5. \/ events'[k].gen = current
          \/ \E j \in 1 .. (k - 1) : Announces(events'[j]) /\ events'[j].gen = events'[k].gen
      BY ONLY <1>5, <3>1, <3>3 DEF Announces
    <3> QED
      BY <3>1, <3>2, <3>4, <3>5 DEF Announces
  <2>3. k <= n \/ k > n
    BY <1>1
  <2> QED
    BY ONLY <2>1, <2>2, <2>3
<1>7. 1 .. n \subseteq 1 .. n + m
  BY <1>1
<1> QED
  BY ZenonT(30), <1>1, <1>5, <1>6, <1>7 DEF GenerationsRight

LEMMA GenerationsAnnounced ==
  ASSUME TypeOK, GenerationsRight, NEW e \in Events, events' = Append(events, e),
         hub'.gen = hub.gen + 1, current' = current, Announces(e), e.gen = hub.gen + 1
  PROVE  GenerationsRight'
<1> DEFINE n == Len(events)
<1>1. /\ n \in Nat /\ Len(events') = n + 1
      /\ \A k \in 1 .. n : events'[k] = events[k]
      /\ events'[n + 1] = e
  BY HubFacts, PushSeq
<1>2. hub.gen \in Nat /\ \A k \in 1 .. n : events[k].gen \in Nat
  BY HubFacts, EventFacts
<1>3. current \in Nat /\ current <= hub.gen
  BY <1>2 DEF TypeOK
<1> HIDE DEF n
<1>4. ASSUME NEW k \in 1 .. n + 1
      PROVE  /\ events'[k].gen <= hub.gen + 1
             /\ IF Announces(events'[k]) THEN events'[k].gen > current
                ELSE \/ events'[k].gen = current
                     \/ \E j \in 1 .. (k - 1) : Announces(events'[j]) /\ events'[j].gen = events'[k].gen
             /\ \A j \in 1 .. (k - 1) : /\ events'[j].gen <= events'[k].gen
                                        /\ Announces(events'[k]) => events'[j].gen < events'[k].gen
  <2>1. CASE k <= n
    <3>1. k \in 1 .. n /\ \A j \in 1 .. (k - 1) : j \in 1 .. n /\ events'[j] = events[j]
      BY <1>1, <2>1
    <3>2. events'[k] = events[k] /\ events[k].gen \in Nat
      BY <1>1, <1>2, <3>1
    <3>3. /\ events[k].gen <= hub.gen
          /\ IF Announces(events[k]) THEN events[k].gen > current
             ELSE \/ events[k].gen = current
                  \/ \E j \in 1 .. (k - 1) : Announces(events[j]) /\ events[j].gen = events[k].gen
          /\ \A j \in 1 .. (k - 1) : /\ events[j].gen <= events[k].gen
                                     /\ Announces(events[k]) => events[j].gen < events[k].gen
      BY <3>1 DEF GenerationsRight, n
    <3> QED
      BY <1>2, <3>1, <3>2, <3>3 DEF Announces
  <2>2. CASE k = n + 1
    <3>1. events'[k] = e
      BY <1>1, <2>2
    <3>2. \A j \in 1 .. (k - 1) : events'[j].gen <= hub.gen /\ events'[j].gen \in Nat
      BY <1>1, <1>2, <2>2 DEF GenerationsRight, n
    <3>3. \A j \in 1 .. (k - 1) : events'[j].gen <= e.gen /\ events'[j].gen < e.gen
      BY <1>2, <3>2
    <3>4. Announces(events'[k]) /\ events'[k].gen = hub.gen + 1
      BY <3>1 DEF Announces
    <3>5. hub.gen + 1 > current /\ hub.gen + 1 <= hub.gen + 1
      BY <1>2, <1>3
    <3> QED
      BY <3>1, <3>3, <3>4, <3>5
  <2> QED
    BY <1>1, <2>1, <2>2
<1>5. Announces(events'[n + 1]) /\ events'[n + 1].gen = hub.gen + 1 /\ n + 1 \in 1 .. n + 1
  BY <1>1 DEF Announces
<1>6. current <= hub.gen + 1
  BY <1>2, <1>3
<1> QED
  BY <1>1, <1>4, <1>5, <1>6 DEF GenerationsRight

(* The event task takes the head of the channel, and the new generation    *)
(* from an announcement.                                                   *)
LEMMA GenerationsTaken ==
  ASSUME TypeOK, GenerationsRight, events # << >>, events' = Tail(events), hub' = hub,
         IF Announces(events[1]) THEN current' = events[1].gen ELSE current' = current
  PROVE  GenerationsRight'
<1> DEFINE n == Len(events)
<1>1. /\ n \in Nat /\ n >= 1 /\ Len(events') = n - 1
      /\ \A k \in 1 .. n - 1 : events'[k] = events[k + 1]
  BY HubFacts, PopSeq
<1>2. hub.gen \in Nat /\ \A k \in 1 .. n : events[k].gen \in Nat
  BY HubFacts, EventFacts
<1>3. current \in Nat
  BY <1>2 DEF TypeOK
<1> HIDE DEF n
<1>4. \A k \in 1 .. n :
        /\ events[k].gen <= hub.gen
        /\ IF Announces(events[k]) THEN events[k].gen > current
           ELSE \/ events[k].gen = current
                \/ \E j \in 1 .. (k - 1) : Announces(events[j]) /\ events[j].gen = events[k].gen
        /\ \A j \in 1 .. (k - 1) : /\ events[j].gen <= events[k].gen
                                   /\ Announces(events[k]) => events[j].gen < events[k].gen
  BY DEF GenerationsRight, n
<1>5. 1 \in 1 .. n
  BY <1>1
<1>6. current' <= hub.gen
  BY <1>4, <1>5 DEF GenerationsRight
<1>7. ASSUME NEW k \in 1 .. n - 1
      PROVE  /\ events'[k].gen <= hub.gen
             /\ IF Announces(events'[k]) THEN events'[k].gen > current'
                ELSE \/ events'[k].gen = current'
                     \/ \E j \in 1 .. (k - 1) : Announces(events'[j]) /\ events'[j].gen = events'[k].gen
             /\ \A j \in 1 .. (k - 1) : /\ events'[j].gen <= events'[k].gen
                                        /\ Announces(events'[k]) => events'[j].gen < events'[k].gen
  <2>1. /\ k + 1 \in 1 .. n /\ 1 \in 1 .. (k + 1 - 1) /\ events'[k] = events[k + 1]
        /\ \A j \in 1 .. (k - 1) : events'[j] = events[j + 1] /\ j + 1 \in 1 .. (k + 1 - 1)
    BY <1>1
  <2>2. events[k + 1].gen \in Nat /\ events[1].gen \in Nat
    BY <1>2, <1>5, <2>1
  <2>3. /\ events[k + 1].gen <= hub.gen
        /\ IF Announces(events[k + 1]) THEN events[k + 1].gen > current
           ELSE \/ events[k + 1].gen = current
                \/ \E j \in 1 .. (k + 1 - 1) : Announces(events[j]) /\ events[j].gen = events[k + 1].gen
        /\ \A j \in 1 .. (k + 1 - 1) : /\ events[j].gen <= events[k + 1].gen
                                       /\ Announces(events[k + 1]) => events[j].gen < events[k + 1].gen
    BY <1>4, <2>1
  <2>4. Announces(events[1]) => events[1].gen > current
    BY <1>4, <1>5
  <2>5. ASSUME ~Announces(events[k + 1])
        PROVE  \/ events[k + 1].gen = current'
               \/ \E j \in 1 .. (k - 1) : Announces(events'[j]) /\ events'[j].gen = events[k + 1].gen
    <3>1. CASE events[k + 1].gen = current
      <4>1. ~Announces(events[1])
        <5>1. events[1].gen <= events[k + 1].gen
          BY <2>1, <2>3
        <5> QED
          BY <1>3, <2>2, <2>4, <3>1, <5>1
      <4> QED
        BY <3>1, <4>1
    <3>2. ASSUME NEW j \in 1 .. (k + 1 - 1), Announces(events[j]), events[j].gen = events[k + 1].gen
          PROVE  \/ events[k + 1].gen = current'
                 \/ \E i \in 1 .. (k - 1) : Announces(events'[i]) /\ events'[i].gen = events[k + 1].gen
      <4>1. CASE j = 1
        BY <3>2, <4>1
      <4>2. CASE j # 1
        <5>1. j - 1 \in 1 .. (k - 1) /\ events'[j - 1] = events[j]
          BY <1>1, <4>2
        <5> QED
          BY <3>2, <5>1 DEF Announces
      <4> QED
        BY <4>1, <4>2
    <3> QED
      BY <2>3, <2>5, <3>1, <3>2
  <2>6. Announces(events[k + 1]) => events[k + 1].gen > current'
    BY <1>3, <2>1, <2>2, <2>3
  <2>7. \A j \in 1 .. (k - 1) : /\ events'[j].gen <= events[k + 1].gen
                                /\ Announces(events[k + 1]) => events'[j].gen < events[k + 1].gen
    BY <2>1, <2>3
  <2> QED
    BY <2>1, <2>3, <2>5, <2>6, <2>7 DEF Announces
<1>8. \/ hub.gen = current'
      \/ \E k \in 1 .. n - 1 : Announces(events'[k]) /\ events'[k].gen = hub.gen
  <2>1. CASE hub.gen = current
    <3>1. ~Announces(events[1])
      BY <1>2, <1>3, <1>4, <1>5, <2>1
    <3> QED
      BY <2>1, <3>1
  <2>2. ASSUME NEW j \in 1 .. n, Announces(events[j]), events[j].gen = hub.gen
        PROVE  \/ hub.gen = current'
               \/ \E k \in 1 .. n - 1 : Announces(events'[k]) /\ events'[k].gen = hub.gen
    <3>1. CASE j = 1
      BY <2>2, <3>1
    <3>2. CASE j # 1
      <4>1. j - 1 \in 1 .. (n - 1) /\ events'[j - 1] = events[j]
        BY <1>1, <3>2
      <4> QED
        BY <2>2, <4>1 DEF Announces
    <3> QED
      BY <3>1, <3>2
  <2> QED
    BY <2>1, <2>2 DEF GenerationsRight, n
<1> QED
  BY <1>1, <1>6, <1>7, <1>8 DEF GenerationsRight

-----------------------------------------------------------------------------
(* The steps of the hub and of the broker, and the invariant.              *)

LEMMA HubSteps ==
  ASSUME TypeOK, GuidsRight, PlanRight, HubSide
  PROVE  /\ HubTypeOK' /\ GuidsRight'
         /\ \/ \E es : Reports(es)
            \/ /\ Announce
               /\ \E e \in Events : /\ events' = Append(events, e) /\ hub'.gen = hub.gen + 1
                                    /\ Announces(e) /\ e.gen = hub.gen + 1 /\ e.kind = "conn"
            \/ /\ ReadMessage /\ wire # << >> /\ hub' = hub
               /\ events' = Append(events, Raw(wire[1]))
<1>1. CASE Announce
  BY <1>1, AnnounceMoves
<1>2. CASE Connect \/ Send \/ ReadAck \/ Backoff \/ Resubscribe \/ Reconnect \/ Shutdown \/ HubFault
  BY <1>2, ConnectMoves, SendMoves, ReadAckMoves, BackoffMoves, ResubscribeMoves, ReconnectMoves,
     ShutdownMoves, AckTimeoutMoves, SocketErrorMoves, SocketClosedMoves DEF HubFault, HubMoved
<1>3. CASE ReadMessage
  <2>1. /\ HubTypeOK' /\ GuidsRight' /\ wire # << >> /\ hub' = hub
        /\ events' = events \/ events' = Append(events, Raw(wire[1]))
    BY <1>3, ReadMessageMoves DEF ReadMessage
  <2>2. CASE events' = events
    BY <2>1, <2>2, NothingReported
  <2> QED
    BY <1>3, <2>1, <2>2
<1>4. CASE Broker
  <2>1. hub' = hub /\ events' = events
    BY <1>4 DEF Broker, Accept, Refuse, AuthError, NewBar
  <2>2. Reports(<< >>)
    BY <2>1, NothingReported
  <2> QED
    BY <1>4, <2>2, AcceptMoves, RefuseMoves, AuthErrorMoves, NewBarMoves DEF Broker
<1> QED
  BY <1>1, <1>2, <1>3, <1>4 DEF HubSide, HubStep

LEMMA HubTypes ==
  ASSUME TypeOK, HubSide, HubTypeOK', hub'.gen >= hub.gen
  PROVE  TypeOK'
<1>1. UNCHANGED sessionVars
  BY DEF HubSide
<1>2. current' \in 0 .. hub'.gen
  <2>1. current' = current /\ current \in 0 .. hub.gen /\ hub.gen \in Nat
    BY <1>1, HubFacts DEF TypeOK, sessionVars, shared
  <2>2. hub'.gen \in Nat
    BY DEF HubTypeOK, Hubs
  <2> QED
    BY ONLY <2>1, <2>2, hub'.gen >= hub.gen
<1> QED
  BY <1>1, <1>2 DEF TypeOK, sessionVars, shared, queues, barVars, tick

LEMMA HubGenerations ==
  ASSUME TypeOK, GuidsRight, PlanRight, GenerationsRight, HubSide
  PROVE  GenerationsRight' /\ hub'.gen >= hub.gen
<1>1. current' = current
  BY DEF HubSide, sessionVars, shared
<1>2. hub.gen \in Nat
  BY HubFacts
<1>3. ASSUME NEW es, Reports(es) PROVE GenerationsRight' /\ hub'.gen >= hub.gen
  <2>1. /\ es \in Seq(Events) /\ events' = events \o es /\ hub'.gen = hub.gen
        /\ \A k \in 1 .. Len(es) : es[k].gen = hub.gen /\ ~Announces(es[k])
    BY <1>3 DEF Reports, Report
  <2>2. GenerationsRight'
    BY <1>1, <2>1, GenerationsPushed DEF Announces
  <2> QED
    BY <1>2, <2>1, <2>2
<1>4. ASSUME NEW e \in Events, events' = Append(events, e), hub'.gen = hub.gen + 1,
             Announces(e), e.gen = hub.gen + 1
      PROVE  GenerationsRight' /\ hub'.gen >= hub.gen
  BY <1>1, <1>2, <1>4, GenerationsAnnounced
<1>5. ASSUME wire # << >>, hub' = hub, events' = Append(events, Raw(wire[1]))
      PROVE  GenerationsRight' /\ hub'.gen >= hub.gen
  <2>1. wire[1] \in Messages
    BY <1>5, PopWire
  <2>2. PICK e \in Events : e = Raw(wire[1]) /\ e.gen = hub.gen /\ e.kind = "raw"
    BY <2>1, EventTypes
  <2>3. /\ Append(events, e) = events \o <<e>> /\ <<e>> \in Seq(Events)
        /\ \A k \in 1 .. Len(<<e>>) : <<e>>[k] = e
    BY AppendOne, HubFacts
  <2>4. \A k \in 1 .. Len(<<e>>) : <<e>>[k].gen = hub.gen /\ ~Announces(<<e>>[k])
    BY <2>2, <2>3 DEF Announces
  <2>5. events' = events \o <<e>> /\ hub'.gen = hub.gen
    BY <1>5, <2>2, <2>3
  <2>6. GenerationsRight'
    BY <1>1, <2>3, <2>4, <2>5, GenerationsPushed DEF Announces
  <2> QED
    BY <1>2, <2>5, <2>6
<1> QED
  BY <1>3, <1>4, <1>5, HubSteps

(* What a connection asks for.                                             *)
LEMMA HubPlan ==
  ASSUME TypeOK, GuidsRight, PlanRight, HubSide
  PROVE  PlanRight'
<1>1. plan' = plan /\ lastEmitted' = lastEmitted
  BY DEF HubSide, sessionVars, barVars, HubStep, HubFault, Broker, Announce, Connect, Send, ReadAck,
         ReadMessage, Backoff, Resubscribe, Reconnect, Shutdown, AckTimeout, SocketError,
         SocketClosed, Accept, Refuse, AuthError, NewBar
<1>2. \A from : Fits(from)' <=> Fits(from)
  BY <1>1 DEF Fits
<1>3. \A k \in 1 .. Len(cmds') : Fits(cmds'[k].from)
  <2>1. CASE cmds' = cmds
    BY <2>1 DEF PlanRight
  <2>2. CASE cmds # << >> /\ cmds' = Tail(cmds)
    <3>1. /\ Len(cmds) \in Nat /\ Len(cmds') = Len(cmds) - 1
          /\ \A k \in 1 .. Len(cmds) - 1 : cmds'[k] = cmds[k + 1] /\ k + 1 \in 1 .. Len(cmds)
      BY <2>2, HubFacts, PopSeq
    <3> QED
      BY <3>1 DEF PlanRight
  <2> QED
    BY <2>1, <2>2 DEF HubSide, HubStep, HubFault, Broker, Announce, Connect, Send, ReadAck,
         ReadMessage, Backoff, Resubscribe, Reconnect, Shutdown, AckTimeout, SocketError,
         SocketClosed, Accept, Refuse, AuthError, NewBar
<1>4. now' >= FromTime
  <2>1. now' = now \/ now' = now + 1
    BY DEF HubSide, HubStep, HubFault, Broker, Announce, Connect, Send, ReadAck,
         ReadMessage, Backoff, Resubscribe, Reconnect, Shutdown, AckTimeout, SocketError,
         SocketClosed, Accept, Refuse, AuthError, NewBar
  <2> QED
    BY <2>1, HubFacts, Constants DEF PlanRight
<1>5. /\ hub'.from \in {0, FromTime} \/ Fits(hub'.from)
      /\ hub'.skip => SkipHistory
      /\ hub'.from = 0 => asked' = << >> /\ hub'.pc \notin {"send", "ack", "run"}
  <2>1. CASE Announce
    <3>1. hub'.from = 0 /\ hub'.pc = "connect" /\ asked' = << >> /\ hub'.skip = FALSE
      BY <2>1 DEF Announce, Closed, Idle
    <3> QED
      BY <3>1
  <2>2. ASSUME NEW from \in 0 .. MaxNow, hub' = Subscribing(from), Fits(from)
        PROVE  /\ hub'.from \in {0, FromTime} \/ Fits(hub'.from)
               /\ hub'.skip => SkipHistory
               /\ hub'.from # 0
    BY <2>2, SubscribingFacts, Constants
  <2>3. CASE Connect
    <3>1. plan.from \in 0 .. MaxNow
      BY HubFacts DEF Plans
    <3> QED
      BY <2>2, <2>3, <3>1 DEF Connect, PlanRight
  <2>4. CASE Resubscribe
    <3>1. Head(cmds).from \in 0 .. MaxNow /\ Fits(Head(cmds).from)
      <4>1. cmds # << >> /\ Head(cmds).from \in 0 .. MaxNow
        BY <2>4, PopCommand DEF Resubscribe
      <4>2. Head(cmds) = cmds[1] /\ 1 \in 1 .. Len(cmds)
        BY <4>1, PopSeq, HubFacts
      <4> QED
        BY <4>1, <4>2 DEF PlanRight
    <3> QED
      BY <2>2, <2>4, <3>1 DEF Resubscribe
  <2>5. CASE Send
    <3>1. hub'.from = hub.from /\ hub'.skip = hub.skip /\ hub.from # 0
      BY <2>5, SendFacts DEF Send, PlanRight
    <3> QED
      BY <3>1 DEF PlanRight
  <2>6. CASE ReadAck
    <3>1. hub'.from = hub.from /\ hub'.skip = hub.skip /\ hub.from # 0
      BY <2>6, ReadAckFacts DEF ReadAck, PlanRight
    <3> QED
      BY <3>1 DEF PlanRight
  <2>7. CASE ReadMessage \/ Broker
    <3>1. hub' = hub /\ (asked' = asked \/ asked' = << >>)
      BY <2>7 DEF ReadMessage, Broker, Accept, Refuse, AuthError, NewBar
    <3> QED
      BY <3>1 DEF PlanRight
  <2>8. CASE Reconnect \/ Shutdown \/ SocketError \/ SocketClosed \/ Backoff \/ AckTimeout
    <3>1. /\ hub'.from = hub.from /\ hub'.skip = hub.skip
          /\ hub.from = 0 => asked' = << >> /\ hub'.pc \notin {"send", "ack", "run"}
      BY <2>8, HubFacts DEF Reconnect, Shutdown, SocketError, SocketClosed, Backoff, AckTimeout, Fail,
         End, Closed, Hubs, PlanRight
    <3> QED
      BY <3>1 DEF PlanRight
  <2> QED
    BY <2>1, <2>3, <2>4, <2>5, <2>6, <2>7, <2>8 DEF HubSide, HubStep, HubFault
<1>6. (\A s \in Names : lastEmitted[s] = 0 \/ lastEmitted[s] >= FromTime)'
  BY <1>1 DEF PlanRight
<1> QED
  BY <1>1, <1>2, <1>3, <1>4, <1>5, <1>6 DEF PlanRight

RecentWire(w) == \A k \in 1 .. Len(w) : w[k].what = "bar" => Recent(w[k].t)

LEMMA HubRecentWire ==
  ASSUME TypeOK, GuidsRight, PlanRight, BarsRecent, HubSide
  PROVE  RecentWire(wire')
<1>0. RecentWire(wire) /\ wire \in Seq(Messages) /\ Len(wire) \in Nat
  BY HubFacts, LenProperties DEF BarsRecent, RecentWire
<1>1. CASE wire' = wire
  BY <1>0, <1>1
<1>2. CASE wire' = << >>
  BY <1>2 DEF RecentWire
<1>3. CASE wire # << >> /\ wire' = Tail(wire)
  <2>1. /\ Len(wire') = Len(wire) - 1
        /\ \A k \in 1 .. Len(wire) - 1 : wire'[k] = wire[k + 1] /\ k + 1 \in 1 .. Len(wire)
    BY <1>0, <1>3, PopWire
  <2> QED
    BY <1>0, <2>1 DEF RecentWire
<1>4. ASSUME NEW h \in Seq(Messages), RecentWire(h), wire' = wire \o h
      PROVE  RecentWire(wire')
  <2>1. /\ Len(wire') = Len(wire) + Len(h) /\ Len(h) \in Nat
        /\ \A k \in 1 .. Len(wire) : wire'[k] = wire[k]
        /\ \A k \in Len(wire) + 1 .. Len(wire) + Len(h) : wire'[k] = h[k - Len(wire)]
    BY <1>0, <1>4, JoinSeq
  <2> SUFFICES ASSUME NEW k \in 1 .. Len(wire'), wire'[k].what = "bar"
               PROVE  Recent(wire'[k].t)
    BY DEF RecentWire
  <2>2. CASE k <= Len(wire)
    BY <1>0, <2>1, <2>2 DEF RecentWire
  <2>3. CASE k > Len(wire)
    <3>1. k - Len(wire) \in 1 .. Len(h) /\ wire'[k] = h[k - Len(wire)]
      BY <1>0, <2>1, <2>3
    <3> QED
      BY <1>4, <3>1 DEF RecentWire
  <2>4. k <= Len(wire) \/ k > Len(wire)
    BY <1>0
  <2> QED
    BY ONLY <2>2, <2>3, <2>4
<1>5. ASSUME NEW m \in Messages, m.what # "bar", wire' = Append(wire, m)
      PROVE  RecentWire(wire')
  <2>1. wire' = wire \o <<m>> /\ <<m>> \in Seq(Messages) /\ \A k \in 1 .. Len(<<m>>) : <<m>>[k] = m
    BY <1>0, <1>5, AppendOne
  <2>2. RecentWire(<<m>>)
    BY <1>5, <2>1 DEF RecentWire
  <2> QED
    BY <1>4, <2>1, <2>2
<1>6. CASE Accept
  <2>1. PICK g \in Guids, h \in Seq(Messages) :
          /\ wire' = wire \o (<<Message(g, "ok", 0)>> \o h)
          /\ \A k \in 1 .. Len(h) : h[k].what = "bar" /\ h[k].t = hub.from + k - 1
          /\ hub.from >= 1
    BY <1>6, AcceptFacts
  <2>2. PICK m \in Messages : m = Message(g, "ok", 0) /\ m.what = "ok"
    BY MessageTypes
  <2>3. Recent(hub.from) /\ hub.from \in Nat
    BY SMTT(30), <2>1, HubFacts, Constants DEF PlanRight, Fits, Recent, Early
  <2>4. \A k \in 1 .. Len(h) : Recent(h[k].t)
    BY <2>1, <2>3, Constants DEF Recent
  <2>5. <<m>> \in Seq(Messages) /\ Len(<<m>>) = 1 /\ <<m>>[1] = m
    OBVIOUS
  <2>6. PICK x : x = <<m>> \o h
    OBVIOUS
  <2>7. /\ x \in Seq(Messages) /\ Len(x) = 1 + Len(h) /\ Len(h) \in Nat /\ x[1] = m
        /\ \A k \in 2 .. 1 + Len(h) : x[k] = h[k - 1]
    BY <2>5, <2>6, JoinSeq
  <2>8. RecentWire(x)
    <3> SUFFICES ASSUME NEW k \in 1 .. Len(x), x[k].what = "bar" PROVE Recent(x[k].t)
      BY DEF RecentWire
    <3>1. k # 1
      BY <2>2, <2>7
    <3>2. k \in 2 .. 1 + Len(h) /\ k - 1 \in 1 .. Len(h)
      BY <2>7, <3>1
    <3> QED
      BY <2>4, <2>7, <3>2
  <2>9. wire' = wire \o x
    BY <2>1, <2>2, <2>6
  <2> QED
    BY <1>4, <2>7, <2>8, <2>9
<1>7. CASE Refuse
  <2>1. asked[1] \in Guids
    BY <1>7, PopSeq, HubFacts DEF Refuse
  <2>2. PICK m \in Messages : m = Message(asked[1], "refused", 0) /\ m.what = "refused"
    BY <2>1, MessageTypes
  <2> QED
    BY <1>5, <1>7, <2>2 DEF Refuse
<1>8. CASE AuthError
  <2>1. PICK m \in Messages : m = Message(<< >>, "auth", 0) /\ m.what = "auth"
    BY MessageTypes
  <2> QED
    BY <1>5, <1>8, <2>1 DEF AuthError
<1>9. CASE NewBar
  <2>1. PICK h \in Seq(Messages) :
          wire' = wire \o h /\ \A k \in 1 .. Len(h) : h[k].t = now + 1
    BY <1>9, NewBarFacts
  <2>2. Recent(now + 1)
    BY HubFacts, Constants DEF PlanRight, Recent
  <2>3. RecentWire(h)
    BY <2>1, <2>2 DEF RecentWire
  <2> QED
    BY <1>4, <2>1, <2>3
<1> QED
  BY <1>1, <1>2, <1>3, <1>6, <1>7, <1>8, <1>9 DEF HubSide, HubStep, HubFault, Broker, Announce,
     Connect, Send, ReadAck, ReadMessage, Backoff, Resubscribe, Reconnect, Shutdown, AckTimeout,
     SocketError, SocketClosed, Closed, End

(* A bar forwarded by a step of the hub was the head of the wire.          *)
LEMMA HubEvents ==
  ASSUME TypeOK, GuidsRight, PlanRight, HubSide, NEW k \in 1 .. Len(events'),
         events'[k].kind = "raw"
  PROVE  \/ k \in 1 .. Len(events) /\ events'[k] = events[k]
         \/ /\ k = Len(events) + 1 /\ ReadMessage /\ wire # << >> /\ hub' = hub
            /\ wire[1] \in Messages /\ events'[k] = Raw(wire[1])
<1>0. events \in Seq(Events) /\ Len(events) \in Nat
  BY HubFacts, LenProperties
<1>1. ASSUME NEW es, Reports(es) PROVE k \in 1 .. Len(events) /\ events'[k] = events[k]
  <2>1. es \in Seq(Events) /\ events' = events \o es /\ \A j \in 1 .. Len(es) : es[j].kind # "raw"
    BY <1>1 DEF Reports, Report
  <2>2. /\ Len(events') = Len(events) + Len(es) /\ Len(es) \in Nat
        /\ \A j \in 1 .. Len(events) : events'[j] = events[j]
        /\ \A j \in Len(events) + 1 .. Len(events) + Len(es) : events'[j] = es[j - Len(events)]
    BY <1>0, <2>1, JoinSeq
  <2>3. k <= Len(events)
    <3> SUFFICES ASSUME k > Len(events) PROVE FALSE
      BY <1>0
    <3>1. k - Len(events) \in 1 .. Len(es) /\ events'[k] = es[k - Len(events)]
      BY <1>0, <2>2
    <3> QED
      BY <2>1, <3>1
  <2>4. k \in 1 .. Len(events)
    BY <1>0, <2>3
  <2> QED
    BY <2>2, <2>4
<1>2. ASSUME NEW e \in Events, events' = Append(events, e)
      PROVE  (k \in 1 .. Len(events) /\ events'[k] = events[k])
             \/ (k = Len(events) + 1 /\ events'[k] = e)
  <2>1. /\ Len(events') = Len(events) + 1 /\ events'[Len(events) + 1] = e
        /\ \A j \in 1 .. Len(events) : events'[j] = events[j]
    BY <1>0, <1>2, PushSeq
  <2> QED
    BY <1>0, <2>1
<1>3. ASSUME NEW e \in Events, events' = Append(events, e), e.kind = "conn"
      PROVE  k \in 1 .. Len(events) /\ events'[k] = events[k]
  BY <1>2, <1>3
<1>4. ASSUME ReadMessage, wire # << >>, hub' = hub, events' = Append(events, Raw(wire[1]))
      PROVE  \/ k \in 1 .. Len(events) /\ events'[k] = events[k]
             \/ /\ k = Len(events) + 1 /\ ReadMessage /\ wire # << >> /\ hub' = hub
                /\ wire[1] \in Messages /\ events'[k] = Raw(wire[1])
  <2>1. wire[1] \in Messages
    BY <1>4, PopWire
  <2>2. PICK e \in Events : e = Raw(wire[1])
    BY <2>1, EventTypes
  <2> QED
    BY <1>2, <1>4, <2>1, <2>2
<1> QED
  BY <1>1, <1>3, <1>4, HubSteps

LEMMA HubRecent ==
  ASSUME TypeOK, GuidsRight, PlanRight, BarsRecent, HubSide
  PROVE  BarsRecent'
<1>1. UNCHANGED <<raw, bars, router, pending, lastEmitted>>
  BY DEF HubSide, sessionVars, queues, barVars
<1>2. \A t : Recent(t)' <=> Recent(t)
  BY <1>1 DEF Recent, Early
<1>3. \A k \in 1 .. Len(wire') : wire'[k].what = "bar" => Recent(wire'[k].t)
  BY HubRecentWire DEF RecentWire
<1>4. ASSUME NEW k \in 1 .. Len(events'), events'[k].kind = "raw", events'[k].msg.what = "bar"
      PROVE  Recent(events'[k].msg.t)
  <2>1. CASE k \in 1 .. Len(events) /\ events'[k] = events[k]
    BY <1>4, <2>1 DEF BarsRecent
  <2>2. CASE wire # << >> /\ wire[1] \in Messages /\ events'[k] = Raw(wire[1])
    <3>1. events'[k].msg = wire[1]
      BY <2>2, EventTypes
    <3>2. 1 \in 1 .. Len(wire)
      BY <2>2, PopWire
    <3> QED
      BY <1>4, <3>1, <3>2 DEF BarsRecent
  <2> QED
    BY <1>4, <2>1, <2>2, HubEvents
<1> QED
  BY <1>1, <1>2, <1>3, <1>4 DEF BarsRecent

-----------------------------------------------------------------------------
(* The steps of the other tasks.                                           *)

HealthStates ==
  [connected : BOOLEAN, desired : 0 .. Len(Feeds), active : 0 .. Len(Feeds),
   lagged : BOOLEAN, ready : BOOLEAN, authorized : BOOLEAN]
RawEntries == [msg : Messages, wallclock : 0 .. MaxNow]
TaskStates == [pc : {"take", "finish", "flush"}, ready : BOOLEAN]

LEMMA SessionFacts ==
  ASSUME TypeOK
  PROVE  /\ current \in 0 .. hub.gen /\ phase \in Phases /\ synced \subseteq SyncFeeds
         /\ health \in HealthStates
         /\ raw \in Seq(RawEntries) /\ Len(raw) <= RawRoom
         /\ bars \in Seq(BarEvents) /\ Len(bars) <= BarRoom
         /\ wallclocks \in Seq(Wallclocks) /\ router \in Routers
         /\ task \in TaskStates
         /\ pending \in [Names -> SUBSET (1 .. MaxNow)] /\ emitted \in [Names -> Seq(1 .. MaxNow)]
         /\ lastEmitted \in [Names -> 0 .. MaxNow] /\ liveSymbols \subseteq Names
         /\ resync \in BOOLEAN /\ ticker \in {"idle", "resubscribe", "stopped"}
  BY DEF TypeOK, HealthStates, RawEntries, TaskStates

(* A plan asks for the bars from the last one of every symbol on, less the *)
(* padding.                                                                *)
LEMMA PlanFacts ==
  ASSUME TypeOK, PlanRight
  PROVE  BackfillPlan \in Plans /\ Fits(BackfillPlan.from)
<1> DEFINE S == {lastEmitted[s] : s \in Names}
           from == Min(S) - Padding
<1>1. Cold \in Plans /\ Fits(Cold.from)
  BY Constants DEF Cold, Plans, Fits
<1>2. ASSUME \A s \in Names : lastEmitted[s] # 0
      PROVE  /\ from \in 1 .. MaxNow /\ Fits(from)
  <2>1. lastEmitted \in [Names -> 0 .. MaxNow] /\ MaxNow \in Nat
    BY SessionFacts, Constants
  <2>2. S \subseteq Nat /\ S # {}
    BY <2>1, FeedFacts
  <2>3. Min(S) \in S /\ \A x \in S : Min(S) <= x
    <3> HIDE DEF S
    <3> QED
      BY <2>2, LeastNat
  <2>4. PICK s0 \in Names : Min(S) = lastEmitted[s0]
    BY <2>3
  <2>5. \A s \in Names : lastEmitted[s0] <= lastEmitted[s]
    BY <2>3, <2>4
  <2> HIDE DEF S
  <2>6. lastEmitted[s0] >= FromTime /\ lastEmitted[s0] \in 0 .. MaxNow
    BY <1>2, <2>1 DEF PlanRight
  <2>7. from = lastEmitted[s0] - Padding
    BY <2>4
  <2>8. from \in 1 .. MaxNow /\ from <= lastEmitted[s0]
    BY <2>6, <2>7, Constants
  <2>9. ASSUME NEW s \in Names PROVE lastEmitted[s] # 0 /\ from <= lastEmitted[s]
    <3>1. lastEmitted[s] \in Nat /\ lastEmitted[s0] <= lastEmitted[s] /\ lastEmitted[s] # 0
      BY <1>2, <2>1, <2>5
    <3> HIDE DEF from
    <3> QED
      BY <2>6, <2>8, <3>1
  <2> HIDE DEF from
  <2> QED
    BY <2>8, <2>9 DEF Fits
<1>3. CASE \E s \in Names : lastEmitted[s] = 0
  BY <1>1, <1>3 DEF BackfillPlan
<1>4. CASE ~(\E s \in Names : lastEmitted[s] = 0)
  <2>1. BackfillPlan = Cold \/ BackfillPlan = [mode |-> "Warm", from |-> from]
    BY <1>4 DEF BackfillPlan
  <2>2. from \in 1 .. MaxNow /\ Fits(from)
    BY <1>2, <1>4
  <2> HIDE DEF from
  <2>3. CASE BackfillPlan = [mode |-> "Warm", from |-> from]
    <3>1. BackfillPlan.from = from
      BY <2>3
    <3>2. [mode |-> "Warm", from |-> from] \in Plans
      BY <2>2, Constants DEF Plans
    <3> QED
      BY <2>2, <2>3, <3>1, <3>2
  <2> QED
    BY <1>1, <2>1, <2>3
<1> QED
  BY <1>3, <1>4

(* What the shared plan, the commands to the hub and its events may become *)
(* when another task runs.                                                 *)
LEMMA SessionHub ==
  ASSUME TypeOK, GuidsRight, PlanRight, SessionSide
  PROVE  /\ plan' \in Plans /\ (plan' = plan \/ Fits(plan'.from))
         /\ cmds' = cmds \/ \E c \in Commands : Fits(c.from) /\ cmds' = Append(cmds, c)
         /\ faults' \in 0 .. MaxFaults
         /\ \/ UNCHANGED <<events, current>>
            \/ /\ EventTask /\ events # << >> /\ events' = Tail(events)
               /\ IF Announces(events[1]) THEN current' = events[1].gen ELSE current' = current
<1>1. Head(events) = events[1]
  OBVIOUS
<1>2. /\ plan' \in Plans /\ (plan' = plan \/ Fits(plan'.from))
  <2>1. plan' = plan \/ plan' = BackfillPlan
    BY DEF SessionSide, EventTask, OnReconnecting, OnConn, OnSubscribed, OnAck, OnStats, OnRaw,
           RouterTask, RouterCommand, RouteAuthError, RouteBar, BarTask, TakeBar, FinishBar, FlushBar,
           GoLive, Ticker, Silence, AskResubscribe, Tick, Stop, Authorize, Unauthorize,
           hubVars
  <2> QED
    BY <2>1, PlanFacts, HubFacts
<1>3. cmds' = cmds \/ \E c \in Commands : Fits(c.from) /\ cmds' = Append(cmds, c)
  <2>1. CASE RouteAuthError
    <3>1. [cmd |-> "Reconnect", from |-> 0] \in Commands
      BY Constants DEF Commands
    <3> QED
      BY <2>1, <3>1 DEF RouteAuthError, Fits
  <2>2. CASE AskResubscribe
    <3>1. plan.from \in 0 .. MaxNow
      BY HubFacts DEF Plans
    <3>2. [cmd |-> "Resubscribe", from |-> plan.from] \in Commands
      BY <3>1 DEF Commands
    <3> QED
      BY <2>2, <3>2 DEF AskResubscribe, PlanRight
  <2>3. CASE Stop
    <3>1. [cmd |-> "Shutdown", from |-> 0] \in Commands
      BY Constants DEF Commands
    <3> QED
      BY <2>3, <3>1 DEF Stop, Fits
  <2> QED
    BY <2>1, <2>2, <2>3
       DEF SessionSide, EventTask, OnReconnecting, OnConn, OnSubscribed, OnAck, OnStats, OnRaw,
           RouterTask, RouterCommand, RouteBar, BarTask, TakeBar, FinishBar, FlushBar,
           GoLive, Ticker, Silence, Tick, Authorize, Unauthorize,
           hubVars
<1>4. faults' \in 0 .. MaxFaults
  <2>1. faults' = faults \/ (faults < MaxFaults /\ faults' = faults + 1)
    BY DEF SessionSide, EventTask, OnReconnecting, OnConn, OnSubscribed, OnAck, OnStats, OnRaw,
           RouterTask, RouterCommand, RouteAuthError, RouteBar, BarTask, TakeBar, FinishBar, FlushBar,
           GoLive, Ticker, Silence, AskResubscribe, Tick, Stop, Authorize, Unauthorize,
           hubVars, socket
  <2> QED
    BY <2>1, HubFacts, FaultsBound
<1>5. \/ UNCHANGED <<events, current>>
      \/ /\ EventTask /\ events # << >> /\ events' = Tail(events)
         /\ IF Announces(events[1]) THEN current' = events[1].gen ELSE current' = current
  <2>1. CASE EventTask
    BY <1>1, <2>1 DEF EventTask, OnReconnecting, OnConn, OnSubscribed, OnAck, OnStats, OnRaw, Take,
       Announces, shared
  <2> QED
    BY <2>1
       DEF SessionSide, RouterTask, RouterCommand, RouteAuthError, RouteBar, BarTask, TakeBar,
           FinishBar, FlushBar, GoLive, Ticker, Silence, AskResubscribe, Tick, Stop, Authorize,
           Unauthorize, hubVars, shared
<1> QED
  BY <1>2, <1>3, <1>4, <1>5

LEMMA SessionHubTypes ==
  ASSUME TypeOK, GuidsRight, PlanRight, GenerationsRight, SessionSide
  PROVE  HubTypeOK' /\ GuidsRight' /\ GenerationsRight' /\ current' \in Nat
<1>1. UNCHANGED <<hub, wire, streams, asked, now>>
  BY SessionFrame
<1>2. plan' \in Plans /\ faults' \in 0 .. MaxFaults
  BY SessionHub
<1>3. cmds' \in Seq(Commands)
  <2>1. cmds' = cmds \/ \E c \in Commands : cmds' = Append(cmds, c)
    BY SessionHub
  <2>2. cmds \in Seq(Commands)
    BY HubFacts
  <2>3. ASSUME NEW c \in Commands PROVE Append(cmds, c) \in Seq(Commands)
    BY <2>2, AppendProperties
  <2> QED
    BY <2>1, <2>2, <2>3
<1>4. events' \in Seq(Events) /\ Len(events') <= EventRoom
  <2>1. CASE events' = events
    BY <2>1, HubFacts
  <2>2. CASE events # << >> /\ events' = Tail(events)
    <3>1. events \in Seq(Events) /\ Len(events) <= EventRoom /\ EventRoom \in Nat
      BY HubFacts, Constants
    <3>2. Len(events) \in Nat /\ events' \in Seq(Events) /\ Len(events') = Len(events) - 1
      BY <2>2, <3>1, PopSeq
    <3> QED
      BY <3>1, <3>2
  <2> QED
    BY <2>1, <2>2, SessionHub
<1>5. HubTypeOK'
  BY <1>1, <1>2, <1>3, <1>4, HubFacts DEF HubTypeOK
<1>6. GuidsRight'
  BY <1>1 DEF GuidsRight, Guid
<1>7. GenerationsRight'
  <2>1. CASE UNCHANGED <<events, current>>
    BY <1>1, <2>1 DEF GenerationsRight
  <2>2. CASE /\ events # << >> /\ events' = Tail(events)
             /\ IF Announces(events[1]) THEN current' = events[1].gen ELSE current' = current
    BY <1>1, <2>2, GenerationsTaken
  <2> QED
    BY <2>1, <2>2, SessionHub
<1>8. current' \in Nat
  <2>1. current \in Nat
    BY HubFacts DEF TypeOK
  <2>2. CASE events # << >>
    <3>1. events[1] \in Events
      BY <2>2, HubFacts, PopSeq
    <3> QED
      BY <2>1, <3>1, EventFacts, SessionHub
  <2>3. CASE events = << >>
    BY <2>1, <2>3, SessionHub
  <2> QED
    BY <2>2, <2>3
<1> QED
  BY <1>5, <1>6, <1>7, <1>8

LEMMA EventHead ==
  ASSUME TypeOK, events # << >>
  PROVE  Head(events) = events[1] /\ events[1] \in Events
  BY HubFacts, PopSeq

LEMMA EventTaskTypes ==
  ASSUME TypeOK, EventTask
  PROVE  /\ phase' \in Phases /\ synced' \subseteq SyncFeeds /\ health' \in HealthStates
         /\ raw' \in Seq(RawEntries) /\ Len(raw') <= RawRoom /\ wallclocks' \in Seq(Wallclocks)
         /\ UNCHANGED <<router, bars, barVars, tick>>
<1> USE DEF shared, queues
<1>1. /\ phase \in Phases /\ synced \subseteq SyncFeeds /\ health \in HealthStates
      /\ raw \in Seq(RawEntries) /\ Len(raw) <= RawRoom /\ wallclocks \in Seq(Wallclocks)
  BY SessionFacts
<1>2. CASE OnReconnecting
  <2>1. health' \in HealthStates
    BY <1>1, <1>2 DEF OnReconnecting, HealthStates
  <2>2. phase' \in Phases
    BY <1>1, <1>2 DEF OnReconnecting, Phases
  <2> QED
    BY <1>1, <1>2, <2>1, <2>2 DEF OnReconnecting
<1>3. CASE OnConn
  <2>1. PICK b \in BOOLEAN : b = (Head(events).what = "Connected")
    OBVIOUS
  <2>2. health' = [health EXCEPT !.connected = b] \/ health' = health
    BY <1>3, <2>1 DEF OnConn
  <2>3. health' \in HealthStates
    BY <1>1, <2>2 DEF HealthStates
  <2> QED
    BY <1>1, <1>3, <2>3 DEF OnConn
<1>4. CASE OnSubscribed
  <2>1. Head(events).origin \in Origins /\ Head(events).wallclock \in 0 .. MaxNow
    BY <1>4, EventHead, EventFacts DEF OnSubscribed, Take
  <2>2. PICK c \in Wallclocks : c = [wallclock |-> Head(events).wallclock,
                                     origin |-> Head(events).origin]
    BY <2>1 DEF Wallclocks
  <2>3. wallclocks' = wallclocks \/ wallclocks' = Append(wallclocks, c)
    BY <1>4, <2>2 DEF OnSubscribed
  <2>4. wallclocks' \in Seq(Wallclocks)
    BY <1>1, <2>3, AppendProperties
  <2>5. phase' \in Phases
    BY <1>1, <1>4 DEF OnSubscribed, Phases
  <2> QED
    BY <1>1, <1>4, <2>4, <2>5 DEF OnSubscribed
<1>5. CASE OnAck
  BY <1>1, <1>5 DEF OnAck
<1>6. CASE OnStats
  <2>1. Head(events).desired \in 0 .. Len(Feeds) /\ Head(events).active \in 0 .. Len(Feeds)
    BY <1>6, EventHead, EventFacts DEF OnStats, Take
  <2>2. health' \in HealthStates
    BY <1>1, <1>6, <2>1 DEF OnStats, HealthStates
  <2> QED
    BY <1>1, <1>6, <2>2 DEF OnStats
<1>7. CASE OnRaw
  <2>1. Head(events).msg \in Messages /\ Head(events).wallclock \in 0 .. MaxNow
    BY <1>7, EventHead, EventFacts DEF OnRaw, Take
  <2>2. PICK r \in RawEntries : r = [msg |-> Head(events).msg, wallclock |-> Head(events).wallclock]
    BY <2>1 DEF RawEntries
  <2>3. raw' = raw \/ (Len(raw) < RawRoom /\ raw' = Append(raw, r))
    BY <1>7, <2>2 DEF OnRaw
  <2>4. raw' \in Seq(RawEntries) /\ Len(raw') <= RawRoom
    <3>1. CASE raw' = raw
      BY <1>1, <3>1
    <3>2. CASE Len(raw) < RawRoom /\ raw' = Append(raw, r)
      <4>1. Len(raw) \in Nat /\ raw' \in Seq(RawEntries) /\ Len(raw') = Len(raw) + 1
        BY <1>1, <3>2, PushSeq
      <4> QED
        BY <3>2, <4>1, Constants
    <3> QED
      BY <2>3, <3>1, <3>2
  <2>5. health' = health \/ health' = [health EXCEPT !.lagged = FALSE]
        \/ health' = [health EXCEPT !.lagged = TRUE, !.ready = FALSE]
    BY <1>7 DEF OnRaw
  <2>6. health' \in HealthStates
    BY <1>1, <2>5 DEF HealthStates
  <2> QED
    BY <1>1, <1>7, <2>4, <2>6 DEF OnRaw
<1> QED
  BY <1>2, <1>3, <1>4, <1>5, <1>6, <1>7 DEF EventTask

LEMMA RawHead ==
  ASSUME TypeOK, raw # << >>
  PROVE  /\ Len(raw) \in Nat /\ Len(raw) >= 1 /\ Head(raw) = raw[1] /\ raw[1] \in RawEntries
         /\ raw[1].msg \in Messages /\ raw[1].wallclock \in 0 .. MaxNow
         /\ Tail(raw) \in Seq(RawEntries) /\ Len(Tail(raw)) = Len(raw) - 1
         /\ Len(Tail(raw)) <= RawRoom
         /\ \A k \in 1 .. Len(raw) - 1 : Tail(raw)[k] = raw[k + 1]
<1>1. /\ Len(raw) \in Nat /\ Len(raw) >= 1 /\ Head(raw) = raw[1] /\ raw[1] \in RawEntries
      /\ Tail(raw) \in Seq(RawEntries) /\ Len(Tail(raw)) = Len(raw) - 1
      /\ \A k \in 1 .. Len(raw) - 1 : Tail(raw)[k] = raw[k + 1]
  BY SessionFacts, PopSeq
<1>2. Len(raw) <= RawRoom /\ RawRoom \in Nat
  BY SessionFacts, Constants
<1>3. Len(Tail(raw)) <= RawRoom
  BY <1>1, <1>2
<1> QED
  BY <1>1, <1>3 DEF RawEntries

(* What the router does with the bar at the head of its queue.             *)
OldEnough(t) == router.cut /\ t <= router.cutoff /\ router.origin # "Live"
Routes(s, t, w) ==
  /\ raw # << >> /\ raw' = Tail(raw) /\ RawBar(1, s, t, w)
  /\ router' \in Routers /\ router'.origin = router.origin
  /\ \A z \in Names \ {s} : router'.held[z] = router.held[z]
  /\ losses' = {} => losses = {} /\ router.cut /\ router.cutoff = w - 2
PassesOn(s, t) == \E e \in BarEvents : e.sym = s /\ e.t = t /\ bars' = Append(bars, e)
PassesHistory(s, t) == OldEnough(t) /\ PassesOn(s, t) /\ router' = router
PassesHeld(s, t) ==
  /\ ~OldEnough(t) /\ router.held[s] # 0 /\ t > router.held[s]
  /\ PassesOn(s, router.held[s]) /\ router'.held[s] = t
PassesNothing(s, t) ==
  /\ ~OldEnough(t) /\ (router.held[s] = 0 \/ t <= router.held[s]) /\ bars' = bars
  /\ router'.held[s] = IF t >= router.held[s] THEN t ELSE router.held[s]

LEMMA RouteBarFacts ==
  ASSUME TypeOK, RouteBar
  PROVE  \E s \in Names, t \in 1 .. MaxNow, w \in 0 .. MaxNow :
           Routes(s, t, w) /\ (PassesHistory(s, t) \/ PassesHeld(s, t) \/ PassesNothing(s, t))
<1>1. PICK m \in Messages : m = raw[1].msg
  BY RawHead DEF RouteBar
<1>2. PICK w \in 0 .. MaxNow : w = raw[1].wallclock
  BY RawHead DEF RouteBar
<1>3. raw # << >> /\ raw' = Tail(raw) /\ Head(raw) = raw[1] /\ m.what = "bar"
  BY <1>1, RawHead DEF RouteBar
<1>4. PICK s \in Names, t \in 1 .. MaxNow : s = Symbols[m.guid[1]] /\ t = m.t
  BY <1>3, MessageFacts
<1>5. RawBar(1, s, t, w)
  BY <1>1, <1>2, <1>3, <1>4 DEF RawBar, IsBar
<1>6. router \in Routers /\ bars \in Seq(BarEvents)
  BY SessionFacts
<1>7. router.held \in [Names -> 0 .. MaxNow] /\ router.origin \in Origins
  BY <1>6 DEF Routers
<1>8. PICK o \in Origins :
        o = IF router.cut /\ m.t <= router.cutoff THEN router.origin ELSE "Live"
  BY <1>7 DEF Origins
<1>9. PICK bar \in BarEvents : bar = BarOf(m) /\ bar.sym = s /\ bar.t = t /\ bar.origin = o
  <2>1. BarOf(m) = [sym |-> s, t |-> t, origin |-> o]
    BY <1>4, <1>8 DEF BarOf
  <2>2. [sym |-> s, t |-> t, origin |-> o] \in BarEvents
    BY DEF BarEvents
  <2> QED
    BY <2>1, <2>2
<1>10. PICK prev \in 0 .. MaxNow : prev = router.held[s]
  BY <1>7
<1>11. /\ bars' = CASE o # "Live" -> Append(bars, bar)
                    [] o = "Live" /\ prev # 0 /\ t > prev -> Append(bars, [bar EXCEPT !.t = prev])
                    [] OTHER -> bars
       /\ router' = IF o = "Live" /\ t >= prev
                    THEN [router EXCEPT !.held[s] = t] ELSE router
       /\ losses' = IF router.cut /\ router.cutoff = w - 2
                    THEN losses ELSE losses \cup {"out of step"}
  BY <1>1, <1>2, <1>3, <1>9, <1>10 DEF RouteBar
<1>12. losses' = {} => losses = {} /\ router.cut /\ router.cutoff = w - 2
  BY <1>11
<1>13. /\ router' \in Routers /\ router'.origin = router.origin
       /\ \A z \in Names \ {s} : router'.held[z] = router.held[z]
       /\ router'.held[s] = IF o = "Live" /\ t >= prev THEN t ELSE prev
  <2>1. CASE o = "Live" /\ t >= prev
    <3>1. router' = [router EXCEPT !.held[s] = t]
      BY <1>11, <2>1
    <3>2. PICK held \in [Names -> 0 .. MaxNow] :
            /\ held = [router.held EXCEPT ![s] = t]
            /\ held[s] = t /\ \A z \in Names \ {s} : held[z] = router.held[z]
      <4>1. t \in 0 .. MaxNow
        BY Constants
      <4>2. [router.held EXCEPT ![s] = t] \in [Names -> 0 .. MaxNow]
        BY <1>7, <4>1
      <4> QED
        BY <1>7, <4>2
    <3>3. router' = [router EXCEPT !.held = held]
      BY <1>6, <3>1, <3>2 DEF Routers
    <3>4. router' \in Routers /\ router'.origin = router.origin /\ router'.held = held
      BY ONLY <1>6, <3>3, held \in [Names -> 0 .. MaxNow] DEF Routers
    <3> QED
      BY <2>1, <3>2, <3>4
  <2>2. CASE ~(o = "Live" /\ t >= prev)
    BY <1>6, <1>10, <1>11, <2>2, Zenon
  <2> QED
    BY <2>1, <2>2
<1>14. Routes(s, t, w)
  BY <1>3, <1>5, <1>12, <1>13 DEF Routes
<1>15. OldEnough(t) <=> o # "Live"
  BY <1>4, <1>8 DEF OldEnough
<1>16. CASE o # "Live"
  <2>1. bars' = Append(bars, bar) /\ router' = router
    BY <1>11, <1>16
  <2>2. PassesHistory(s, t)
    BY <1>9, <1>15, <1>16, <2>1 DEF PassesHistory, PassesOn
  <2> QED
    BY <1>14, <2>2
<1>17. CASE o = "Live" /\ prev # 0 /\ t > prev
  <2>1. PICK old \in BarEvents : old = [bar EXCEPT !.t = prev] /\ old.sym = s /\ old.t = prev
    <3>1. prev \in 1 .. MaxNow
      BY <1>17
    <3>2. [bar EXCEPT !.t = prev] \in BarEvents /\ [bar EXCEPT !.t = prev].sym = s
          /\ [bar EXCEPT !.t = prev].t = prev
      BY <1>9, <3>1 DEF BarEvents
    <3> QED
      BY <3>2
  <2>2. bars' = Append(bars, old)
    BY <1>11, <1>17, <2>1
  <2>3. PassesOn(s, router.held[s])
    BY <1>10, <2>1, <2>2 DEF PassesOn
  <2>4. router'.held[s] = t
    BY <1>13, <1>17
  <2>5. PassesHeld(s, t)
    BY <1>10, <1>15, <1>17, <2>3, <2>4 DEF PassesHeld
  <2> QED
    BY <1>14, <2>5
<1>18. CASE o = "Live" /\ ~(prev # 0 /\ t > prev)
  <2>1. bars' = bars
    BY <1>11, <1>18
  <2>2. PassesNothing(s, t)
    BY <1>10, <1>13, <1>15, <1>18, <2>1 DEF PassesNothing
  <2> QED
    BY <1>14, <2>2
<1> QED
  BY <1>16, <1>17, <1>18

-----------------------------------------------------------------------------
(* The bar task.                                                           *)

Emits(s, t) ==
  /\ t > lastEmitted[s]
  /\ lastEmitted' = [lastEmitted EXCEPT ![s] = t]
  /\ emitted' = [emitted EXCEPT ![s] = Append(@, t)]
Drops(s, t) == t <= lastEmitted[s] /\ UNCHANGED <<lastEmitted, emitted>>

(* The three ways of a bar that is taken.                                  *)
TakeBuffers(s, t) ==
  /\ pending' = [pending EXCEPT ![s] = @ \cup {t}]
  /\ UNCHANGED <<lastEmitted, emitted, losses>>
TakeEmits(s, t) ==
  /\ Emits(s, t) /\ pending' = pending
  /\ losses' = {} => losses = {} /\ pending[s] = {}
TakeDrops(s, t) == Drops(s, t) /\ UNCHANGED <<pending, losses>>

LEMMA TakeBarFacts ==
  ASSUME TypeOK, TakeBar
  PROVE  /\ \E s \in Names, t \in 1 .. MaxNow :
              /\ bars # << >> /\ bars[1].sym = s /\ bars[1].t = t
              /\ TakeBuffers(s, t) \/ TakeEmits(s, t) \/ TakeDrops(s, t)
         /\ bars' = Tail(bars) /\ bars' \in Seq(BarEvents) /\ Len(bars') <= BarRoom
         /\ Len(bars) \in Nat /\ Len(bars) >= 1 /\ Len(bars') = Len(bars) - 1
         /\ \A k \in 1 .. Len(bars) - 1 : bars'[k] = bars[k + 1]
         /\ liveSymbols' \subseteq Names /\ task' \in TaskStates
<1>1. /\ bars # << >> /\ bars \in Seq(BarEvents) /\ Len(bars) <= BarRoom /\ BarRoom \in Nat
      /\ bars' = Tail(bars)
  BY SessionFacts, Constants DEF TakeBar
<1>2. /\ Len(bars) \in Nat /\ Len(bars) >= 1 /\ Head(bars) = bars[1] /\ bars[1] \in BarEvents
      /\ bars' \in Seq(BarEvents) /\ Len(bars') = Len(bars) - 1
      /\ \A k \in 1 .. Len(bars) - 1 : bars'[k] = bars[k + 1]
  BY <1>1, PopSeq
<1>3. Len(bars') <= BarRoom
  BY <1>1, <1>2
<1>4. PICK bar \in BarEvents : bar = bars[1]
  BY <1>2
<1>5. PICK s \in Names, t \in 1 .. MaxNow : s = bar.sym /\ t = bar.t
  BY DEF BarEvents
<1>6. PICK buffer \in BOOLEAN : buffer = (phase = "SyncingGap" /\ bar.origin = "Live")
  OBVIOUS
<1>7. PICK emit \in BOOLEAN : emit = (~buffer /\ Newer(s, t))
  OBVIOUS
<1>8. /\ liveSymbols' = IF bar.origin = "Live" THEN liveSymbols \cup {s} ELSE liveSymbols
      /\ pending' = IF buffer THEN [pending EXCEPT ![s] = @ \cup {t}] ELSE pending
      /\ lastEmitted' = IF emit THEN [lastEmitted EXCEPT ![s] = t] ELSE lastEmitted
      /\ emitted' = IF emit THEN [emitted EXCEPT ![s] = Append(@, t)] ELSE emitted
      /\ task' = IF buffer \/ emit THEN [pc |-> "finish", ready |-> LiveReady] ELSE task
      /\ losses' = IF emit /\ pending[s] # {} THEN losses \cup {"left pending"} ELSE losses
  BY <1>2, <1>4, <1>5, <1>6, <1>7 DEF TakeBar
<1>9. liveSymbols' \subseteq Names
  BY <1>8, SessionFacts
<1>10. task' \in TaskStates
  <2>1. PICK ready \in BOOLEAN : ready = LiveReady
    BY Zenon DEF LiveReady
  <2>2. [pc |-> "finish", ready |-> ready] \in TaskStates
    BY DEF TaskStates
  <2> QED
    BY <1>8, <2>1, <2>2, SessionFacts
<1>11. lastEmitted[s] \in 0 .. MaxNow
  BY SessionFacts
<1>12. TakeBuffers(s, t) \/ TakeEmits(s, t) \/ TakeDrops(s, t)
  <2>1. CASE buffer
    BY <1>7, <1>8, <2>1 DEF TakeBuffers
  <2>2. CASE emit
    <3>1. Emits(s, t) /\ pending' = pending
      BY <1>7, <1>8, <2>2 DEF Emits, Newer
    <3>2. losses' = {} => losses = {} /\ pending[s] = {}
      BY <1>8, <2>2
    <3> QED
      BY <3>1, <3>2 DEF TakeEmits
  <2>3. CASE ~buffer /\ ~emit
    <3>0. ~Newer(s, t)
      BY <1>7, <2>3, Zenon
    <3>1. t <= lastEmitted[s]
      BY <1>11, <3>0, Constants DEF Newer
    <3>2. UNCHANGED <<lastEmitted, emitted, pending, losses>>
      BY <1>8, <2>3
    <3> QED
      BY <3>1, <3>2 DEF TakeDrops, Drops
  <2> QED
    BY <2>1, <2>2, <2>3
<1> QED
  BY <1>1, <1>2, <1>3, <1>4, <1>5, <1>9, <1>10, <1>12

LEMMA FlushBarFacts ==
  ASSUME TypeOK, NEW s \in Names, NEW t \in pending[s], FlushBar(s, t)
  PROVE  /\ t \in 1 .. MaxNow /\ Earliest(s, t)
         /\ pending' = [pending EXCEPT ![s] = @ \ {t}]
         /\ Emits(s, t) \/ Drops(s, t)
         /\ UNCHANGED <<losses, bars, task, liveSymbols>>
<1>1. pending[s] \subseteq 1 .. MaxNow /\ lastEmitted[s] \in 0 .. MaxNow
  BY SessionFacts
<1>2. t \in 1 .. MaxNow
  BY <1>1
<1>3. CASE Newer(s, t)
  <2>1. Emits(s, t)
    BY <1>3 DEF FlushBar, Emits, Newer
  <2> QED
    BY <1>2, <2>1 DEF FlushBar, queues
<1>4. CASE ~Newer(s, t)
  <2>1. t <= lastEmitted[s]
    BY <1>1, <1>2, <1>4, Constants DEF Newer
  <2>2. Drops(s, t)
    BY <1>4, <2>1 DEF FlushBar, Drops
  <2> QED
    BY <1>2, <2>2 DEF FlushBar, queues
<1> QED
  BY <1>3, <1>4

(* A bar is emitted.                                                       *)
LEMMA EmitFacts ==
  ASSUME TypeOK, PlanRight, EmittedRight, NEW s \in Names, NEW t \in 1 .. MaxNow, Recent(t),
         Emits(s, t)
  PROVE  /\ lastEmitted' \in [Names -> 0 .. MaxNow] /\ emitted' \in [Names -> Seq(1 .. MaxNow)]
         /\ lastEmitted'[s] = t /\ \A z \in Names \ {s} : lastEmitted'[z] = lastEmitted[z]
         /\ emitted'[s] = Append(emitted[s], t)
         /\ \A z \in Names \ {s} : emitted'[z] = emitted[z]
         /\ t >= FromTime /\ t > lastEmitted[s] /\ EmittedRight'
<1>1. /\ lastEmitted \in [Names -> 0 .. MaxNow] /\ emitted \in [Names -> Seq(1 .. MaxNow)]
      /\ FromTime \in Nat /\ MaxNow \in Nat
  BY SessionFacts, Constants
<1>2. /\ lastEmitted' = [lastEmitted EXCEPT ![s] = t] /\ t \in 0 .. MaxNow
      /\ emitted' = [emitted EXCEPT ![s] = Append(emitted[s], t)]
      /\ t > lastEmitted[s]
  BY <1>1 DEF Emits
<1>3. lastEmitted' \in [Names -> 0 .. MaxNow] /\ lastEmitted'[s] = t
      /\ \A z \in Names \ {s} : lastEmitted'[z] = lastEmitted[z]
  BY <1>1, <1>2
<1>4. PICK n \in Nat : n = Len(emitted[s])
  BY <1>1, LenProperties
<1>5. /\ Append(emitted[s], t) \in Seq(1 .. MaxNow) /\ Len(Append(emitted[s], t)) = n + 1
      /\ \A k \in 1 .. n : Append(emitted[s], t)[k] = emitted[s][k]
      /\ Append(emitted[s], t)[n + 1] = t
  <2>1. emitted[s] \in Seq(1 .. MaxNow)
    BY <1>1
  <2> QED
    BY <1>4, <2>1, PushSeq
<1>6. PICK e \in Seq(1 .. MaxNow) : e = Append(emitted[s], t)
  BY <1>5
<1>7. emitted' \in [Names -> Seq(1 .. MaxNow)] /\ emitted'[s] = e
      /\ \A z \in Names \ {s} : emitted'[z] = emitted[z]
  BY <1>1, <1>2, <1>6
<1>8. t >= FromTime
  <2>1. CASE lastEmitted[s] = 0
    BY <2>1 DEF Recent, Early
  <2>2. CASE lastEmitted[s] >= FromTime
    BY <1>1, <1>2, <2>2
  <2> QED
    BY <2>1, <2>2 DEF PlanRight
<1>9. /\ Len(e) = n + 1 /\ e[n + 1] = t
      /\ \A k \in 1 .. n : e[k] = emitted[s][k]
  BY <1>5, <1>6
<1>10. \A k \in 1 .. n : e[k] < e[k + 1]
  <2> SUFFICES ASSUME NEW k \in 1 .. n PROVE e[k] < e[k + 1]
    OBVIOUS
  <2>1. CASE k = n
    <3>1. emitted[s] # << >>
      BY <1>4, <2>1, EmptySeq
    <3>2. lastEmitted[s] = emitted[s][n]
      BY <1>4, <3>1 DEF EmittedRight
    <3> QED
      BY <1>2, <1>9, <2>1, <3>2
  <2>2. CASE k # n
    <3>1. k \in 1 .. n - 1 /\ k + 1 \in 1 .. n
      BY <2>2
    <3>2. emitted[s][k] < emitted[s][k + 1]
      BY <1>4, <3>1 DEF EmittedRight, BarsInOrder
    <3> QED
      BY <1>9, <3>1, <3>2
  <2> QED
    BY <2>1, <2>2
<1>11. BarsInOrder'
  <2> SUFFICES ASSUME NEW z \in Names, NEW k \in 1 .. (Len(emitted'[z]) - 1)
               PROVE  emitted'[z][k] < emitted'[z][k + 1]
    BY DEF BarsInOrder
  <2>1. CASE z = s
    BY <1>7, <1>9, <1>10, <2>1
  <2>2. CASE z # s
    <3>1. z \in Names \ {s}
      BY <2>2
    <3>2. emitted'[z] = emitted[z]
      BY <1>7, <3>1
    <3> QED
      BY <3>2 DEF EmittedRight, BarsInOrder
  <2> QED
    BY <2>1, <2>2
<1>12. ASSUME NEW z \in Names
       PROVE  lastEmitted'[z] = IF emitted'[z] = << >> THEN 0 ELSE emitted'[z][Len(emitted'[z])]
  <2>1. CASE z = s
    <3>1. e # << >>
      BY <1>9
    <3> QED
      BY <1>3, <1>7, <1>9, <2>1, <3>1
  <2>2. CASE z # s
    <3>1. z \in Names \ {s}
      BY <2>2
    <3>2. emitted'[z] = emitted[z] /\ lastEmitted'[z] = lastEmitted[z]
      BY <1>3, <1>7, <3>1
    <3> QED
      BY <3>2 DEF EmittedRight
  <2> QED
    BY <2>1, <2>2
<1>13. EmittedRight'
  BY <1>11, <1>12 DEF EmittedRight
<1> QED
  BY <1>2, <1>3, <1>6, <1>7, <1>8, <1>13

(* The steps that move no bar.                                             *)
OtherStep == FinishBar \/ GoLive \/ Ticker \/ Stop \/ Authorize \/ Unauthorize

LEMMA OtherFacts ==
  ASSUME TypeOK, OtherStep
  PROVE  /\ UNCHANGED <<raw, wallclocks, router, bars, pending, lastEmitted, emitted,
                        liveSymbols, events, current, synced, losses>>
         /\ phase' \in Phases /\ health' \in HealthStates /\ task' \in TaskStates
         /\ resync' \in BOOLEAN /\ ticker' \in {"idle", "resubscribe", "stopped"}
<1> USE DEF shared, queues, barVars, tick, hubVars
<1>0. /\ phase \in Phases /\ health \in HealthStates /\ task \in TaskStates /\ resync \in BOOLEAN
      /\ ticker \in {"idle", "resubscribe", "stopped"}
  BY SessionFacts
<1>1. CASE FinishBar
  <2>1. task' \in TaskStates
    <3>1. Waiting \in TaskStates
      BY DEF Waiting, TaskStates
    <3>2. [task EXCEPT !.pc = "flush"] \in TaskStates
      BY <1>0 DEF TaskStates
    <3>3. task' = Waiting \/ task' = [task EXCEPT !.pc = "flush"]
      BY <1>1 DEF FinishBar
    <3> QED
      BY ONLY <3>1, <3>2, <3>3
  <2>2. phase' \in Phases /\ resync' \in BOOLEAN
    BY <1>0, <1>1 DEF FinishBar, Phases
  <2> QED
    BY <1>0, <1>1, <2>1, <2>2 DEF FinishBar
<1>2. CASE GoLive
  BY <1>0, <1>2 DEF GoLive, TaskStates, Waiting, Phases
<1>3. CASE Silence
  <2>1. phase' \in Phases
    BY <1>3 DEF Silence, Phases
  <2> QED
    BY <1>0, <1>3, <2>1 DEF Silence
<1>4. CASE AskResubscribe
  BY <1>0, <1>4 DEF AskResubscribe
<1>5. ASSUME NEW fresh \in BOOLEAN, Tick(fresh)
      PROVE  health' \in HealthStates
  <2>1. PICK b \in BOOLEAN :
          b = (/\ phase = "LiveReady" /\ health.connected /\ ~health.lagged /\ fresh
               /\ health.active >= health.desired /\ health.authorized)
    BY Zenon
  <2>2. health' = [health EXCEPT !.ready = b]
    BY <1>5, <2>1 DEF Tick
  <2> QED
    BY <1>0, <2>2 DEF HealthStates
<1>6. CASE \E fresh \in BOOLEAN : Tick(fresh)
  BY <1>0, <1>5, <1>6 DEF Tick
<1>7. CASE Stop
  BY <1>0, <1>7 DEF Stop
<1>8. CASE Authorize \/ Unauthorize
  <2>1. health' \in HealthStates
    BY <1>0, <1>8 DEF Authorize, Unauthorize, HealthStates
  <2> QED
    BY <1>0, <1>8, <2>1 DEF Authorize, Unauthorize
<1> QED
  BY <1>1, <1>2, <1>3, <1>4, <1>6, <1>7, <1>8 DEF OtherStep, Ticker

FlushSome == \E s \in Names : \E t \in pending[s] : FlushBar(s, t)

LEMMA SessionSteps ==
  SessionSide <=> \/ EventTask \/ RouterCommand \/ RouteAuthError \/ RouteBar
                  \/ TakeBar \/ FlushSome \/ OtherStep
  BY DEF SessionSide, RouterTask, BarTask, OtherStep, FlushSome

(* The bar that is taken or flushed, and what is left of the buffer.       *)
LEMMA TakenBar ==
  ASSUME TypeOK, BarsRecent, TakeBar \/ FlushSome
  PROVE  \E s \in Names, t \in 1 .. MaxNow :
           /\ Recent(t)
           /\ Emits(s, t) \/ UNCHANGED <<lastEmitted, emitted>>
           /\ pending' \in [Names -> SUBSET (1 .. MaxNow)]
           /\ \A z \in Names : pending'[z] \subseteq pending[z] \cup {t}
           /\ \A z \in Names \ {s} : pending'[z] = pending[z]
<1>0. pending \in [Names -> SUBSET (1 .. MaxNow)]
  BY SessionFacts
<1>1. CASE TakeBar
  <2>1. PICK s \in Names, t \in 1 .. MaxNow :
          /\ bars # << >> /\ bars[1].sym = s /\ bars[1].t = t
          /\ TakeBuffers(s, t) \/ TakeEmits(s, t) \/ TakeDrops(s, t)
    BY <1>1, TakeBarFacts
  <2>2. 1 \in 1 .. Len(bars)
    BY <1>1, TakeBarFacts
  <2>3. Recent(t)
    BY <2>1, <2>2 DEF BarsRecent
  <2>4. Emits(s, t) \/ UNCHANGED <<lastEmitted, emitted>>
    BY <2>1 DEF TakeBuffers, TakeEmits, TakeDrops, Drops
  <2>5. pending' = pending \/ pending' = [pending EXCEPT ![s] = @ \cup {t}]
    BY <2>1 DEF TakeBuffers, TakeEmits, TakeDrops
  <2>6. /\ pending' \in [Names -> SUBSET (1 .. MaxNow)]
        /\ \A z \in Names : pending'[z] \subseteq pending[z] \cup {t}
        /\ \A z \in Names \ {s} : pending'[z] = pending[z]
    BY <1>0, <2>5
  <2> QED
    BY <2>3, <2>4, <2>6
<1>2. CASE FlushSome
  <2>0. PICK s \in Names : \E t \in pending[s] : FlushBar(s, t)
    BY <1>2 DEF FlushSome
  <2>1. PICK t \in pending[s] : FlushBar(s, t)
    BY <2>0
  <2>2. /\ t \in 1 .. MaxNow /\ pending' = [pending EXCEPT ![s] = @ \ {t}]
        /\ Emits(s, t) \/ UNCHANGED <<lastEmitted, emitted>>
    BY <2>1, FlushBarFacts DEF Drops
  <2>3. Recent(t)
    BY <2>1 DEF BarsRecent
  <2>4. /\ pending' \in [Names -> SUBSET (1 .. MaxNow)]
        /\ \A z \in Names : pending'[z] \subseteq pending[z] \cup {t}
        /\ \A z \in Names \ {s} : pending'[z] = pending[z]
    BY <1>0, <2>2
  <2> QED
    BY <2>2, <2>3, <2>4
<1> QED
  BY <1>1, <1>2

LEMMA RouterTypes ==
  ASSUME TypeOK, RouterCommand \/ RouteAuthError \/ RouteBar
  PROVE  /\ raw' \in Seq(RawEntries) /\ Len(raw') <= RawRoom /\ wallclocks' \in Seq(Wallclocks)
         /\ router' \in Routers /\ bars' \in Seq(BarEvents) /\ Len(bars') <= BarRoom
         /\ UNCHANGED <<barVars, tick, shared, health>>
<1>0. /\ raw \in Seq(RawEntries) /\ Len(raw) <= RawRoom /\ wallclocks \in Seq(Wallclocks)
      /\ router \in Routers /\ bars \in Seq(BarEvents) /\ Len(bars) <= BarRoom
  BY SessionFacts
<1>1. CASE RouterCommand
  <2>1. PICK c \in Wallclocks : c = Head(wallclocks)
    BY <1>0, <1>1, PopSeq DEF RouterCommand
  <2>2. Tail(wallclocks) \in Seq(Wallclocks)
    BY <1>0, <1>1, PopSeq DEF RouterCommand
  <2>3. c.wallclock - 2 \in Int /\ c.origin \in Origins
    BY Constants DEF Wallclocks
  <2>4. router' = [router EXCEPT !.cut = TRUE, !.cutoff = c.wallclock - 2, !.origin = c.origin]
    BY <1>1, <2>1 DEF RouterCommand
  <2>5. router' \in Routers
    BY <1>0, <2>3, <2>4 DEF Routers
  <2> QED
    BY <1>0, <1>1, <2>2, <2>5 DEF RouterCommand
<1>2. CASE RouteAuthError
  BY <1>0, <1>2, RawHead DEF RouteAuthError
<1>3. CASE RouteBar
  <2>1. PICK s \in Names, t \in 1 .. MaxNow, w \in 0 .. MaxNow :
          Routes(s, t, w) /\ (PassesHistory(s, t) \/ PassesHeld(s, t) \/ PassesNothing(s, t))
    BY <1>3, RouteBarFacts
  <2>2. router' \in Routers /\ raw' \in Seq(RawEntries) /\ Len(raw') <= RawRoom
    BY <2>1, RawHead DEF Routes
  <2>3. bars' = bars \/ \E e \in BarEvents : bars' = Append(bars, e)
    BY <2>1 DEF PassesHistory, PassesHeld, PassesNothing, PassesOn
  <2>4. bars' \in Seq(BarEvents) /\ Len(bars') <= BarRoom
    <3>1. ASSUME NEW e \in BarEvents, bars' = Append(bars, e)
          PROVE  bars' \in Seq(BarEvents) /\ Len(bars') <= BarRoom
      <4>1. Len(bars) \in Nat /\ bars' \in Seq(BarEvents) /\ Len(bars') = Len(bars) + 1
        BY <1>0, <3>1, PushSeq
      <4>2. Len(bars) < BarRoom
        BY <1>3 DEF RouteBar
      <4> QED
        BY <4>1, <4>2, Constants
    <3> QED
      BY <1>0, <2>3, <3>1
  <2> QED
    BY <1>0, <1>3, <2>2, <2>4 DEF RouteBar
<1> QED
  BY <1>1, <1>2, <1>3

LEMMA SessionTypes ==
  ASSUME IInv, SessionSide
  PROVE  TypeOK'
<1>0. TypeOK /\ BarsRecent /\ PlanRight /\ EmittedRight
  BY DEF IInv
<1>1. HubTypeOK' /\ current' \in 0 .. hub'.gen
  <2>1. HubTypeOK' /\ GenerationsRight' /\ current' \in Nat
    BY SessionHubTypes DEF IInv
  <2>2. hub'.gen \in Nat
    BY <2>1 DEF HubTypeOK, Hubs
  <2> QED
    BY <2>1, <2>2 DEF GenerationsRight
<1>2. /\ phase \in Phases /\ synced \subseteq SyncFeeds
      /\ health \in HealthStates
      /\ raw \in Seq(RawEntries) /\ Len(raw) <= RawRoom
      /\ bars \in Seq(BarEvents) /\ Len(bars) <= BarRoom
      /\ wallclocks \in Seq(Wallclocks) /\ router \in Routers
      /\ task \in TaskStates
      /\ pending \in [Names -> SUBSET (1 .. MaxNow)] /\ emitted \in [Names -> Seq(1 .. MaxNow)]
      /\ lastEmitted \in [Names -> 0 .. MaxNow] /\ liveSymbols \subseteq Names
      /\ resync \in BOOLEAN /\ ticker \in {"idle", "resubscribe", "stopped"}
  BY <1>0, SessionFacts
<1>3. CASE EventTask
  BY <1>0, <1>1, <1>2, <1>3, EventTaskTypes
     DEF TypeOK, HealthStates, RawEntries, TaskStates, barVars, tick
<1>4. CASE RouterCommand \/ RouteAuthError \/ RouteBar
  BY <1>0, <1>1, <1>2, <1>4, RouterTypes
     DEF TypeOK, HealthStates, RawEntries, TaskStates, barVars, tick, shared
<1>5. CASE TakeBar \/ FlushSome
  <2>1. PICK s \in Names, t \in 1 .. MaxNow :
          /\ Recent(t)
          /\ Emits(s, t) \/ UNCHANGED <<lastEmitted, emitted>>
          /\ pending' \in [Names -> SUBSET (1 .. MaxNow)]
    BY <1>0, <1>5, TakenBar
  <2>2. lastEmitted' \in [Names -> 0 .. MaxNow] /\ emitted' \in [Names -> Seq(1 .. MaxNow)]
    BY <1>0, <1>2, <2>1, EmitFacts
  <2>3. /\ bars' \in Seq(BarEvents) /\ Len(bars') <= BarRoom
        /\ task' \in TaskStates /\ liveSymbols' \subseteq Names
    BY <1>0, <1>2, <1>5, TakeBarFacts, FlushBarFacts DEF FlushSome
  <2>4. UNCHANGED <<phase, synced, health, raw, wallclocks, router, resync, ticker>>
    BY <1>5 DEF TakeBar, FlushSome, FlushBar, shared, queues, tick
  <2> QED
    BY <1>1, <1>2, <2>1, <2>2, <2>3, <2>4 DEF TypeOK, HealthStates, RawEntries, TaskStates
<1>6. CASE OtherStep
  BY <1>0, <1>1, <1>2, <1>6, OtherFacts DEF TypeOK, HealthStates, RawEntries, TaskStates
<1> QED
  BY <1>3, <1>4, <1>5, <1>6, SessionSteps

(* A bar that is emitted leaves what a plan may ask for.                   *)
LEMMA SessionBars ==
  ASSUME IInv, SessionSide
  PROVE  /\ EmittedRight'
         /\ \A s \in Names : lastEmitted'[s] = 0 \/ lastEmitted'[s] >= FromTime
         /\ \A from \in 0 .. MaxNow : Fits(from) => Fits(from)'
         /\ \A x : Recent(x) => Recent(x)'
<1>0. TypeOK /\ BarsRecent /\ PlanRight /\ EmittedRight
  BY DEF IInv
<1>1. CASE UNCHANGED <<lastEmitted, emitted>>
  BY <1>0, <1>1 DEF EmittedRight, BarsInOrder, PlanRight, Fits, Recent, Early
<1>2. ASSUME NEW s \in Names, NEW t \in 1 .. MaxNow, Recent(t), Emits(s, t)
      PROVE  /\ EmittedRight'
             /\ \A z \in Names : lastEmitted'[z] = 0 \/ lastEmitted'[z] >= FromTime
             /\ \A from \in 0 .. MaxNow : Fits(from) => Fits(from)'
             /\ \A x : Recent(x) => Recent(x)'
  <2>1. /\ lastEmitted'[s] = t /\ \A z \in Names \ {s} : lastEmitted'[z] = lastEmitted[z]
        /\ t >= FromTime /\ t > lastEmitted[s] /\ EmittedRight'
    BY <1>0, <1>2, EmitFacts
  <2>2. lastEmitted \in [Names -> 0 .. MaxNow]
    BY <1>0, SessionFacts
  <2>3. \A z \in Names : lastEmitted'[z] = 0 \/ lastEmitted'[z] >= FromTime
    <3> SUFFICES ASSUME NEW z \in Names PROVE lastEmitted'[z] = 0 \/ lastEmitted'[z] >= FromTime
      OBVIOUS
    <3>1. CASE z = s
      BY <2>1, <3>1
    <3>2. CASE z # s
      BY <1>0, <2>1, <3>2 DEF PlanRight
    <3> QED
      BY <3>1, <3>2
  <2>4. ASSUME NEW from \in 0 .. MaxNow, Fits(from) PROVE Fits(from)'
    <3> SUFFICES ASSUME from # 0, NEW z \in Names
                 PROVE  lastEmitted'[z] # 0 /\ from <= lastEmitted'[z]
      BY DEF Fits
    <3>1. lastEmitted[z] # 0 /\ from <= lastEmitted[z] /\ lastEmitted[z] \in 0 .. MaxNow
      BY <2>2, <2>4 DEF Fits
    <3>2. CASE z = s
      BY <2>1, <3>1, <3>2, Constants
    <3>3. CASE z # s
      BY <2>1, <3>1, <3>3
    <3> QED
      BY <3>2, <3>3
  <2>5. Early' => Early
    <3> SUFFICES ASSUME NEW z \in Names, lastEmitted'[z] = 0 PROVE Early
      BY DEF Early
    <3>1. z # s
      BY <2>1
    <3>2. lastEmitted[z] = 0
      BY <2>1, <3>1
    <3> QED
      BY <3>2 DEF Early
  <2>6. \A x : Recent(x) => Recent(x)'
    BY <2>5 DEF Recent
  <2> QED
    BY <2>1, <2>3, <2>4, <2>6
<1>3. CASE EventTask \/ RouterCommand \/ RouteAuthError \/ RouteBar
  <2>1. UNCHANGED <<lastEmitted, emitted>>
    BY <1>0, <1>3, EventTaskTypes, RouterTypes DEF barVars
  <2> QED
    BY <1>1, <2>1
<1>4. CASE TakeBar \/ FlushSome
  <2>1. PICK s \in Names, t \in 1 .. MaxNow :
          Recent(t) /\ (Emits(s, t) \/ UNCHANGED <<lastEmitted, emitted>>)
    BY <1>0, <1>4, TakenBar
  <2> QED
    BY <1>1, <1>2, <2>1
<1>5. CASE OtherStep
  BY <1>0, <1>1, <1>5, OtherFacts
<1> QED
  BY <1>3, <1>4, <1>5, SessionSteps

FitsNext(from) == from # 0 => \A s \in Names : lastEmitted'[s] # 0 /\ from <= lastEmitted'[s]
LEMMA SessionPlan ==
  ASSUME IInv, SessionSide
  PROVE  PlanRight'
<1>0. TypeOK /\ GuidsRight /\ PlanRight
  BY DEF IInv
<1>1. UNCHANGED <<hub, wire, streams, asked, now>>
  BY SessionFrame
<1>2. /\ \A s \in Names : lastEmitted'[s] = 0 \/ lastEmitted'[s] >= FromTime
      /\ \A from \in 0 .. MaxNow : Fits(from) => FitsNext(from)
  BY SessionBars DEF Fits, FitsNext
<1>3. FitsNext(plan'.from)
  <2>1. plan' \in Plans /\ (plan' = plan \/ Fits(plan'.from))
    BY <1>0, SessionHub
  <2>2. plan'.from \in 0 .. MaxNow
    BY <2>1 DEF Plans
  <2>3. Fits(plan'.from)
    BY <1>0, <2>1 DEF PlanRight
  <2> QED
    BY <1>2, <2>2, <2>3
<1>4. \A k \in 1 .. Len(cmds') : cmds'[k].from \in 0 .. MaxNow /\ Fits(cmds'[k].from)
  <2>0. cmds \in Seq(Commands) /\ \A c \in Commands : c.from \in 0 .. MaxNow
    BY <1>0, HubFacts DEF Commands
  <2>1. CASE cmds' = cmds
    BY <1>0, <2>0, <2>1 DEF PlanRight
  <2>2. ASSUME NEW c \in Commands, Fits(c.from), cmds' = Append(cmds, c)
        PROVE  \A k \in 1 .. Len(cmds') : cmds'[k].from \in 0 .. MaxNow /\ Fits(cmds'[k].from)
    <3>1. /\ Len(cmds) \in Nat /\ Len(cmds') = Len(cmds) + 1 /\ cmds'[Len(cmds) + 1] = c
          /\ \A k \in 1 .. Len(cmds) : cmds'[k] = cmds[k] /\ cmds[k] \in Commands
      BY <2>0, <2>2, PushSeq
    <3>2. \A k \in 1 .. Len(cmds') : k = Len(cmds) + 1 \/ k \in 1 .. Len(cmds)
      BY <3>1
    <3> QED
      BY <1>0, <2>0, <2>2, <3>1, <3>2 DEF PlanRight
  <2> QED
    BY <1>0, <2>1, <2>2, SessionHub
<1>5. \A k \in 1 .. Len(cmds') : FitsNext(cmds'[k].from)
  BY <1>2, <1>4
<1>6. hub'.from \in {0, FromTime} \/ FitsNext(hub'.from)
  <2>1. hub.from \in 0 .. MaxNow
    BY <1>0, HubFacts
  <2> QED
    BY <1>0, <1>1, <1>2, <2>1 DEF PlanRight
<1>7. /\ hub'.skip => SkipHistory
      /\ hub'.from = 0 => asked' = << >> /\ hub'.pc \notin {"send", "ack", "run"}
      /\ now' >= FromTime
  BY <1>0, <1>1 DEF PlanRight
<1> QED
  BY <1>2, <1>3, <1>5, <1>6, <1>7 DEF PlanRight, Fits, FitsNext

LEMMA SessionRecent ==
  ASSUME IInv, SessionSide
  PROVE  BarsRecent'
<1>0. TypeOK /\ BarsRecent
  BY DEF IInv
<1>1. UNCHANGED <<hub, wire, streams, asked, now>>
  BY SessionFrame
<1>2. \A x : Recent(x) => Recent(x)'
  BY SessionBars
<1>3. \A k \in 1 .. Len(wire') : wire'[k].what = "bar" => Recent(wire'[k].t)
  BY <1>0, <1>1 DEF BarsRecent
<1>4. \A k \in 1 .. Len(events') :
        events'[k].kind = "raw" => (events'[k].msg.what = "bar" => Recent(events'[k].msg.t))
  <2>1. CASE events' = events
    BY <1>0, <2>1 DEF BarsRecent
  <2>2. CASE events # << >> /\ events' = Tail(events)
    <3>1. /\ Len(events) \in Nat /\ Len(events') = Len(events) - 1
          /\ \A k \in 1 .. Len(events) - 1 : events'[k] = events[k + 1] /\ k + 1 \in 1 .. Len(events)
      BY <1>0, <2>2, HubFacts, PopSeq
    <3> QED
      BY <1>0, <3>1 DEF BarsRecent
  <2> QED
    BY <1>0, <2>1, <2>2, SessionHub DEF IInv
<1>5. \A k \in 1 .. Len(raw') : raw'[k].msg.what = "bar" => Recent(raw'[k].msg.t)
  <2>1. CASE raw' = raw
    BY <1>0, <2>1 DEF BarsRecent
  <2>2. CASE raw # << >> /\ raw' = Tail(raw)
    <3>1. /\ Len(raw) \in Nat /\ Len(raw') = Len(raw) - 1
          /\ \A k \in 1 .. Len(raw) - 1 : raw'[k] = raw[k + 1] /\ k + 1 \in 1 .. Len(raw)
      BY <1>0, <2>2, RawHead
    <3> QED
      BY <1>0, <3>1 DEF BarsRecent
  <2>3. CASE OnRaw
    <3>1. /\ events # << >> /\ Head(events) = events[1] /\ events[1] \in Events
          /\ events[1].kind = "raw" /\ 1 \in 1 .. Len(events)
      <4>1. events # << >> /\ Head(events).kind = "raw"
        BY <2>3 DEF OnRaw, Take
      <4> QED
        BY <1>0, <4>1, HubFacts, PopSeq
    <3>2. PICK r \in RawEntries : r = [msg |-> events[1].msg, wallclock |-> events[1].wallclock]
      BY <3>1, EventFacts DEF RawEntries
    <3>3. raw' = raw \/ raw' = Append(raw, r)
      BY <2>3, <3>1, <3>2 DEF OnRaw
    <3>4. r.msg.what = "bar" => Recent(r.msg.t)
      BY <1>0, <3>1, <3>2 DEF BarsRecent
    <3>5. CASE raw' = Append(raw, r)
      <4>1. /\ Len(raw) \in Nat /\ Len(raw') = Len(raw) + 1 /\ raw'[Len(raw) + 1] = r
            /\ \A k \in 1 .. Len(raw) : raw'[k] = raw[k]
        BY <1>0, <3>5, SessionFacts, PushSeq
      <4>2. \A k \in 1 .. Len(raw') : k = Len(raw) + 1 \/ k \in 1 .. Len(raw)
        BY <4>1
      <4> QED
        BY <1>0, <3>4, <4>1, <4>2 DEF BarsRecent
    <3> QED
      BY <2>1, <3>3, <3>5
  <2>4. raw' = raw \/ (raw # << >> /\ raw' = Tail(raw)) \/ OnRaw
    BY <1>0, OtherFacts, SessionSteps
       DEF EventTask, OnReconnecting, OnConn, OnSubscribed, OnAck, OnStats,
           RouterCommand, RouteAuthError, RouteBar, TakeBar, FlushSome, FlushBar, queues
  <2> QED
    BY <2>1, <2>2, <2>3, <2>4
<1>6. /\ \A k \in 1 .. Len(bars') : Recent(bars'[k].t)
      /\ \A s \in Names : router'.held[s] # 0 => Recent(router'.held[s])
  <2>0. bars \in Seq(BarEvents)
    BY <1>0, SessionFacts
  <2>1. CASE UNCHANGED <<bars, router>>
    BY <1>0, <2>1 DEF BarsRecent
  <2>2. CASE RouterCommand
    <3>1. bars' = bars /\ router'.held = router.held
      BY <1>0, <2>2, SessionFacts DEF RouterCommand, Routers
    <3> QED
      BY <1>0, <3>1 DEF BarsRecent
  <2>3. CASE RouteBar
    <3>1. PICK s \in Names, t \in 1 .. MaxNow, w \in 0 .. MaxNow :
            Routes(s, t, w) /\ (PassesHistory(s, t) \/ PassesHeld(s, t) \/ PassesNothing(s, t))
      BY <1>0, <2>3, RouteBarFacts
    <3>2. Recent(t)
      <4>1. raw[1].msg.what = "bar" /\ raw[1].msg.t = t /\ raw # << >>
        BY <3>1 DEF Routes, RawBar, IsBar
      <4>2. 1 \in 1 .. Len(raw)
        BY <1>0, <4>1, RawHead
      <4> QED
        BY <1>0, <4>1, <4>2 DEF BarsRecent
    <3>3. /\ \A z \in Names \ {s} : router'.held[z] = router.held[z]
          /\ router'.held[s] = t \/ router'.held[s] = router.held[s]
      BY <3>1 DEF Routes, PassesHistory, PassesHeld, PassesNothing
    <3>4. \A z \in Names : router'.held[z] # 0 => Recent(router'.held[z])
      BY <1>0, <3>2, <3>3 DEF BarsRecent
    <3>5. bars' = bars \/ \E e \in BarEvents : Recent(e.t) /\ bars' = Append(bars, e)
      <4>1. CASE PassesHistory(s, t)
        BY <3>2, <4>1 DEF PassesHistory, PassesOn
      <4>2. CASE PassesHeld(s, t)
        <5>1. Recent(router.held[s])
          BY <1>0, <4>2 DEF PassesHeld, BarsRecent
        <5> QED
          BY <4>2, <5>1 DEF PassesHeld, PassesOn
      <4>3. CASE PassesNothing(s, t)
        BY <4>3 DEF PassesNothing
      <4> QED
        BY <3>1, <4>1, <4>2, <4>3
    <3>6. ASSUME NEW e \in BarEvents, Recent(e.t), bars' = Append(bars, e)
          PROVE  \A k \in 1 .. Len(bars') : Recent(bars'[k].t)
      <4>1. /\ Len(bars) \in Nat /\ Len(bars') = Len(bars) + 1 /\ bars'[Len(bars) + 1] = e
            /\ \A k \in 1 .. Len(bars) : bars'[k] = bars[k]
        BY <2>0, <3>6, PushSeq
      <4>2. \A k \in 1 .. Len(bars') : k = Len(bars) + 1 \/ k \in 1 .. Len(bars)
        BY <4>1
      <4> QED
        BY <1>0, <3>6, <4>1, <4>2 DEF BarsRecent
    <3>7. \A k \in 1 .. Len(bars') : Recent(bars'[k].t)
      BY <1>0, <3>5, <3>6 DEF BarsRecent
    <3> QED
      BY <3>4, <3>7
  <2>4. CASE TakeBar
    <3>1. /\ Len(bars) \in Nat /\ Len(bars') = Len(bars) - 1
          /\ \A k \in 1 .. Len(bars) - 1 : bars'[k] = bars[k + 1] /\ k + 1 \in 1 .. Len(bars)
      BY <1>0, <2>4, TakeBarFacts
    <3>2. router' = router
      BY <2>4 DEF TakeBar
    <3> QED
      BY <1>0, <3>1, <3>2 DEF BarsRecent
  <2>5. UNCHANGED <<bars, router>> \/ RouterCommand \/ RouteBar \/ TakeBar
    BY <1>0, EventTaskTypes, OtherFacts, SessionSteps
       DEF RouteAuthError, FlushSome, FlushBar, queues
  <2> QED
    BY <2>1, <2>2, <2>3, <2>4, <2>5
<1>7. \A s \in Names : \A u \in pending'[s] : Recent(u)
  <2>1. CASE pending' = pending
    BY <1>0, <2>1 DEF BarsRecent
  <2>2. CASE TakeBar \/ FlushSome
    <3>1. PICK t \in 1 .. MaxNow :
            Recent(t) /\ \A z \in Names : pending'[z] \subseteq pending[z] \cup {t}
      BY <1>0, <2>2, TakenBar
    <3> QED
      BY <1>0, <3>1 DEF BarsRecent
  <2>3. CASE EventTask \/ RouterCommand \/ RouteAuthError \/ RouteBar
    BY <1>0, <2>1, <2>3, EventTaskTypes, RouterTypes DEF barVars
  <2>4. CASE OtherStep
    BY <1>0, <2>1, <2>4, OtherFacts
  <2> QED
    BY <2>2, <2>3, <2>4, SessionSteps
<1> QED
  BY <1>2, <1>3, <1>4, <1>5, <1>6, <1>7 DEF BarsRecent

-----------------------------------------------------------------------------
(* The invariant.                                                          *)

LEMMA InvInit ==
  ASSUME Init
  PROVE  IInv
<1> USE DEF Init, HubInit, SessionInit
<1>1. HubTypeOK
  <2>1. hub \in Hubs
    <3>1. 0 \in 0 .. (AckRetries - 1) /\ 0 \in 0 .. Len(Feeds) /\ 0 \in 0 .. MaxNow
      BY Constants, FeedFacts
    <3> QED
      BY <3>1 DEF Idle, Hubs, Stages
  <2>2. plan \in Plans
    BY Constants DEF Cold, Plans
  <2>3. /\ cmds \in Seq(Commands) /\ events \in Seq(Events) /\ wire \in Seq(Messages)
        /\ asked \in Seq(Guids) /\ Len(events) = 0 /\ Len(asked) = 0
    BY EmptySeq
  <2>4. hub.desired \cup hub.active \cup streams \subseteq (1 .. Len(Feeds)) \X (1 .. hub.n)
    BY DEF Idle
  <2>5. now \in 1 .. MaxNow /\ faults \in 0 .. MaxFaults
    BY Constants
  <2> QED
    BY <2>1, <2>2, <2>3, <2>4, <2>5, Constants DEF HubTypeOK
<1>2. TypeOK
  <2>1. current \in 0 .. hub.gen /\ phase \in Phases /\ synced \subseteq SyncFeeds
    BY DEF Idle, Phases
  <2>2. health \in HealthStates
    BY FeedFacts DEF HealthStates
  <2>3. /\ raw \in Seq(RawEntries) /\ bars \in Seq(BarEvents) /\ wallclocks \in Seq(Wallclocks)
        /\ Len(raw) = 0 /\ Len(bars) = 0
    BY EmptySeq
  <2>4. router \in Routers
    BY Constants DEF Routers, Origins
  <2>5. task \in TaskStates /\ pending \in [Names -> SUBSET (1 .. MaxNow)]
    BY DEF Waiting, TaskStates
  <2>6. emitted \in [Names -> Seq(1 .. MaxNow)] /\ lastEmitted \in [Names -> 0 .. MaxNow]
    BY Constants, EmptySeq
  <2>7. liveSymbols \subseteq Names /\ resync \in BOOLEAN /\ ticker \in {"idle", "resubscribe", "stopped"}
    OBVIOUS
  <2> QED
    BY <1>1, <2>1, <2>2, <2>3, <2>4, <2>5, <2>6, <2>7, Constants
       DEF TypeOK, HealthStates, RawEntries, TaskStates
<1>3. Len(wire) = 0 /\ Len(asked) = 0 /\ Len(events) = 0 /\ Len(cmds) = 0 /\ Len(raw) = 0 /\ Len(bars) = 0
  BY EmptySeq
<1>4. GuidsRight
  BY <1>3 DEF GuidsRight, Idle
<1>5. GenerationsRight
  BY <1>3 DEF GenerationsRight, Idle
<1>6. PlanRight
  BY <1>3, Constants DEF PlanRight, Idle, Cold, Fits
<1>7. BarsRecent
  BY <1>3 DEF BarsRecent
<1>8. EmittedRight
  BY EmptySeq DEF EmittedRight, BarsInOrder
<1> QED
  BY <1>2, <1>4, <1>5, <1>6, <1>7, <1>8 DEF IInv

LEMMA InvHub ==
  ASSUME IInv, HubSide
  PROVE  IInv'
<1>1. TypeOK /\ GuidsRight /\ GenerationsRight /\ PlanRight /\ BarsRecent /\ EmittedRight
  BY DEF IInv
<1>2. HubTypeOK' /\ GuidsRight'
  BY <1>1, HubSteps
<1>3. GenerationsRight' /\ hub'.gen >= hub.gen
  BY <1>1, HubGenerations
<1>4. TypeOK'
  BY <1>1, <1>2, <1>3, HubTypes
<1>5. PlanRight' /\ BarsRecent'
  BY <1>1, HubPlan, HubRecent
<1>6. EmittedRight'
  BY <1>1 DEF EmittedRight, BarsInOrder, HubSide, sessionVars, barVars
<1> QED
  BY <1>2, <1>3, <1>4, <1>5, <1>6 DEF IInv

LEMMA InvSession ==
  ASSUME IInv, SessionSide
  PROVE  IInv'
<1>1. TypeOK /\ GuidsRight /\ GenerationsRight /\ PlanRight
  BY DEF IInv
<1>2. GuidsRight' /\ GenerationsRight'
  BY <1>1, SessionHubTypes
<1> QED
  BY <1>2, SessionTypes, SessionPlan, SessionRecent, SessionBars DEF IInv

LEMMA InvNext ==
  ASSUME IInv, [Next]_vars
  PROVE  IInv'
<1>1. Next => HubSide \/ SessionSide
  BY DEF Next, HubSide, SessionSide
<1>2. CASE UNCHANGED vars
  <2> USE <1>2 DEF vars, hubVars, sessionVars, shared, queues, barVars, tick, IInv
  <2>1. TypeOK'
    BY DEF TypeOK, HubTypeOK
  <2>2. GuidsRight'
    BY DEF GuidsRight, Guid
  <2>3. GenerationsRight'
    BY DEF GenerationsRight
  <2>4. PlanRight'
    BY DEF PlanRight, Fits
  <2>5. BarsRecent'
    BY DEF BarsRecent, Recent, Early
  <2>6. EmittedRight'
    BY DEF EmittedRight, BarsInOrder
  <2> QED
    BY <2>1, <2>2, <2>3, <2>4, <2>5, <2>6
<1> QED
  BY <1>1, <1>2, InvHub, InvSession

(* The type invariant.                                                     *)
THEOREM SessionTypeOK == Spec => []TypeOK
<1>1. Init => IInv
  BY InvInit
<1>2. IInv /\ [Next]_vars => IInv'
  BY InvNext
<1>3. IInv => TypeOK
  BY DEF IInv
<1> QED
  BY <1>1, <1>2, <1>3, PTL DEF Spec

(* The history of a connection reaches back to the last bar emitted.       *)
THEOREM SessionHistoryReachesBack == Spec => []HistoryReachesBack
<1>1. Init => IInv
  BY InvInit
<1>2. IInv /\ [Next]_vars => IInv'
  BY InvNext
<1>3. IInv => HistoryReachesBack
  <2> SUFFICES ASSUME IInv, hub.pc \in {"send", "ack"}, NEW s \in Names, lastEmitted[s] # 0
               PROVE  hub.from <= lastEmitted[s] + 1
    BY DEF HistoryReachesBack
  <2>1. TypeOK /\ PlanRight
    BY DEF IInv
  <2>2. lastEmitted[s] \in 0 .. MaxNow /\ lastEmitted[s] >= FromTime
    BY <2>1, SessionFacts DEF PlanRight
  <2>3. hub.from \in 0 .. MaxNow /\ hub.from # 0
    BY <2>1, HubFacts DEF PlanRight
  <2>4. hub.from <= lastEmitted[s]
    BY <2>1, <2>2, <2>3 DEF PlanRight, Fits
  <2> QED
    BY <2>2, <2>3, <2>4, Constants
<1> QED
  BY <1>1, <1>2, <1>3, PTL DEF Spec

-----------------------------------------------------------------------------
(* No bar is missing: the steps of the hub and of the broker.              *)

LEMMA HubReady ==
  ASSUME HubSide
  PROVE  /\ \A s, t, w : Ready(s, t, w)' <=> Ready(s, t, w)
         /\ \A k, s, t, w : RawBar(k, s, t, w)' <=> RawBar(k, s, t, w)
         /\ raw' = raw
<1>1. UNCHANGED <<raw, bars, router, pending, lastEmitted>>
  BY DEF HubSide, sessionVars, queues, barVars
<1>2. \A s, t, w : Ready(s, t, w)' <=> Ready(s, t, w)
  BY <1>1 DEF Ready, Routed, Out, Passed, Base
<1>3. \A k, s, t, w : RawBar(k, s, t, w)' <=> RawBar(k, s, t, w)
  BY <1>1 DEF RawBar, IsBar
<1> QED
  BY <1>1, <1>2, <1>3

LEMMA EventsGrow ==
  ASSUME TypeOK, GuidsRight, PlanRight, HubSide
  PROVE  /\ Len(events) \in Nat /\ Len(events') \in Nat /\ Len(events') >= Len(events)
         /\ \A k \in 1 .. Len(events) : events'[k] = events[k]
<1>0. events \in Seq(Events) /\ Len(events) \in Nat
  BY HubFacts, LenProperties
<1>1. ASSUME NEW es, Reports(es)
      PROVE  /\ Len(events') \in Nat /\ Len(events') >= Len(events)
             /\ \A k \in 1 .. Len(events) : events'[k] = events[k]
  <2>1. es \in Seq(Events) /\ events' = events \o es
    BY <1>1 DEF Reports
  <2>2. Len(es) \in Nat /\ Len(events') = Len(events) + Len(es)
        /\ \A k \in 1 .. Len(events) : events'[k] = events[k]
    BY <1>0, <2>1, JoinSeq
  <2> QED
    BY <1>0, <2>2
<1>2. ASSUME NEW e \in Events, events' = Append(events, e)
      PROVE  /\ Len(events') \in Nat /\ Len(events') >= Len(events)
             /\ \A k \in 1 .. Len(events) : events'[k] = events[k]
  <2>1. Len(events') = Len(events) + 1 /\ \A k \in 1 .. Len(events) : events'[k] = events[k]
    BY <1>0, <1>2, PushSeq
  <2> QED
    BY <1>0, <2>1
<1>3. ASSUME wire # << >>, events' = Append(events, Raw(wire[1]))
      PROVE  \E e \in Events : events' = Append(events, e)
  <2>1. Raw(wire[1]) \in Events
    BY <1>3, PopWire, EventTypes
  <2> QED
    BY <1>3, <2>1
<1> QED
  BY <1>0, <1>1, <1>2, <1>3, HubSteps

(* What was behind a bar stays behind it.                                  *)
LEMMA HubBehind ==
  ASSUME TypeOK, GuidsRight, PlanRight, HubSide
  PROVE  /\ \A i \in 0 .. Len(events) : \A s, t, w : Behind(s, t, w, i) => Behind(s, t, w, i)'
         /\ \A s, t, w : Behind(s, t, w, Len(events)) => Behind(s, t, w, Len(events))'
<1>1. /\ Len(events) \in Nat /\ Len(events') \in Nat /\ Len(events') >= Len(events)
      /\ \A k \in 1 .. Len(events) : events'[k] = events[k]
  BY EventsGrow
<1>2. ASSUME NEW i \in 0 .. Len(events), NEW j \in Nat, i <= j, NEW s, NEW t, NEW w,
             Behind(s, t, w, i)
      PROVE  Behind(s, t, w, j)'
  <2>1. CASE Ready(s, t, w)
    BY <2>1, HubReady DEF Behind
  <2>2. CASE \E k \in 1 .. Len(raw) : RawBar(k, s, t - 1, w)
    BY <2>2, HubReady DEF Behind
  <2>3. CASE \E k \in 1 .. i : EventBar(k, s, t - 1, w)
    <3>1. PICK k \in 1 .. i : EventBar(k, s, t - 1, w)
      BY <2>3
    <3>2. k \in 1 .. Len(events) /\ k \in 1 .. j
      BY <1>1, <1>2
    <3>3. EventBar(k, s, t - 1, w)'
      BY <1>1, <3>1, <3>2 DEF EventBar, IsBar
    <3> QED
      BY <3>2, <3>3 DEF Behind
  <2> QED
    BY <1>2, <2>1, <2>2, <2>3 DEF Behind
<1>3. ASSUME NEW i \in 0 .. Len(events), NEW s, NEW t, NEW w, Behind(s, t, w, i)
      PROVE  Behind(s, t, w, i)'
  BY <1>2, <1>3
<1>4. ASSUME NEW s, NEW t, NEW w, Behind(s, t, w, Len(events))
      PROVE  Behind(s, t, w, Len(events))'
  <2>1. PICK n \in Nat : n = Len(events')
    BY <1>1
  <2>2. Behind(s, t, w, n)'
    BY <1>1, <1>2, <1>4, <2>1
  <2> QED
    BY <2>1, <2>2 DEF Behind
<1> QED
  BY <1>3, <1>4

LEMMA HubBehindNow ==
  ASSUME TypeOK, GuidsRight, PlanRight, HubSide, hub'.wallclock = hub.wallclock
  PROVE  \A s, t : Behind(s, t, hub.wallclock, Len(events)) =>
                     Behind(s, t, hub.wallclock, Len(events))'
<1>1. PICK w \in 0 .. MaxNow : w = hub.wallclock
  BY HubFacts
<1>2. \A s, t : Behind(s, t, w, Len(events)) => Behind(s, t, w, Len(events))'
  BY HubBehind
<1>3. ASSUME NEW s, NEW t, Behind(s, t, hub.wallclock, Len(events))
      PROVE  Behind(s, t, hub.wallclock, Len(events))'
  <2>1. Behind(s, t, w, Len(events))
    BY <1>1, <1>3
  <2>2. Behind(s, t, w, Len(events))'
    BY <1>2, <2>1
  <2>3. w = hub'.wallclock
    BY <1>1
  <2> QED
    BY <2>2, <2>3
<1> QED
  BY <1>3

(* Most of what was said does not look at the hub.                         *)
LEMMA HubGapRest ==
  ASSUME NoneMissing, HubSide
  PROVE  /\ PendingGapless' /\ BarsGapless' /\ HeldGapless' /\ RawGapless'
         /\ \A s \in Names : \A k \in 1 .. Len(emitted'[s]) : emitted'[s][k] = FromTime + k - 1
<1>1. UNCHANGED <<raw, bars, router, pending, lastEmitted, emitted>>
  BY DEF HubSide, sessionVars, queues, barVars
<1>2. PendingGapless'
  BY <1>1 DEF NoneMissing, PendingGapless, Base
<1>3. BarsGapless'
  BY <1>1 DEF NoneMissing, BarsGapless, Passed, Base
<1>4. HeldGapless'
  BY <1>1 DEF NoneMissing, HeldGapless, Out, Passed, Base
<1>5. RawGapless'
  <2>1. RawGapless
    BY DEF NoneMissing
  <2> SUFFICES ASSUME NEW k \in 1 .. Len(raw), NEW s \in Names, NEW t \in Times, NEW w \in Clocks,
                      RawBar(k, s, t, w)'
               PROVE  Ready(s, t, w)' \/ \E j \in 1 .. (k - 1) : RawBar(j, s, t - 1, w)'
    BY <1>1 DEF RawGapless
  <2>2. Ready(s, t, w) \/ \E j \in 1 .. (k - 1) : RawBar(j, s, t - 1, w)
    BY <2>1, HubReady DEF RawGapless
  <2> QED
    BY <2>2, HubReady
<1>6. \A s \in Names : \A k \in 1 .. Len(emitted'[s]) : emitted'[s][k] = FromTime + k - 1
  BY <1>1 DEF NoneMissing
<1> QED
  BY <1>2, <1>3, <1>4, <1>5, <1>6

(* A raw event is new only when the hub forwards the head of the wire.     *)
LEMMA HubEventsGapless ==
  ASSUME TypeOK, GuidsRight, PlanRight, HubSide, EventsGapless, WireGapless
  PROVE  EventsGapless'
<1> SUFFICES ASSUME NEW k \in 1 .. Len(events'), NEW s \in Names, NEW t \in Times, NEW w \in Clocks,
                    EventBar(k, s, t, w)'
             PROVE  Behind(s, t, w, k - 1)'
  BY DEF EventsGapless
<1>1. /\ events'[k].kind = "raw" /\ events'[k].wallclock = w
      /\ IsBar(events'[k].msg, s, t)
  BY DEF EventBar, IsBar
<1>2. Len(events) \in Nat
  BY HubFacts, LenProperties
<1>3. CASE k \in 1 .. Len(events) /\ events'[k] = events[k]
  <2>1. EventBar(k, s, t, w)
    BY <1>1, <1>3 DEF EventBar
  <2>2. Behind(s, t, w, k - 1) /\ k - 1 \in 0 .. Len(events)
    BY <1>2, <1>3, <2>1 DEF EventsGapless
  <2> QED
    BY <2>2, HubBehind
<1>4. CASE /\ k = Len(events) + 1 /\ ReadMessage /\ wire # << >> /\ hub' = hub
           /\ wire[1] \in Messages /\ events'[k] = Raw(wire[1])
  <2>1. wire[1] \in Messages /\ Head(wire) = wire[1] /\ 1 \in 1 .. Len(wire)
    BY <1>4, PopWire
  <2>2. events'[k].msg = wire[1] /\ events'[k].wallclock = hub.wallclock
    BY <1>4, <2>1, EventTypes
  <2>3. IsBar(wire[1], s, t) /\ w = hub.wallclock
    BY <1>1, <2>2
  <2>4. /\ wire[1].guid \in Bars \X Nat /\ wire[1].guid # << >>
        /\ wire[1].what = "bar" /\ wire[1].t = t /\ Symbols[wire[1].guid[1]] = s
    BY <2>1, <2>3, MessageFacts DEF IsBar
  <2>5. wire[1].guid \in hub.active
    <3>1. events' # events
      BY <1>2, <1>4
    <3> QED
      BY <1>4, <2>1, <2>4, <3>1 DEF ReadMessage
  <2>6. Live(wire[1].guid) /\ BarOn(1, wire[1].guid, t)
    BY <2>4, <2>5 DEF Live, BarOn
  <2>7. \/ Behind(Symbols[wire[1].guid[1]], t, hub.wallclock, Len(events))
        \/ \E j \in 1 .. (1 - 1) : BarOn(j, wire[1].guid, t - 1)
    BY <2>1, <2>4, <2>6 DEF WireGapless
  <2>8. Behind(s, t, w, Len(events))
    BY <2>3, <2>4, <2>7
  <2>9. Behind(s, t, w, k - 1) /\ k - 1 \in 0 .. Len(events)
    BY <1>2, <1>4, <2>8
  <2> QED
    BY <2>9, HubBehind
<1> QED
  BY <1>1, <1>3, <1>4, HubEvents

LEMMA HubHistoryAsked ==
  ASSUME TypeOK, GuidsRight, PlanRight, HubSide, HistoryAsked, ~SkipHistory
  PROVE  HistoryAsked'
<1>1. UNCHANGED <<router, wallclocks>>
  BY DEF HubSide, sessionVars, queues
<1>2. events \in Seq(Events) /\ Len(events) \in Nat
  BY HubFacts, LenProperties
<1>3. Origin # "Live"
  BY DEF Origin
<1>4. ASSUME NEW k \in 1 .. Len(events'), events'[k].kind = "subscribed"
      PROVE  events'[k].origin # "Live"
  <2>1. CASE k \in 1 .. Len(events)
    BY <1>4, <2>1, EventsGrow DEF HistoryAsked
  <2>2. CASE k > Len(events)
    <3>1. ASSUME NEW es, Reports(es)
          PROVE  events'[k].origin # "Live"
      <4>1. es \in Seq(Events) /\ events' = events \o es
        BY <3>1 DEF Reports
      <4>2. Len(es) \in Nat /\ Len(events') = Len(events) + Len(es)
            /\ \A j \in Len(events) + 1 .. Len(events) + Len(es) : events'[j] = es[j - Len(events)]
        BY <1>2, <4>1, JoinSeq
      <4>3. events'[k] = es[k - Len(events)] /\ k - Len(events) \in 1 .. Len(es)
        BY <1>2, <2>2, <4>2
      <4> QED
        BY <1>3, <1>4, <3>1, <4>3 DEF Reports, Report
    <3>2. ASSUME NEW e \in Events, events' = Append(events, e)
          PROVE  e.kind = "subscribed"
      <4>1. events'[Len(events) + 1] = e /\ Len(events') = Len(events) + 1
        BY <1>2, <3>2, PushSeq
      <4>2. k = Len(events) + 1
        BY <1>2, <2>2, <4>1
      <4> QED
        BY <1>4, <4>1, <4>2
    <3>3. ASSUME wire # << >>
          PROVE  Raw(wire[1]) \in Events /\ Raw(wire[1]).kind = "raw"
      BY <3>3, PopWire, EventTypes
    <3> QED
      BY <3>1, <3>2, <3>3, HubSteps
  <2> QED
    BY <1>2, <2>1, <2>2
<1> QED
  BY <1>1, <1>4 DEF HistoryAsked

(* The wire and the streams when nothing is read or sent: a guid becomes   *)
(* live only when nothing of it is about.                                  *)
LEMMA WireKept ==
  ASSUME TypeOK, GuidsRight, PlanRight, HubSide, WireGapless, StreamsGapless,
         hub'.wallclock = hub.wallclock, UNCHANGED <<wire, streams, now>>,
         \A g \in Bars \X Nat :
           Live(g)' => \/ Live(g)
                       \/ (\A k \in 1 .. Len(wire) : wire[k].guid # g) /\ g \notin streams
  PROVE  WireGapless' /\ StreamsGapless'
<1>1. \A s, t : Behind(s, t, hub.wallclock, Len(events)) =>
                  Behind(s, t, hub.wallclock, Len(events))'
  BY HubBehindNow
<1>2. \A k, g, t : BarOn(k, g, t)' <=> BarOn(k, g, t)
  BY DEF BarOn
<1>3. ASSUME NEW k \in 1 .. Len(wire), NEW g \in Bars \X Nat, NEW t \in Times,
             Live(g)', BarOn(k, g, t)'
      PROVE  \/ Behind(Symbols[g[1]], t, hub.wallclock, Len(events))'
             \/ \E j \in 1 .. (k - 1) : BarOn(j, g, t - 1)'
  <2>1. BarOn(k, g, t) /\ Live(g)
    BY <1>2, <1>3 DEF BarOn
  <2>2. \/ Behind(Symbols[g[1]], t, hub.wallclock, Len(events))
        \/ \E j \in 1 .. (k - 1) : BarOn(j, g, t - 1)
    BY <2>1 DEF WireGapless
  <2> QED
    BY <1>1, <1>2, <2>2
<1>4. ASSUME NEW g \in streams, Live(g)'
      PROVE  \/ Behind(Symbols[g[1]], now + 1, hub.wallclock, Len(events))'
             \/ \E j \in 1 .. Len(wire) : BarOn(j, g, now)'
  <2>1. Live(g)
    BY <1>4 DEF GuidsRight
  <2>2. \/ Behind(Symbols[g[1]], now + 1, hub.wallclock, Len(events))
        \/ \E j \in 1 .. Len(wire) : BarOn(j, g, now)
    BY <2>1 DEF StreamsGapless
  <2>3. PICK n \in Nat : n = now + 1
    BY HubFacts
  <2>4. Behind(Symbols[g[1]], n, hub.wallclock, Len(events)) =>
          Behind(Symbols[g[1]], n, hub.wallclock, Len(events))'
    BY <1>1
  <2>5. n = now' + 1 /\ now' = now
    BY <2>3
  <2>6. CASE Behind(Symbols[g[1]], now + 1, hub.wallclock, Len(events))
    BY <2>3, <2>4, <2>5, <2>6
  <2>7. CASE \E j \in 1 .. Len(wire) : BarOn(j, g, now)
    <3>1. PICK m \in Nat : m = now
      BY HubFacts
    <3>2. PICK j \in 1 .. Len(wire) : BarOn(j, g, m)
      BY <2>7, <3>1
    <3>3. BarOn(j, g, m)' /\ m = now'
      BY <1>2, <3>1, <3>2
    <3> QED
      BY <3>3
  <2> QED
    BY <2>2, <2>6, <2>7
<1>5. WireGapless'
  BY <1>3 DEF WireGapless
<1>6. StreamsGapless'
  BY <1>4 DEF StreamsGapless
<1> QED
  BY <1>5, <1>6

(* The head of the wire is read.                                           *)
LEMMA WirePopped ==
  ASSUME TypeOK, GuidsRight, PlanRight, HubSide, WireGapless, StreamsGapless,
         hub'.wallclock = hub.wallclock, wire # << >>, wire' = Tail(wire),
         UNCHANGED <<streams, now>>,
         \A g \in Bars \X Nat : Live(g)' => Live(g),
         \A g \in Bars \X Nat, t \in Nat :
           Live(g)' /\ BarOn(1, g, t - 1) =>
             Behind(Symbols[g[1]], t, hub.wallclock, Len(events))'
  PROVE  WireGapless' /\ StreamsGapless'
<1>1. \A s, t : Behind(s, t, hub.wallclock, Len(events)) =>
                  Behind(s, t, hub.wallclock, Len(events))'
  BY HubBehindNow
<1>2. /\ Len(wire) \in Nat /\ Len(wire) >= 1 /\ Len(wire') = Len(wire) - 1
      /\ \A k \in 1 .. Len(wire) - 1 : wire'[k] = wire[k + 1]
  BY PopWire
<1>3. ASSUME NEW k \in 1 .. Len(wire) - 1, NEW g, NEW t
      PROVE  BarOn(k, g, t)' <=> BarOn(k + 1, g, t)
  BY <1>2 DEF BarOn
<1>4. ASSUME NEW g \in Bars \X Nat, NEW t \in Nat, Live(g)', NEW n \in 1 .. Len(wire),
             NEW j \in 1 .. n, BarOn(j, g, t - 1)
      PROVE  \/ Behind(Symbols[g[1]], t, hub.wallclock, Len(events))'
             \/ \E i \in 1 .. (n - 1) : BarOn(i, g, t - 1)'
  <2>1. CASE j = 1
    BY <1>4, <2>1
  <2>2. CASE j > 1
    <3>1. PICK i \in 1 .. (n - 1) : j = i + 1
      BY <1>2, <2>2
    <3>2. i \in 1 .. Len(wire) - 1
      BY <1>2
    <3>3. BarOn(i, g, t - 1)'
      BY <1>3, <1>4, <3>1, <3>2
    <3> QED
      BY <3>3
  <2> QED
    BY <1>2, <2>1, <2>2
<1>5. ASSUME NEW k \in 1 .. Len(wire'), NEW g \in Bars \X Nat, NEW t \in Times,
             Live(g)', BarOn(k, g, t)'
      PROVE  \/ Behind(Symbols[g[1]], t, hub.wallclock, Len(events))'
             \/ \E j \in 1 .. (k - 1) : BarOn(j, g, t - 1)'
  <2>1. k \in 1 .. Len(wire) - 1 /\ k + 1 \in 1 .. Len(wire) /\ t \in Nat
    BY <1>2, Constants DEF Times
  <2>2. BarOn(k + 1, g, t) /\ Live(g)
    BY <1>3, <1>5, <2>1
  <2>3. \/ Behind(Symbols[g[1]], t, hub.wallclock, Len(events))
        \/ \E j \in 1 .. k : BarOn(j, g, t - 1)
    <3>1. k + 1 - 1 = k
      BY <2>1
    <3>2. \/ Behind(Symbols[g[1]], t, hub.wallclock, Len(events))
          \/ \E j \in 1 .. (k + 1 - 1) : BarOn(j, g, t - 1)
      BY <2>1, <2>2 DEF WireGapless
    <3> QED
      BY <3>1, <3>2
  <2>4. k \in 1 .. Len(wire)
    BY <2>1
  <2>5. CASE Behind(Symbols[g[1]], t, hub.wallclock, Len(events))
    BY <1>1, <2>5
  <2>6. CASE \E j \in 1 .. k : BarOn(j, g, t - 1)
    BY <1>4, <1>5, <2>1, <2>4, <2>6
  <2> QED
    BY <2>3, <2>5, <2>6
<1>6. ASSUME NEW g \in streams, Live(g)'
      PROVE  \/ Behind(Symbols[g[1]], now + 1, hub.wallclock, Len(events))'
             \/ \E j \in 1 .. Len(wire') : BarOn(j, g, now)'
  <2>1. Live(g) /\ g \in Bars \X Nat
    BY <1>6 DEF GuidsRight
  <2>2. PICK t \in Nat : t = now + 1
    BY HubFacts
  <2>3. now = t - 1 /\ now' = t - 1 /\ now' + 1 = t
    BY <2>2, HubFacts
  <2>4. \/ Behind(Symbols[g[1]], t, hub.wallclock, Len(events))
        \/ \E j \in 1 .. Len(wire) : BarOn(j, g, t - 1)
    BY <2>1, <2>2, <2>3 DEF StreamsGapless
  <2>5. PICK n \in 1 .. Len(wire) : n = Len(wire)
    <3>1. Len(wire) \in 1 .. Len(wire)
      BY ONLY <1>2
    <3> QED
      BY ONLY <3>1
  <2>6. \/ Behind(Symbols[g[1]], t, hub.wallclock, Len(events))'
        \/ \E j \in 1 .. (n - 1) : BarOn(j, g, t - 1)'
    BY <1>1, <1>4, <1>6, <2>1, <2>4, <2>5
  <2>7. n - 1 = Len(wire')
    BY <1>2, <2>5
  <2> QED
    BY <2>3, <2>6, <2>7
<1>7. WireGapless'
  BY <1>5 DEF WireGapless
<1>8. StreamsGapless'
  BY <1>6 DEF StreamsGapless
<1> QED
  BY <1>7, <1>8

(* The broker puts messages on the wire.                                   *)
OnH(h, k, g, t) == h[k].guid = g /\ h[k].what = "bar" /\ h[k].t = t

LEMMA WireJoined ==
  ASSUME TypeOK, GuidsRight, PlanRight, HubSide, WireGapless, UNCHANGED <<hub, events>>,
         NEW h \in Seq(Messages), wire' = wire \o h,
         \A k \in 1 .. Len(h), g \in Bars \X Nat, t \in Times :
           Live(g) /\ OnH(h, k, g, t) =>
             \/ Behind(Symbols[g[1]], t, hub.wallclock, Len(events))
             \/ \E j \in 1 .. Len(wire) : BarOn(j, g, t - 1)
             \/ \E j \in 1 .. (k - 1) : OnH(h, j, g, t - 1)
  PROVE  /\ WireGapless'
         /\ Len(wire) \in Nat /\ Len(h) \in Nat /\ Len(wire') = Len(wire) + Len(h)
         /\ \A k \in 1 .. Len(wire) : \A g, t : BarOn(k, g, t)' <=> BarOn(k, g, t)
         /\ \A n \in Nat : n = Len(wire) =>
              \A k \in 1 .. Len(h) : \A g, t : BarOn(n + k, g, t)' <=> OnH(h, k, g, t)
<1>1. \A s, t : Behind(s, t, hub.wallclock, Len(events)) =>
                  Behind(s, t, hub.wallclock, Len(events))'
  BY HubBehindNow
<1>2. PICK n \in Nat : n = Len(wire)
  BY HubFacts, LenProperties
<1>3. /\ Len(h) \in Nat /\ Len(wire') = n + Len(h)
      /\ \A k \in 1 .. n : wire'[k] = wire[k]
      /\ \A k \in 1 .. Len(h) : wire'[n + k] = h[k]
  BY <1>2, HubFacts, JoinSeq
<1>4. \A k \in 1 .. n : \A g, t : BarOn(k, g, t)' <=> BarOn(k, g, t)
  BY <1>3 DEF BarOn
<1>5. \A k \in 1 .. Len(h) : \A g, t : BarOn(n + k, g, t)' <=> OnH(h, k, g, t)
  BY <1>3 DEF BarOn, OnH
<1>6. \A g : Live(g)' <=> Live(g)
  BY DEF Live, Guid
<1>7. ASSUME NEW k \in 1 .. Len(wire'), NEW g \in Bars \X Nat, NEW t \in Times,
             Live(g)', BarOn(k, g, t)'
      PROVE  \/ Behind(Symbols[g[1]], t, hub.wallclock, Len(events))'
             \/ \E j \in 1 .. (k - 1) : BarOn(j, g, t - 1)'
  <2>0. Live(g)
    BY <1>6, <1>7
  <2>1. CASE k \in 1 .. n
    <3>1. BarOn(k, g, t) /\ k \in 1 .. Len(wire)
      BY <1>2, <1>4, <1>7, <2>1
    <3>2. \/ Behind(Symbols[g[1]], t, hub.wallclock, Len(events))
          \/ \E j \in 1 .. (k - 1) : BarOn(j, g, t - 1)
      BY <2>0, <3>1 DEF WireGapless
    <3>3. 1 .. (k - 1) \subseteq 1 .. n
      BY <2>1
    <3> QED
      BY <1>1, <1>4, <3>2, <3>3
  <2>2. CASE k > n
    <3>1. PICK i \in 1 .. Len(h) : k = n + i
      <4>1. k - n \in 1 .. Len(h) /\ k = n + (k - n)
        BY <1>3, <2>2
      <4> QED
        BY ONLY <4>1
    <3>2. OnH(h, i, g, t)
      BY <1>5, <1>7, <3>1
    <3>3. \/ Behind(Symbols[g[1]], t, hub.wallclock, Len(events))
          \/ \E j \in 1 .. Len(wire) : BarOn(j, g, t - 1)
          \/ \E j \in 1 .. (i - 1) : OnH(h, j, g, t - 1)
      BY <2>0, <3>2
    <3>4. CASE Behind(Symbols[g[1]], t, hub.wallclock, Len(events))
      BY <1>1, <3>4
    <3>5. CASE \E j \in 1 .. Len(wire) : BarOn(j, g, t - 1)
      <4>1. PICK j \in 1 .. n : BarOn(j, g, t - 1)
        BY <1>2, <3>5
      <4>2. BarOn(j, g, t - 1)' /\ j \in 1 .. (k - 1)
        BY <1>4, <2>2, <4>1
      <4> QED
        BY <4>2
    <3>6. CASE \E j \in 1 .. (i - 1) : OnH(h, j, g, t - 1)
      <4>1. PICK j \in 1 .. (i - 1) : OnH(h, j, g, t - 1)
        BY <3>6
      <4>2. j \in 1 .. Len(h) /\ n + j \in 1 .. (k - 1)
        BY <1>2, <1>3, <3>1
      <4>3. BarOn(n + j, g, t - 1)'
        BY <1>5, <4>1, <4>2
      <4> QED
        BY <4>2, <4>3
    <3> QED
      BY <3>3, <3>4, <3>5, <3>6
  <2> QED
    BY <1>2, <1>3, <2>1, <2>2
<1>8. WireGapless'
  BY <1>7 DEF WireGapless
<1>9. \A i \in Nat : i = Len(wire) =>
        \A k \in 1 .. Len(h) : \A g, t : BarOn(i + k, g, t)' <=> OnH(h, k, g, t)
  <2> SUFFICES ASSUME NEW i \in Nat, i = Len(wire)
               PROVE  \A k \in 1 .. Len(h) : \A g, t : BarOn(i + k, g, t)' <=> OnH(h, k, g, t)
    OBVIOUS
  <2>1. i = n
    BY <1>2
  <2> QED
    BY <1>5, <2>1
<1>11. \A k \in 1 .. Len(wire) : \A g, t : BarOn(k, g, t)' <=> BarOn(k, g, t)
  BY ONLY <1>2, <1>4
<1>12. Len(wire) \in Nat /\ Len(h) \in Nat /\ Len(wire') = Len(wire) + Len(h)
  BY ONLY <1>2, <1>3
<1> QED
  BY ONLY <1>8, <1>9, <1>11, <1>12

(* A message that is no bar.                                               *)
LEMMA WireAppended ==
  ASSUME TypeOK, GuidsRight, PlanRight, HubSide, WireGapless, StreamsGapless, AckFirst,
         UNCHANGED <<hub, events, streams, now>>,
         NEW m \in Messages, m.what # "bar", wire' = Append(wire, m)
  PROVE  WireGapless' /\ StreamsGapless' /\ AckFirst'
<1>1. wire' = wire \o <<m>> /\ <<m>> \in Seq(Messages) /\ Len(<<m>>) = 1 /\ <<m>>[1] = m
  BY HubFacts, AppendOne
<1>2. \A k \in 1 .. 1 : \A g, t : ~OnH(<<m>>, k, g, t)
  BY <1>1 DEF OnH
<1>3. /\ WireGapless' /\ Len(wire) \in Nat /\ Len(wire') = Len(wire) + 1
      /\ \A k \in 1 .. Len(wire) : \A g, t : BarOn(k, g, t)' <=> BarOn(k, g, t)
  <2> DEFINE h == <<m>>
  <2>1. h \in Seq(Messages) /\ wire' = wire \o h /\ Len(h) = 1
        /\ \A k \in 1 .. Len(h), g \in Bars \X Nat, t \in Times : ~OnH(h, k, g, t)
    BY <1>1, <1>2
  <2> HIDE DEF h
  <2> QED
    BY <2>1, WireJoined
<1>4. \A s, t : Behind(s, t, hub.wallclock, Len(events)) =>
                  Behind(s, t, hub.wallclock, Len(events))'
  BY HubBehindNow
<1>5. \A k \in 1 .. Len(wire) : wire'[k] = wire[k]
  BY HubFacts, PushSeq
<1>6. wire'[Len(wire) + 1] = m
  BY HubFacts, PushSeq
<1>7. StreamsGapless'
  <2> SUFFICES ASSUME NEW g \in streams, Live(g)'
               PROVE  \/ Behind(Symbols[g[1]], now + 1, hub.wallclock, Len(events))'
                      \/ \E j \in 1 .. Len(wire') : BarOn(j, g, now)'
    BY DEF StreamsGapless
  <2>1. Live(g)
    BY DEF Live, Guid
  <2>2. PICK n \in Nat, t \in Nat : n = now /\ t = now + 1
    BY HubFacts
  <2>3. Behind(Symbols[g[1]], t, hub.wallclock, Len(events)) \/ \E j \in 1 .. Len(wire) : BarOn(j, g, n)
    BY <2>1, <2>2 DEF StreamsGapless
  <2>4. Behind(Symbols[g[1]], t, hub.wallclock, Len(events))' \/ \E j \in 1 .. Len(wire') : BarOn(j, g, n)'
    BY <1>3, <1>4, <2>3
  <2>5. n = now' /\ t = now' + 1
    BY <2>2
  <2> QED
    BY <2>4, <2>5
<1>8. AckFirst'
  <2> SUFFICES ASSUME hub.pc = "ack"
               PROVE  /\ \A k \in 1 .. Len(wire') : wire'[k].guid = Guid =>
                           \E j \in 1 .. k : wire'[j].guid = Guid /\ wire'[j].what # "bar"
                      /\ Guid \in streams =>
                           \E j \in 1 .. Len(wire') : wire'[j].guid = Guid /\ wire'[j].what # "bar"
    BY DEF AckFirst, Guid
  <2>1. ASSUME NEW k \in 1 .. Len(wire'), wire'[k].guid = Guid
        PROVE  \E j \in 1 .. k : wire'[j].guid = Guid /\ wire'[j].what # "bar"
    <3>1. CASE k \in 1 .. Len(wire)
      <4>1. PICK j \in 1 .. k : wire[j].guid = Guid /\ wire[j].what # "bar"
        BY <1>5, <2>1, <3>1 DEF AckFirst
      <4>2. j \in 1 .. Len(wire)
        BY <1>3, <3>1
      <4> QED
        BY <1>5, <4>1, <4>2
    <3>2. CASE k = Len(wire) + 1
      <4>1. k \in 1 .. k /\ wire'[k].what # "bar"
        BY <1>3, <1>6, <3>2
      <4> QED
        BY <2>1, <4>1
    <3> QED
      BY <1>3, <3>1, <3>2
  <2>2. ASSUME Guid \in streams
        PROVE  \E j \in 1 .. Len(wire') : wire'[j].guid = Guid /\ wire'[j].what # "bar"
    <3>1. PICK j \in 1 .. Len(wire) : wire[j].guid = Guid /\ wire[j].what # "bar"
      BY <2>2 DEF AckFirst
    <3>2. j \in 1 .. Len(wire')
      BY <1>3
    <3> QED
      BY <1>5, <3>1, <3>2
  <2> QED
    BY <2>1, <2>2
<1> QED
  BY <1>3, <1>7, <1>8

WireRight == WireGapless /\ StreamsGapless /\ AckFirst

LEMMA WireClosed ==
  ASSUME Closed, hub'.pc # "ack"
  PROVE  WireRight'
<1>1. Len(wire') = 0 /\ streams' = {}
  BY DEF Closed
<1> QED
  BY <1>1 DEF WireRight, WireGapless, StreamsGapless, AckFirst

LEMMA WireForgotten ==
  ASSUME hub'.active = {}, hub'.pc # "ack"
  PROVE  WireRight'
<1>1. \A g : ~Live(g)'
  BY DEF Live
<1> QED
  BY <1>1 DEF WireRight, WireGapless, StreamsGapless, AckFirst

LEMMA WireBackoff ==
  ASSUME TypeOK, GuidsRight, PlanRight, HubSide, WireRight, NEW pc \in Stages, NEW tries,
         hub' = [hub EXCEPT !.pc = pc, !.tries = tries], pc # "ack",
         UNCHANGED <<wire, streams, now>>
  PROVE  WireRight'
<1>1. hub'.wallclock = hub.wallclock /\ hub'.active = hub.active /\ hub'.pc = pc
  BY HubFacts DEF Hubs
<1>2. \A g : Live(g)' => Live(g)
  BY <1>1 DEF Live
<1>3. WireGapless' /\ StreamsGapless'
  BY <1>1, <1>2, WireKept DEF WireRight
<1>4. AckFirst'
  BY <1>1 DEF AckFirst
<1> QED
  BY <1>3, <1>4 DEF WireRight

LEMMA WireSend ==
  ASSUME TypeOK, GuidsRight, PlanRight, HubSide, WireRight, Send
  PROVE  WireRight'
<1>1. /\ hub'.wallclock = hub.wallclock /\ hub'.active = hub.active /\ hub.n \in Nat
      /\ Guid' = <<hub.i, hub.n + 1>> /\ hub'.pc = "ack"
  BY SendFacts
<1>2. UNCHANGED <<wire, streams, now>>
  BY DEF Send
<1>3. (\A k \in 1 .. Len(wire) : wire[k].guid # Guid') /\ Guid' \notin streams
  <2>1. ASSUME NEW k \in 1 .. Len(wire), wire[k].guid = Guid'
        PROVE  FALSE
    <3>1. wire[k].guid = <<hub.i, hub.n + 1>>
      BY <1>1, <2>1
    <3>2. wire[k].guid # << >> /\ wire[k].guid[2] = hub.n + 1
      BY ONLY <3>1
    <3>3. wire[k].guid[2] \in 1 .. hub.n
      BY <3>2 DEF GuidsRight
    <3> QED
      BY ONLY <1>1, <3>2, <3>3
  <2>2. ASSUME Guid' \in streams
        PROVE  FALSE
    <3>1. Guid' \in (1 .. Len(Feeds)) \X (1 .. hub.n)
      BY <2>2, HubFacts
    <3>2. Guid'[2] = hub.n + 1 /\ Guid'[2] \in 1 .. hub.n
      BY <1>1, <3>1
    <3> QED
      BY ONLY <1>1, <3>2
  <2> QED
    BY <2>1, <2>2
<1>4. \A g : Live(g)' => g \in hub.active \/ g = Guid'
  BY <1>1 DEF Live
<1>5. \A g \in Bars \X Nat :
        Live(g)' => \/ Live(g)
                    \/ (\A k \in 1 .. Len(wire) : wire[k].guid # g) /\ g \notin streams
  BY <1>3, <1>4 DEF Live
<1>6. WireGapless' /\ StreamsGapless'
  BY <1>1, <1>2, <1>5, WireKept DEF WireRight
<1>7. AckFirst'
  BY <1>2, <1>3 DEF AckFirst
<1> QED
  BY <1>6, <1>7 DEF WireRight

LEMMA WireReadAck ==
  ASSUME TypeOK, GuidsRight, PlanRight, HubSide, WireRight, ReadAck
  PROVE  WireRight'
<1>1. /\ hub'.wallclock = hub.wallclock /\ hub'.active = hub.active \cup {Guid}
      /\ hub'.pc \in {"send", "run"}
  BY ReadAckFacts
<1>2. /\ hub.pc = "ack" /\ wire # << >> /\ Head(wire).guid = Guid /\ wire' = Tail(wire)
      /\ UNCHANGED <<streams, now>>
  BY DEF ReadAck
<1>3. Head(wire) = wire[1] /\ 1 \in 1 .. Len(wire) /\ wire[1].guid = Guid
  BY <1>2, PopWire
<1>4. wire[1].what # "bar"
  BY <1>2, <1>3 DEF WireRight, AckFirst
<1>5. \A g \in Bars \X Nat : Live(g)' => Live(g)
  BY <1>1, <1>2 DEF Live
<1>6. \A g, t : ~BarOn(1, g, t)
  BY <1>4 DEF BarOn
<1>7. WireGapless' /\ StreamsGapless'
  BY <1>1, <1>2, <1>5, <1>6, WirePopped DEF WireRight
<1>8. AckFirst'
  BY <1>1 DEF AckFirst
<1> QED
  BY <1>7, <1>8 DEF WireRight

LEMMA WireReadMessage ==
  ASSUME TypeOK, GuidsRight, PlanRight, HubSide, WireRight, ReadMessage
  PROVE  WireRight'
<1>1. /\ hub' = hub /\ wire # << >> /\ wire' = Tail(wire) /\ UNCHANGED <<streams, now>>
      /\ hub.pc = "ack" => Head(wire).guid # Guid
  BY DEF ReadMessage
<1>2. /\ Head(wire) = wire[1] /\ wire[1] \in Messages /\ Len(wire) \in Nat /\ Len(wire) >= 1
      /\ Len(wire') = Len(wire) - 1 /\ \A k \in 1 .. Len(wire) - 1 : wire'[k] = wire[k + 1]
  BY <1>1, PopWire
<1>3. \A g : Live(g)' <=> Live(g)
  BY <1>1 DEF Live, Guid
<1>4. ASSUME NEW g \in Bars \X Nat, NEW t \in Nat, Live(g), BarOn(1, g, t - 1)
      PROVE  Behind(Symbols[g[1]], t, hub.wallclock, Len(events))'
  <2>1. g \in hub.active /\ wire[1].guid = g
    BY <1>1, <1>2, <1>4 DEF Live, BarOn
  <2>2. events' = Append(events, Raw(wire[1]))
    BY <2>1, ReadMessageMoves
  <2>3. Raw(wire[1]) \in Events /\ Raw(wire[1]).kind = "raw" /\ Raw(wire[1]).msg = wire[1]
        /\ Raw(wire[1]).wallclock = hub.wallclock
    BY <1>2, EventTypes
  <2>4. PICK n \in Nat : n = Len(events) + 1
    BY HubFacts, LenProperties
  <2>5. Len(events') = n /\ events'[n] = Raw(wire[1])
    BY <2>2, <2>3, <2>4, HubFacts, PushSeq
  <2>6. wire[1].what = "bar" /\ wire[1].t = t - 1 /\ Symbols[wire[1].guid[1]] = Symbols[g[1]]
    BY <1>4 DEF BarOn
  <2>7. EventBar(n, Symbols[g[1]], t - 1, hub.wallclock)'
    BY <1>1, <2>3, <2>5, <2>6 DEF EventBar, IsBar
  <2>8. n \in 1 .. n
    BY <2>4
  <2>9. \E k \in 1 .. n : EventBar(k, Symbols[g[1]], t - 1, hub.wallclock)'
    BY <2>7, <2>8
  <2> QED
    BY <2>5, <2>9 DEF Behind
<1>5. WireGapless' /\ StreamsGapless'
  BY <1>1, <1>3, <1>4, WirePopped DEF WireRight
<1>6. AckFirst'
  <2> SUFFICES ASSUME hub.pc = "ack"
               PROVE  /\ \A k \in 1 .. Len(wire') : wire'[k].guid = Guid =>
                           \E j \in 1 .. k : wire'[j].guid = Guid /\ wire'[j].what # "bar"
                      /\ Guid \in streams =>
                           \E j \in 1 .. Len(wire') : wire'[j].guid = Guid /\ wire'[j].what # "bar"
    BY <1>1 DEF AckFirst, Guid
  <2>1. AckFirst /\ wire[1].guid # Guid
    BY <1>1, <1>2 DEF WireRight
  <2>2. ASSUME NEW n \in 1 .. Len(wire), NEW j \in 1 .. n, wire[j].guid = Guid, wire[j].what # "bar"
        PROVE  \E i \in 1 .. (n - 1) : wire'[i].guid = Guid /\ wire'[i].what # "bar"
    <3>1. j # 1
      BY <2>1, <2>2
    <3>2. j - 1 \in 1 .. (n - 1) /\ j - 1 \in 1 .. Len(wire) - 1 /\ j - 1 + 1 = j
      BY ONLY <1>2, <2>2, <3>1
    <3>3. wire'[j - 1] = wire[j]
      BY <1>2, <3>2
    <3> QED
      BY <2>2, <3>2, <3>3
  <2>3. ASSUME NEW k \in 1 .. Len(wire'), wire'[k].guid = Guid
        PROVE  \E j \in 1 .. k : wire'[j].guid = Guid /\ wire'[j].what # "bar"
    <3>1. k + 1 \in 1 .. Len(wire) /\ k + 1 - 1 = k /\ k \in 1 .. Len(wire) - 1
      BY ONLY <1>2, <2>3
    <3>2. wire[k + 1].guid = Guid
      BY <1>2, <2>3, <3>1
    <3>3. PICK j \in 1 .. k + 1 : wire[j].guid = Guid /\ wire[j].what # "bar"
      BY <2>1, <3>1, <3>2 DEF AckFirst
    <3>4. \E i \in 1 .. (k + 1 - 1) : wire'[i].guid = Guid /\ wire'[i].what # "bar"
      BY <2>2, <3>1, <3>3
    <3> QED
      BY <3>1, <3>4
  <2>4. ASSUME Guid \in streams
        PROVE  \E j \in 1 .. Len(wire') : wire'[j].guid = Guid /\ wire'[j].what # "bar"
    <3>1. PICK j \in 1 .. Len(wire) : wire[j].guid = Guid /\ wire[j].what # "bar"
      BY <2>1, <2>4 DEF AckFirst
    <3>2. PICK n \in 1 .. Len(wire) : n = Len(wire)
      <4>1. Len(wire) \in 1 .. Len(wire)
        BY ONLY <1>2
      <4> QED
        BY ONLY <4>1
    <3>3. \E i \in 1 .. (n - 1) : wire'[i].guid = Guid /\ wire'[i].what # "bar"
      BY <2>2, <3>1, <3>2
    <3>4. n - 1 = Len(wire')
      BY <1>2, <3>2
    <3> QED
      BY <3>3, <3>4
  <2> QED
    BY <2>3, <2>4
<1> QED
  BY <1>5, <1>6 DEF WireRight

(* A history starts no later than the bar after the last one.              *)
LEMMA FromBase ==
  ASSUME TypeOK, PlanRight, hub.from >= 1, NEW s \in Names
  PROVE  hub.from - 1 <= Base(s)
<1>1. hub.from \in 0 .. MaxNow /\ lastEmitted[s] \in 0 .. MaxNow
  BY HubFacts, SessionFacts
<1>2. lastEmitted[s] = 0 \/ lastEmitted[s] >= FromTime
  BY DEF PlanRight
<1>3. hub.from = FromTime \/ (lastEmitted[s] # 0 /\ hub.from <= lastEmitted[s])
  BY DEF PlanRight, Fits
<1> QED
  BY <1>1, <1>2, <1>3, Constants DEF Base

LEMMA BaseBehind ==
  ASSUME NEW s, NEW t, NEW w, NEW i, t - 1 <= Base(s)
  PROVE  Behind(s, t, w, i)
  BY DEF Behind, Ready, Routed, Out, Passed

LEMMA WireAccept ==
  ASSUME TypeOK, GuidsRight, PlanRight, HubSide, WireRight, Accept, ~SkipHistory
  PROVE  WireRight'
<1>1. PICK x \in Guids, y \in Seq(Messages) :
        /\ asked = <<x>> /\ wire' = wire \o (<<Message(x, "ok", 0)>> \o y)
        /\ \A k \in 1 .. Len(y) : y[k].guid = x /\ y[k].what = "bar" /\ y[k].t = hub.from + k - 1
        /\ x \in Bars \X Nat => /\ streams' = streams \cup {x}
                                /\ Len(y) = IF hub.skip \/ hub.from > now THEN 0
                                            ELSE now + 1 - hub.from
        /\ x \notin Bars \X Nat => y = << >> /\ streams' = streams
        /\ hub.from >= 1
  BY AcceptFacts
<1>2. UNCHANGED <<hub, events, now>>
  BY DEF Accept
<1>3. hub.from \in Nat /\ now \in Nat /\ ~hub.skip
  BY HubFacts DEF PlanRight
<1> DEFINE ok == Message(x, "ok", 0)
           h == <<ok>> \o y
<1>4. ok \in Messages /\ ok.guid = x /\ ok.what = "ok"
  BY MessageTypes
<1>5. /\ h \in Seq(Messages) /\ Len(h) = Len(y) + 1 /\ Len(y) \in Nat /\ h[1] = ok
      /\ \A k \in 1 .. Len(y) : h[k + 1] = y[k]
  <2> HIDE DEF ok
  <2>1. <<ok>> \in Seq(Messages) /\ Len(<<ok>>) = 1 /\ <<ok>>[1] = ok
    BY <1>4
  <2>2. PICK o \in Seq(Messages) : o = <<ok>>
    BY <2>1
  <2>3. /\ Len(y) \in Nat /\ o \o y \in Seq(Messages) /\ Len(o \o y) = 1 + Len(y)
        /\ \A k \in 1 .. 1 : (o \o y)[k] = o[k]
        /\ \A k \in 1 .. Len(y) : (o \o y)[1 + k] = y[k]
    BY <2>1, <2>2, JoinSeq
  <2> QED
    BY <2>1, <2>2, <2>3
<1>6. wire' = wire \o h
  BY <1>1
<1> HIDE DEF h
<1>7. ASSUME NEW k \in 1 .. Len(h), k # 1
      PROVE  /\ k - 1 \in 1 .. Len(y) /\ h[k].guid = x /\ h[k].what = "bar"
             /\ h[k].t = hub.from + k - 2
  <2>1. k - 1 \in 1 .. Len(y) /\ k - 1 + 1 = k /\ k \in Nat
    BY ONLY <1>5, <1>7
  <2>2. h[k] = y[k - 1]
    BY <1>5, <2>1
  <2>3. h[k].guid = x /\ h[k].what = "bar" /\ h[k].t = hub.from + (k - 1) - 1
    BY <1>1, <2>1, <2>2
  <2> QED
    BY <1>3, <2>1, <2>3
<1>8. \A k \in 1 .. Len(h) : h[k].guid = x
  BY <1>4, <1>5, <1>7
<1>9. ASSUME NEW k \in 1 .. Len(h), NEW g \in Bars \X Nat, NEW t \in Times, OnH(h, k, g, t)
      PROVE  \/ Behind(Symbols[g[1]], t, hub.wallclock, Len(events))
             \/ \E j \in 1 .. (k - 1) : OnH(h, j, g, t - 1)
  <2>1. k # 1
    BY <1>4, <1>5, <1>9 DEF OnH
  <2>2. k - 1 \in 1 .. Len(y) /\ t = hub.from + k - 2 /\ x = g
    BY <1>7, <1>9, <2>1 DEF OnH
  <2>3. CASE k = 2
    <3>1. Symbols[g[1]] \in Names
      BY FeedFacts
    <3>2. hub.from - 1 <= Base(Symbols[g[1]])
      BY <1>1, <3>1, FromBase
    <3>3. t = hub.from
      BY <1>3, <2>2, <2>3
    <3> QED
      BY <3>2, <3>3, BaseBehind
  <2>4. CASE k # 2
    <3>1. k - 1 \in 1 .. Len(h) /\ k - 1 # 1 /\ k - 1 \in 1 .. (k - 1)
      BY ONLY <1>5, <2>1, <2>2, <2>4, k \in 1 .. Len(h)
    <3>2. h[k - 1].guid = x /\ h[k - 1].what = "bar" /\ h[k - 1].t = hub.from + (k - 1) - 2
      BY <1>7, <3>1
    <3>3. hub.from + (k - 1) - 2 = t - 1
      <4>1. k \in Int /\ hub.from \in Int /\ t = hub.from + k - 2
        BY <1>3, <1>5, <2>2
      <4> QED
        BY ONLY <4>1
    <3> QED
      BY <2>2, <3>1, <3>2, <3>3 DEF OnH
  <2> QED
    BY <2>3, <2>4
<1>10. PICK n \in Nat : n = Len(wire)
  BY HubFacts, LenProperties
<1>11. /\ WireGapless' /\ Len(wire') = n + Len(h)
       /\ \A k \in 1 .. n : \A g, t : BarOn(k, g, t)' <=> BarOn(k, g, t)
       /\ \A k \in 1 .. Len(h) : \A g, t : BarOn(n + k, g, t)' <=> OnH(h, k, g, t)
  BY <1>2, <1>5, <1>6, <1>9, <1>10, WireJoined DEF WireRight
<1>12. /\ \A k \in 1 .. n : wire'[k] = wire[k]
       /\ \A k \in 1 .. Len(h) : wire'[n + k] = h[k]
       /\ \A k \in n + 1 .. n + Len(h) : wire'[k] = h[k - n]
  <2>1. wire \in Seq(Messages)
    BY HubFacts
  <2>2. PICK z \in Seq(Messages) : z = h
    BY <1>5
  <2>3. /\ \A k \in 1 .. n : (wire \o z)[k] = wire[k]
        /\ \A k \in 1 .. Len(z) : (wire \o z)[n + k] = z[k]
        /\ \A k \in n + 1 .. n + Len(z) : (wire \o z)[k] = z[k - n]
    BY ONLY <1>10, <2>1, JoinSeq
  <2> QED
    BY ONLY <1>6, <2>2, <2>3
<1>13. StreamsGapless'
  <2>1. PICK m \in Nat, t \in Nat : m = now /\ t = now + 1
    BY <1>3
  <2>2. m = now' /\ t = now' + 1 /\ hub' = hub /\ events' = events
    BY <1>2, <2>1
  <2> SUFFICES ASSUME NEW g \in streams', Live(g)'
               PROVE  \/ Behind(Symbols[g[1]], t, hub.wallclock, Len(events))'
                      \/ \E j \in 1 .. Len(wire') : BarOn(j, g, m)'
    BY <2>2 DEF StreamsGapless
  <2>3. \A s : Behind(s, t, hub.wallclock, Len(events)) =>
                 Behind(s, t, hub.wallclock, Len(events))'
    BY <1>2, HubBehindNow
  <2>4. Live(g)
    BY <1>2 DEF Live, Guid
  <2>5. CASE g \in streams
    <3>1. \/ Behind(Symbols[g[1]], t, hub.wallclock, Len(events))
          \/ \E j \in 1 .. n : BarOn(j, g, m)
      BY <1>10, <2>1, <2>4, <2>5 DEF WireRight, StreamsGapless
    <3>2. \A j \in 1 .. n : j \in 1 .. Len(wire')
      BY ONLY <1>5, <1>10, <1>11
    <3> QED
      BY <1>11, <2>3, <3>1, <3>2
  <2>6. CASE g \notin streams
    <3>1. g = x /\ x \in Bars \X Nat
      BY <1>1, <2>6
    <3>2. CASE hub.from > now
      <4>1. Symbols[g[1]] \in Names
        BY <3>1, FeedFacts
      <4>2. hub.from - 1 <= Base(Symbols[g[1]])
        BY <1>1, <4>1, FromBase
      <4>3. Base(Symbols[g[1]]) \in Int
        <5>1. lastEmitted[Symbols[g[1]]] \in Int /\ FromTime \in Int
          BY <4>1, SessionFacts, Constants
        <5> QED
          BY <5>1 DEF Base
      <4>4. t - 1 <= Base(Symbols[g[1]])
        <5>1. t - 1 <= hub.from - 1 /\ hub.from \in Int /\ t \in Int
          BY <1>3, <2>1, <3>2
        <5> QED
          BY ONLY <4>2, <4>3, <5>1
      <4> QED
        BY <2>3, <4>4, BaseBehind
    <3>3. CASE ~(hub.from > now)
      <4>1. Len(y) = now + 1 - hub.from /\ Len(y) >= 1
        BY <1>1, <1>3, <3>1, <3>3
      <4>2. PICK k \in 1 .. Len(h) : k = Len(h)
        <5>1. Len(h) \in 1 .. Len(h)
          BY ONLY <1>5, <4>1
        <5> QED
          BY ONLY <5>1
      <4>3. k # 1
        BY ONLY <1>5, <4>1, <4>2
      <4>4. h[k].guid = x /\ h[k].what = "bar" /\ h[k].t = hub.from + k - 2
        BY <1>7, <4>3
      <4>5. hub.from + k - 2 = m
        <5>1. k = now + 1 - hub.from + 1
          BY <1>5, <4>1, <4>2
        <5> QED
          BY ONLY <1>3, <2>1, <5>1
      <4>6. OnH(h, k, g, m)
        BY <3>1, <4>4, <4>5 DEF OnH
      <4>7. BarOn(n + k, g, m)' /\ n + k \in 1 .. Len(wire')
        BY <1>10, <1>11, <4>6
      <4> QED
        BY <4>7
    <3> QED
      BY <3>2, <3>3
  <2> QED
    BY <2>5, <2>6
<1>14. AckFirst'
  <2> SUFFICES ASSUME hub.pc = "ack"
               PROVE  /\ \A k \in 1 .. Len(wire') : wire'[k].guid = Guid =>
                           \E j \in 1 .. k : wire'[j].guid = Guid /\ wire'[j].what # "bar"
                      /\ Guid \in streams' =>
                           \E j \in 1 .. Len(wire') : wire'[j].guid = Guid /\ wire'[j].what # "bar"
    BY <1>2 DEF AckFirst, Guid
  <2>1. AckFirst
    BY DEF WireRight
  <2>2. ASSUME x = Guid
        PROVE  /\ n + 1 \in 1 .. Len(wire') /\ wire'[n + 1].guid = Guid
               /\ wire'[n + 1].what # "bar"
    <3>1. 1 \in 1 .. Len(h) /\ n + 1 \in 1 .. Len(wire')
      BY ONLY <1>5, <1>10, <1>11
    <3>2. wire'[n + 1] = ok
      BY <1>5, <1>12, <3>1
    <3> QED
      BY <1>4, <2>2, <3>1, <3>2
  <2>3. ASSUME NEW k \in 1 .. Len(wire'), wire'[k].guid = Guid
        PROVE  \E j \in 1 .. k : wire'[j].guid = Guid /\ wire'[j].what # "bar"
    <3>1. CASE k \in 1 .. n
      <4>1. PICK j \in 1 .. k : wire[j].guid = Guid /\ wire[j].what # "bar"
        BY <1>10, <1>12, <2>1, <2>3, <3>1 DEF AckFirst
      <4>2. j \in 1 .. n
        BY ONLY <3>1, j \in 1 .. k
      <4> QED
        BY <1>12, <4>1, <4>2
    <3>2. CASE k > n
      <4>1. k \in n + 1 .. n + Len(h) /\ k - n \in 1 .. Len(h) /\ n + 1 \in 1 .. k
        BY ONLY <1>5, <1>10, <1>11, <2>3, <3>2
      <4>2. wire'[k] = h[k - n]
        BY <1>12, <4>1
      <4>3. x = Guid
        BY <1>8, <2>3, <4>1, <4>2
      <4> QED
        BY <2>2, <4>1, <4>3
    <3> QED
      BY ONLY <1>10, <1>11, <1>5, <2>3, <3>1, <3>2
  <2>4. ASSUME Guid \in streams'
        PROVE  \E j \in 1 .. Len(wire') : wire'[j].guid = Guid /\ wire'[j].what # "bar"
    <3>1. CASE Guid \in streams
      <4>1. PICK j \in 1 .. n : wire[j].guid = Guid /\ wire[j].what # "bar"
        BY <1>10, <2>1, <3>1 DEF AckFirst
      <4>2. j \in 1 .. Len(wire')
        BY ONLY <1>5, <1>10, <1>11, j \in 1 .. n
      <4> QED
        BY <1>12, <4>1, <4>2
    <3>2. CASE Guid \notin streams
      <4>1. x = Guid
        BY <1>1, <2>4, <3>2
      <4> QED
        BY <2>2, <4>1
    <3> QED
      BY <3>1, <3>2
  <2> QED
    BY <2>3, <2>4
<1> QED
  BY <1>11, <1>13, <1>14 DEF WireRight

LEMMA WireNewBar ==
  ASSUME TypeOK, GuidsRight, PlanRight, HubSide, WireRight, NewBar
  PROVE  WireRight'
<1>1. PICK h \in Seq(Messages) :
        /\ wire' = wire \o h /\ now' = now + 1 /\ now' \in 1 .. MaxNow
        /\ \A k \in 1 .. Len(h) : h[k].guid \in streams /\ h[k].what = "bar" /\ h[k].t = now + 1
        /\ \A g \in streams : \E k \in 1 .. Len(h) : h[k].guid = g
  BY NewBarFacts
<1>2. UNCHANGED <<hub, events, streams>>
  BY DEF NewBar
<1>3. PICK n \in Nat, m \in Nat : n = Len(wire) /\ m = now
  BY HubFacts, LenProperties
<1>4. ASSUME NEW k \in 1 .. Len(h), NEW g \in Bars \X Nat, NEW t \in Times, Live(g), OnH(h, k, g, t)
      PROVE  \/ Behind(Symbols[g[1]], t, hub.wallclock, Len(events))
             \/ \E j \in 1 .. Len(wire) : BarOn(j, g, t - 1)
  <2>1. g \in streams /\ t = now + 1
    BY <1>1, <1>4 DEF OnH
  <2>2. \/ Behind(Symbols[g[1]], now + 1, hub.wallclock, Len(events))
        \/ \E j \in 1 .. Len(wire) : BarOn(j, g, now)
    BY <1>4, <2>1 DEF WireRight, StreamsGapless
  <2>3. now = t - 1
    BY <1>3, <2>1
  <2> QED
    BY <2>1, <2>2, <2>3
<1>5. /\ WireGapless' /\ Len(h) \in Nat /\ Len(wire') = n + Len(h)
      /\ \A k \in 1 .. n : \A g, t : BarOn(k, g, t)' <=> BarOn(k, g, t)
      /\ \A k \in 1 .. Len(h) : \A g, t : BarOn(n + k, g, t)' <=> OnH(h, k, g, t)
  BY <1>1, <1>2, <1>3, <1>4, WireJoined DEF WireRight
<1>6. /\ \A k \in 1 .. n : wire'[k] = wire[k]
      /\ \A k \in n + 1 .. n + Len(h) : wire'[k] = h[k - n]
  BY <1>1, <1>3, HubFacts, JoinSeq
<1>7. StreamsGapless'
  <2> SUFFICES ASSUME NEW g \in streams'
               PROVE  \E j \in 1 .. Len(wire') : BarOn(j, g, now)'
    BY DEF StreamsGapless
  <2>1. PICK t \in Nat : t = now'
    BY <1>1, <1>3
  <2>2. PICK k \in 1 .. Len(h) : h[k].guid = g
    BY <1>1, <1>2
  <2>3. OnH(h, k, g, t)
    BY <1>1, <2>1, <2>2 DEF OnH
  <2>4. BarOn(n + k, g, t)' /\ n + k \in 1 .. Len(wire')
    BY <1>3, <1>5, <2>3
  <2> QED
    BY <2>1, <2>4
<1>8. AckFirst'
  <2> SUFFICES ASSUME hub.pc = "ack"
               PROVE  /\ \A k \in 1 .. Len(wire') : wire'[k].guid = Guid =>
                           \E j \in 1 .. k : wire'[j].guid = Guid /\ wire'[j].what # "bar"
                      /\ Guid \in streams =>
                           \E j \in 1 .. Len(wire') : wire'[j].guid = Guid /\ wire'[j].what # "bar"
    BY <1>2 DEF AckFirst, Guid
  <2>1. AckFirst
    BY DEF WireRight
  <2>2. ASSUME Guid \in streams
        PROVE  \E j \in 1 .. n : wire'[j].guid = Guid /\ wire'[j].what # "bar"
    BY <1>3, <1>6, <2>1, <2>2 DEF AckFirst
  <2>3. ASSUME NEW k \in 1 .. Len(wire'), wire'[k].guid = Guid
        PROVE  \E j \in 1 .. k : wire'[j].guid = Guid /\ wire'[j].what # "bar"
    <3>1. CASE k \in 1 .. n
      <4>1. PICK j \in 1 .. k : wire[j].guid = Guid /\ wire[j].what # "bar"
        BY <1>3, <1>6, <2>1, <2>3, <3>1 DEF AckFirst
      <4>2. j \in 1 .. n
        BY ONLY <3>1, j \in 1 .. k
      <4> QED
        BY <1>6, <4>1, <4>2
    <3>2. CASE k > n
      <4>1. k \in n + 1 .. n + Len(h) /\ k - n \in 1 .. Len(h) /\ 1 .. n \subseteq 1 .. k
        BY ONLY <1>3, <1>5, <2>3, <3>2
      <4>2. Guid \in streams
        BY <1>1, <1>6, <2>3, <4>1
      <4> QED
        BY <2>2, <4>1, <4>2
    <3> QED
      BY ONLY <1>3, <1>5, <2>3, <3>1, <3>2
  <2>4. 1 .. n \subseteq 1 .. Len(wire')
    BY ONLY <1>3, <1>5
  <2> QED
    BY <2>2, <2>3, <2>4
<1> QED
  BY <1>5, <1>7, <1>8 DEF WireRight

LEMMA HubWire ==
  ASSUME TypeOK, GuidsRight, PlanRight, HubSide, WireRight, ~SkipHistory
  PROVE  WireRight'
<1>0. hub \in Hubs
  BY HubFacts
<1>1. ASSUME Fail \/ End, Closed PROVE WireRight'
  <2>1. hub'.pc \in {"backoff", "ended"}
    BY <1>0, <1>1 DEF Fail, End, Hubs
  <2> QED
    BY <1>1, <2>1, WireClosed
<1>2. ASSUME NEW from \in 0 .. MaxNow, hub' = Subscribing(from) PROVE WireRight'
  BY <1>2, SubscribingFacts, WireForgotten
<1>3. CASE Announce
  <2>1. Closed /\ hub'.pc = "connect"
    BY <1>3 DEF Announce, Idle
  <2> QED
    BY <2>1, WireClosed
<1>4. CASE Connect
  <2>1. plan.from \in 0 .. MaxNow
    BY HubFacts DEF Plans
  <2> QED
    BY <1>2, <1>4, <2>1 DEF Connect
<1>5. CASE Resubscribe
  BY <1>2, <1>5, PopCommand DEF Resubscribe
<1>6. CASE Reconnect
  BY <1>1, <1>6 DEF Reconnect
<1>7. CASE Shutdown
  BY <1>1, <1>7 DEF Shutdown, End
<1>8. CASE SocketError
  BY <1>1, <1>8 DEF SocketError
<1>9. CASE SocketClosed
  BY <1>1, <1>9 DEF SocketClosed, End
<1>10. CASE Backoff
  <2>1. hub' = [hub EXCEPT !.pc = "start"] /\ UNCHANGED <<wire, streams, now>>
    BY <1>10 DEF Backoff
  <2>2. hub' = [hub EXCEPT !.pc = "start", !.tries = hub.tries]
    BY <1>0, <2>1 DEF Hubs
  <2> QED
    BY <2>1, <2>2, WireBackoff DEF Stages
<1>11. CASE AckTimeout
  <2>1. CASE hub.tries + 1 < AckRetries
    <3>1. hub' = [hub EXCEPT !.pc = "send", !.tries = @ + 1] /\ UNCHANGED <<wire, streams, now>>
      BY <1>11, <2>1 DEF AckTimeout
    <3>2. hub' = [hub EXCEPT !.pc = "send", !.tries = hub.tries + 1]
      BY <3>1
    <3> QED
      BY <3>1, <3>2, WireBackoff DEF Stages
  <2>2. CASE ~(hub.tries + 1 < AckRetries)
    BY <1>1, <1>11, <2>2 DEF AckTimeout
  <2> QED
    BY <2>1, <2>2
<1>12. CASE Send
  BY <1>12, WireSend
<1>13. CASE ReadAck
  BY <1>13, WireReadAck
<1>14. CASE ReadMessage
  BY <1>14, WireReadMessage
<1>15. CASE Accept
  BY <1>15, WireAccept
<1>16. CASE NewBar
  BY <1>16, WireNewBar
<1>17. CASE Refuse
  <2>1. asked # << >> /\ asked \in Seq(Guids) /\ wire' = Append(wire, Message(asked[1], "refused", 0))
        /\ UNCHANGED <<hub, events, streams, now>>
    BY <1>17, HubFacts DEF Refuse
  <2>2. asked[1] \in Guids
    BY <2>1, PopSeq
  <2>3. Message(asked[1], "refused", 0) \in Messages /\ Message(asked[1], "refused", 0).what # "bar"
    BY <2>2, MessageTypes
  <2> QED
    BY <2>1, <2>3, WireAppended DEF WireRight
<1>18. CASE AuthError
  <2>1. wire' = Append(wire, Message(<< >>, "auth", 0)) /\ UNCHANGED <<hub, events, streams, now>>
    BY <1>18 DEF AuthError
  <2>2. Message(<< >>, "auth", 0) \in Messages /\ Message(<< >>, "auth", 0).what # "bar"
    BY MessageTypes
  <2> QED
    BY <2>1, <2>2, WireAppended DEF WireRight
<1> QED
  BY <1>3, <1>4, <1>5, <1>6, <1>7, <1>8, <1>9, <1>10, <1>11, <1>12, <1>13, <1>14, <1>15, <1>16,
     <1>17, <1>18
  DEF HubSide, HubStep, HubFault, Broker

LEMMA GapHub ==
  ASSUME IInv, NoneMissing, HubSide, ~SkipHistory
  PROVE  NoneMissing'
<1>1. TypeOK /\ GuidsRight /\ PlanRight
  BY DEF IInv
<1>2. EventsGapless /\ HistoryAsked /\ WireRight
  BY DEF NoneMissing, WireRight
<1>3. EventsGapless' /\ HistoryAsked'
  BY <1>1, <1>2, HubEventsGapless, HubHistoryAsked DEF WireRight
<1>4. WireRight'
  BY <1>1, <1>2, HubWire
<1>5. /\ PendingGapless' /\ BarsGapless' /\ HeldGapless' /\ RawGapless'
      /\ \A s \in Names : \A k \in 1 .. Len(emitted'[s]) : emitted'[s][k] = FromTime + k - 1
  BY HubGapRest
<1> QED
  BY <1>3, <1>4, <1>5 DEF NoneMissing, WireRight

-----------------------------------------------------------------------------
(* No bar is missing: the steps of the event task, the router and the bar  *)
(* task.                                                                   *)

LEMMA ReadyMoves ==
  ASSUME TypeOK, TypeOK', NEW s \in Names,
         \A x \in Int : Out(s, x) => Out(s, x)',
         router.held[s] <= router'.held[s]
  PROVE  \A t \in Int, w \in Int : Ready(s, t, w) => Ready(s, t, w)'
<1>1. router.held[s] \in Int /\ router'.held[s] \in Int
  BY SessionFacts, Constants DEF Routers, TypeOK
<1>2. ASSUME NEW x \in Int, Routed(s, x)
      PROVE  Routed(s, x)'
  <2>1. CASE Out(s, x)
    BY <2>1 DEF Routed
  <2>2. CASE x <= router.held[s]
    <3>1. x <= router'.held[s]
      BY ONLY <1>1, <2>2, router.held[s] <= router'.held[s], x \in Int
    <3> QED
      BY <3>1 DEF Routed
  <2> QED
    BY <1>2, <2>1, <2>2 DEF Routed
<1>3. ASSUME NEW t \in Int, NEW w \in Int, Ready(s, t, w)
      PROVE  Ready(s, t, w)'
  <2>1. t - 1 \in Int
    OBVIOUS
  <2> QED
    BY <1>2, <1>3, <2>1 DEF Ready
<1> QED
  BY <1>3

(* What is on the wire waits for what the session has behind it.           *)
LEMMA SessionWire ==
  ASSUME TypeOK, GuidsRight, SessionSide, WireRight,
         \A s \in Names, t \in Int, w \in Int :
           Behind(s, t, w, Len(events)) => Behind(s, t, w, Len(events))'
  PROVE  WireRight'
<1>1. UNCHANGED <<hub, wire, streams, now>>
  BY SessionFrame
<1>2. (\A g : Live(g)' <=> Live(g)) /\ (\A k, g, t : BarOn(k, g, t)' <=> BarOn(k, g, t))
  BY <1>1 DEF Live, Guid, BarOn
<1>3. PICK w \in Int : w = hub.wallclock
  BY HubFacts, Constants
<1>4. w = hub'.wallclock
  BY <1>1, <1>3
<1>5. ASSUME NEW k \in 1 .. Len(wire), NEW g \in Bars \X Nat, NEW t \in Times,
             Live(g)', BarOn(k, g, t)'
      PROVE  \/ Behind(Symbols[g[1]], t, w, Len(events))'
             \/ \E j \in 1 .. (k - 1) : BarOn(j, g, t - 1)'
  <2>1. Live(g) /\ BarOn(k, g, t) /\ t \in Int /\ Symbols[g[1]] \in Names
    BY <1>2, <1>5, Constants, FeedFacts DEF Times
  <2>2. \/ Behind(Symbols[g[1]], t, w, Len(events))
        \/ \E j \in 1 .. (k - 1) : BarOn(j, g, t - 1)
    BY <1>3, <2>1 DEF WireRight, WireGapless
  <2> QED
    BY <1>2, <2>1, <2>2
<1>6. WireGapless'
  BY <1>1, <1>4, <1>5 DEF WireGapless
<1>7. PICK m \in Int, t \in Int : m = now /\ t = now + 1
  BY HubFacts
<1>8. ASSUME NEW g \in streams, Live(g)'
      PROVE  \/ Behind(Symbols[g[1]], t, w, Len(events))'
             \/ \E j \in 1 .. Len(wire) : BarOn(j, g, m)'
  <2>1. Live(g) /\ Symbols[g[1]] \in Names
    BY <1>2, <1>8, FeedFacts DEF GuidsRight
  <2>2. \/ Behind(Symbols[g[1]], t, w, Len(events))
        \/ \E j \in 1 .. Len(wire) : BarOn(j, g, m)
    BY <1>3, <1>7, <2>1 DEF WireRight, StreamsGapless
  <2> QED
    BY <1>2, <2>1, <2>2
<1>9. m = now' /\ t = now' + 1
  BY <1>1, <1>7
<1>10. StreamsGapless'
  BY <1>1, <1>4, <1>8, <1>9 DEF StreamsGapless
<1>11. AckFirst'
  BY <1>1 DEF WireRight, AckFirst, Guid
<1> QED
  BY <1>6, <1>10, <1>11 DEF WireRight

(* The queue to the router and the events behind it.                       *)
QueuesGapless == RawGapless /\ EventsGapless /\ WireRight

LEMMA QueuesStay ==
  ASSUME TypeOK, GuidsRight, SessionSide, QueuesGapless, UNCHANGED <<raw, events>>,
         \A s \in Names, t \in Int, w \in Int : Ready(s, t, w) => Ready(s, t, w)'
  PROVE  QueuesGapless'
<1>1. /\ \A k, s, t, w : RawBar(k, s, t, w)' <=> RawBar(k, s, t, w)
      /\ \A k, s, t, w : EventBar(k, s, t, w)' <=> EventBar(k, s, t, w)
  BY DEF RawBar, EventBar, IsBar
<1>2. \A s \in Names, t \in Int, w \in Int : \A i : Behind(s, t, w, i) => Behind(s, t, w, i)'
  BY <1>1 DEF Behind
<1>3. Times \subseteq Int /\ Clocks \subseteq Int
  BY Constants DEF Times, Clocks
<1>4. RawGapless'
  BY <1>1, <1>3 DEF QueuesGapless, RawGapless
<1>5. EventsGapless'
  BY <1>1, <1>2, <1>3 DEF QueuesGapless, EventsGapless
<1>6. \A s \in Names, t \in Int, w \in Int :
        Behind(s, t, w, Len(events)) => Behind(s, t, w, Len(events))'
  BY <1>2
<1>7. WireRight'
  BY <1>6, SessionWire DEF QueuesGapless
<1> QED
  BY <1>4, <1>5, <1>7 DEF QueuesGapless

(* The router takes the head of its queue.                                 *)
LEMMA QueuesRouted ==
  ASSUME TypeOK, GuidsRight, SessionSide, QueuesGapless, events' = events,
         raw # << >>, raw' = Tail(raw),
         \A s \in Names, t \in Int, w \in Int : Ready(s, t, w) => Ready(s, t, w)',
         \A s \in Names, t \in Int, w \in Int : RawBar(1, s, t - 1, w) => Ready(s, t, w)'
  PROVE  QueuesGapless'
<1>1. /\ Len(raw) \in Nat /\ Len(raw') = Len(raw) - 1
      /\ \A k \in 1 .. Len(raw) - 1 : raw'[k] = raw[k + 1]
  BY RawHead
<1>2. ASSUME NEW k \in 1 .. Len(raw) - 1, NEW s, NEW t, NEW w
      PROVE  RawBar(k, s, t, w)' <=> RawBar(k + 1, s, t, w)
  BY <1>1 DEF RawBar, IsBar
<1>3. \A k, s, t, w : EventBar(k, s, t, w)' <=> EventBar(k, s, t, w)
  BY DEF EventBar, IsBar
<1>4. Times \subseteq Int /\ Clocks \subseteq Int
  BY Constants DEF Times, Clocks
<1>5. ASSUME NEW s \in Names, NEW t \in Int, NEW w \in Int, NEW n \in 1 .. Len(raw),
             NEW j \in 1 .. n, RawBar(j, s, t - 1, w)
      PROVE  Ready(s, t, w)' \/ \E i \in 1 .. (n - 1) : RawBar(i, s, t - 1, w)'
  <2>1. CASE j = 1
    BY <1>5, <2>1
  <2>2. CASE j > 1
    <3>1. PICK i \in 1 .. (n - 1) : j = i + 1
      BY <1>1, <2>2
    <3>2. i \in 1 .. Len(raw) - 1
      BY <1>1
    <3>3. RawBar(i, s, t - 1, w)'
      BY <1>2, <1>5, <3>1, <3>2
    <3> QED
      BY <3>3
  <2> QED
    BY <1>1, <2>1, <2>2
<1>6. RawGapless'
  <2> SUFFICES ASSUME NEW k \in 1 .. Len(raw'), NEW s \in Names, NEW t \in Times, NEW w \in Clocks,
                      RawBar(k, s, t, w)'
               PROVE  Ready(s, t, w)' \/ \E j \in 1 .. (k - 1) : RawBar(j, s, t - 1, w)'
    BY DEF RawGapless
  <2>1. k \in 1 .. Len(raw) - 1 /\ k + 1 \in 1 .. Len(raw) /\ k \in 1 .. Len(raw)
    BY ONLY <1>1, k \in 1 .. Len(raw')
  <2>2. RawBar(k + 1, s, t, w)
    BY <1>2, <2>1
  <2>3. Ready(s, t, w) \/ \E j \in 1 .. k : RawBar(j, s, t - 1, w)
    <3>1. Ready(s, t, w) \/ \E j \in 1 .. (k + 1 - 1) : RawBar(j, s, t - 1, w)
      BY <2>1, <2>2 DEF QueuesGapless, RawGapless
    <3>2. k + 1 - 1 = k
      BY <2>1
    <3> QED
      BY <3>1, <3>2
  <2>4. t \in Int /\ w \in Int
    BY <1>4
  <2> QED
    BY <1>5, <2>1, <2>3, <2>4
<1>7. ASSUME NEW s \in Names, NEW t \in Int, NEW w \in Int, NEW i, Behind(s, t, w, i)
      PROVE  Behind(s, t, w, i)'
  <2>1. CASE \E k \in 1 .. Len(raw) : RawBar(k, s, t - 1, w)
    <3>1. PICK k \in 1 .. Len(raw) : RawBar(k, s, t - 1, w)
      BY <2>1
    <3>2. PICK n \in 1 .. Len(raw) : n = Len(raw)
      <4>1. Len(raw) \in 1 .. Len(raw)
        BY ONLY <1>1, k \in 1 .. Len(raw)
      <4> QED
        BY ONLY <4>1
    <3>3. Ready(s, t, w)' \/ \E j \in 1 .. (n - 1) : RawBar(j, s, t - 1, w)'
      BY <1>5, <3>1, <3>2
    <3>4. n - 1 = Len(raw')
      BY <1>1, <3>2
    <3> QED
      BY <3>3, <3>4 DEF Behind
  <2>2. CASE Ready(s, t, w)
    BY <2>2 DEF Behind
  <2>3. CASE \E k \in 1 .. i : EventBar(k, s, t - 1, w)
    BY <1>3, <2>3 DEF Behind
  <2> QED
    BY <1>7, <2>1, <2>2, <2>3 DEF Behind
<1>8. EventsGapless'
  BY <1>3, <1>4, <1>7 DEF QueuesGapless, EventsGapless
<1>9. \A s \in Names, t \in Int, w \in Int :
        Behind(s, t, w, Len(events)) => Behind(s, t, w, Len(events))'
  BY <1>7
<1>10. WireRight'
  BY <1>9, SessionWire DEF QueuesGapless
<1> QED
  BY <1>6, <1>8, <1>10 DEF QueuesGapless

(* An event is taken.  A raw one at the head is of the current generation, *)
(* so that it reaches the queue to the router, unless that queue is full.  *)
TakesRaw == /\ events[1].kind = "raw"
            /\ raw' = Append(raw, [msg |-> events[1].msg, wallclock |-> events[1].wallclock])
TakesOther == events[1].kind # "raw" /\ raw' = raw

LEMMA EventTaskRaw ==
  ASSUME TypeOK, GenerationsRight, EventTask, losses' = {}
  PROVE  /\ events # << >> /\ events' = Tail(events) /\ losses = {}
         /\ TakesRaw \/ TakesOther
<1>1. events # << >> /\ events' = Tail(events)
  BY DEF EventTask, OnReconnecting, OnConn, OnSubscribed, OnAck, OnStats, OnRaw, Take
<1>2. Head(events) = events[1] /\ events[1] \in Events /\ 1 \in 1 .. Len(events)
  BY <1>1, EventHead, PopSeq, HubFacts
<1>3. CASE OnRaw
  <2>1. events[1].kind = "raw"
    BY <1>2, <1>3 DEF OnRaw, Take
  <2>2. OfCurrent
    <3>1. ~Announces(events[1])
      BY <2>1 DEF Announces
    <3>2. \/ events[1].gen = current
          \/ \E j \in 1 .. (1 - 1) : Announces(events[j]) /\ events[j].gen = events[1].gen
      BY <1>2, <3>1 DEF GenerationsRight
    <3> QED
      BY <1>2, <3>2 DEF OfCurrent
  <2>3. losses' # losses \cup {"queue full"}
    OBVIOUS
  <2>4. losses = {} /\ raw' = Append(raw, [msg |-> Head(events).msg,
                                           wallclock |-> Head(events).wallclock])
    BY <1>3, <2>2, <2>3 DEF OnRaw
  <2> QED
    BY <1>1, <1>2, <2>1, <2>4 DEF TakesRaw
<1>4. CASE OnReconnecting \/ OnConn \/ OnAck \/ OnStats
  BY <1>1, <1>2, <1>4 DEF TakesOther, OnReconnecting, OnConn, OnAck, OnStats, Take, queues
<1>5. CASE OnSubscribed
  BY <1>1, <1>2, <1>5 DEF TakesOther, OnSubscribed, Take
<1> QED
  BY <1>3, <1>4, <1>5 DEF EventTask

LEMMA QueuesTaken ==
  ASSUME TypeOK, GuidsRight, SessionSide, QueuesGapless, events # << >>, events' = Tail(events),
         TakesRaw \/ TakesOther,
         \A s, t, w : Ready(s, t, w)' <=> Ready(s, t, w)
  PROVE  QueuesGapless'
<1>1. PICK n \in Nat : n = Len(events)
  BY HubFacts, LenProperties
<1>2. /\ n >= 1 /\ Len(events') = n - 1 /\ events[1] \in Events
      /\ \A k \in 1 .. n - 1 : events'[k] = events[k + 1]
  BY <1>1, HubFacts, PopSeq
<1>3. ASSUME NEW k \in 1 .. n - 1, NEW s, NEW t, NEW w
      PROVE  EventBar(k, s, t, w)' <=> EventBar(k + 1, s, t, w)
  BY <1>2 DEF EventBar, IsBar
<1>4. PICK r \in Nat : r = Len(raw)
  BY SessionFacts, LenProperties
<1>5. /\ r <= Len(raw') /\ Len(raw') \in Nat
      /\ \A k \in 1 .. r : raw'[k] = raw[k]
      /\ \A k \in r + 1 .. Len(raw') : /\ TakesRaw /\ k = r + 1 /\ raw'[k].msg = events[1].msg
                                       /\ raw'[k].wallclock = events[1].wallclock
      /\ TakesRaw => r + 1 \in 1 .. Len(raw')
  <2>1. CASE TakesOther
    BY ONLY <1>4, <2>1 DEF TakesOther, TakesRaw
  <2>2. CASE TakesRaw
    <3>1. events[1].msg \in Messages /\ events[1].wallclock \in 0 .. MaxNow
      BY <1>2, <2>2, EventFacts DEF TakesRaw
    <3>2. PICK e \in RawEntries : e = [msg |-> events[1].msg, wallclock |-> events[1].wallclock]
      BY <3>1 DEF RawEntries
    <3>3. e.msg = events[1].msg /\ e.wallclock = events[1].wallclock /\ raw' = Append(raw, e)
      BY <2>2, <3>2 DEF TakesRaw
    <3>4. /\ Len(raw') = r + 1 /\ raw'[r + 1] = e /\ \A k \in 1 .. r : raw'[k] = raw[k]
      BY <1>4, <3>3, SessionFacts, PushSeq
    <3> QED
      BY ONLY <1>4, <2>2, <3>3, <3>4
  <2> QED
    BY <2>1, <2>2
<1>6. \A k \in 1 .. r : \A s, t, w : RawBar(k, s, t, w)' <=> RawBar(k, s, t, w)
  BY <1>5 DEF RawBar, IsBar
<1>7. \A s, t, w : EventBar(1, s, t, w) => RawBar(r + 1, s, t, w)' /\ r + 1 \in 1 .. Len(raw')
  <2> SUFFICES ASSUME NEW s, NEW t, NEW w, EventBar(1, s, t, w)
               PROVE  RawBar(r + 1, s, t, w)' /\ r + 1 \in 1 .. Len(raw')
    OBVIOUS
  <2>1. TakesRaw
    BY DEF EventBar, TakesOther
  <2>2. r + 1 \in r + 1 .. Len(raw') /\ r + 1 \in 1 .. Len(raw')
    BY ONLY <1>4, <1>5, <2>1
  <2>3. raw'[r + 1].msg = events[1].msg /\ raw'[r + 1].wallclock = events[1].wallclock
    BY <1>5, <2>2
  <2> QED
    BY <2>2, <2>3 DEF EventBar, RawBar, IsBar
<1>8. ASSUME NEW s, NEW t, NEW w, NEW i \in 1 .. n, Behind(s, t, w, i)
      PROVE  Behind(s, t, w, i - 1)'
  <2>1. CASE Ready(s, t, w)
    BY <2>1 DEF Behind
  <2>2. CASE \E k \in 1 .. Len(raw) : RawBar(k, s, t - 1, w)
    <3>1. PICK k \in 1 .. r : RawBar(k, s, t - 1, w)
      BY <1>4, <2>2
    <3>2. RawBar(k, s, t - 1, w)' /\ k \in 1 .. Len(raw')
      BY <1>4, <1>5, <1>6, <3>1
    <3> QED
      BY <3>2 DEF Behind
  <2>3. CASE \E k \in 1 .. i : EventBar(k, s, t - 1, w)
    <3>1. PICK k \in 1 .. i : EventBar(k, s, t - 1, w)
      BY <2>3
    <3>2. CASE k = 1
      <4>1. RawBar(r + 1, s, t - 1, w)' /\ r + 1 \in 1 .. Len(raw')
        BY <1>7, <3>1, <3>2
      <4> QED
        BY <4>1 DEF Behind
    <3>3. CASE k > 1
      <4>1. PICK j \in 1 .. (i - 1) : k = j + 1
        <5>1. k - 1 \in 1 .. (i - 1) /\ k = (k - 1) + 1
          BY ONLY <3>3, i \in 1 .. n, k \in 1 .. i, n \in Nat
        <5> QED
          BY ONLY <5>1
      <4>2. j \in 1 .. n - 1
        BY ONLY <1>1, <4>1, i \in 1 .. n
      <4>3. EventBar(j, s, t - 1, w)'
        BY <1>3, <3>1, <4>1, <4>2
      <4> QED
        BY <4>3 DEF Behind
    <3> QED
      BY <1>1, <3>2, <3>3
  <2> QED
    BY <1>8, <2>1, <2>2, <2>3 DEF Behind
<1>9. RawGapless'
  <2> SUFFICES ASSUME NEW k \in 1 .. Len(raw'), NEW s \in Names, NEW t \in Times, NEW w \in Clocks,
                      RawBar(k, s, t, w)'
               PROVE  Ready(s, t, w)' \/ \E j \in 1 .. (k - 1) : RawBar(j, s, t - 1, w)'
    BY DEF RawGapless
  <2>1. CASE k \in 1 .. r
    <3>1. Ready(s, t, w) \/ \E j \in 1 .. (k - 1) : RawBar(j, s, t - 1, w)
      BY <1>4, <1>6, <2>1 DEF QueuesGapless, RawGapless
    <3>2. 1 .. (k - 1) \subseteq 1 .. r
      BY <2>1
    <3> QED
      BY <1>6, <3>1, <3>2
  <2>2. CASE k > r
    <3>1. k \in r + 1 .. Len(raw')
      BY <1>4, <1>5, <2>2
    <3>2. TakesRaw /\ k = r + 1 /\ EventBar(1, s, t, w)
      BY <1>5, <3>1 DEF RawBar, EventBar, IsBar, TakesRaw
    <3>3. Behind(s, t, w, 1 - 1)
      BY <1>1, <1>2, <3>2 DEF QueuesGapless, EventsGapless
    <3>4. Ready(s, t, w) \/ \E j \in 1 .. r : RawBar(j, s, t - 1, w)
      BY <1>4, <3>3 DEF Behind
    <3>5. k - 1 = r
      BY <1>4, <3>2
    <3> QED
      BY <1>6, <3>4, <3>5
  <2> QED
    BY <1>4, <2>1, <2>2
<1>10. EventsGapless'
  <2> SUFFICES ASSUME NEW k \in 1 .. n - 1, NEW s \in Names, NEW t \in Times, NEW w \in Clocks,
                      EventBar(k, s, t, w)'
               PROVE  Behind(s, t, w, k - 1)'
    BY <1>2 DEF EventsGapless
  <2>1. k + 1 \in 1 .. n /\ k \in 1 .. n /\ k + 1 - 1 = k
    BY ONLY <1>1, k \in 1 .. n - 1
  <2>2. EventBar(k + 1, s, t, w)
    BY <1>3
  <2>3. Behind(s, t, w, k)
    BY <1>1, <2>1, <2>2 DEF QueuesGapless, EventsGapless
  <2> QED
    BY <1>8, <2>1, <2>3
<1>11. \A s \in Names, t \in Int, w \in Int :
         Behind(s, t, w, Len(events)) => Behind(s, t, w, Len(events))'
  <2> SUFFICES ASSUME NEW s \in Names, NEW t \in Int, NEW w \in Int, Behind(s, t, w, Len(events))
               PROVE  Behind(s, t, w, Len(events))'
    OBVIOUS
  <2>1. n \in 1 .. n /\ Behind(s, t, w, n)
    BY <1>1, <1>2
  <2>2. Behind(s, t, w, n - 1)'
    BY <1>8, <2>1
  <2>3. PICK m \in Int : m = n - 1
    BY <1>1
  <2>4. Behind(s, t, w, m)' /\ m = Len(events')
    BY <1>2, <2>2, <2>3
  <2> QED
    BY <2>4
<1>12. WireRight'
  BY <1>11, SessionWire DEF QueuesGapless
<1> QED
  BY <1>9, <1>10, <1>12 DEF QueuesGapless

LEMMA BaseFacts ==
  ASSUME TypeOK, PlanRight, NEW s \in Names
  PROVE  /\ Base(s) \in Int /\ Base(s) >= 0 /\ Base(s) >= FromTime - 1
         /\ lastEmitted[s] \in 0 .. MaxNow /\ lastEmitted[s] <= Base(s)
         /\ lastEmitted[s] # 0 => Base(s) = lastEmitted[s]
         /\ \A t \in Int : Recent(t) /\ t > lastEmitted[s] => t > Base(s)
<1>1. lastEmitted[s] \in 0 .. MaxNow /\ (lastEmitted[s] = 0 \/ lastEmitted[s] >= FromTime)
  BY SessionFacts DEF PlanRight
<1>2. FromTime \in Int /\ FromTime >= 1 /\ MaxNow \in Int
  BY Constants
<1>3. lastEmitted[s] = 0 => \A t : Recent(t) => t >= FromTime
  BY DEF Recent, Early
<1> QED
  BY ONLY <1>1, <1>2, <1>3 DEF Base

(* A bar is put into the queue to the bar task.                            *)
LEMMA BarAppended ==
  ASSUME TypeOK, BarsGapless, UNCHANGED <<pending, lastEmitted>>,
         NEW e \in BarEvents, bars' = Append(bars, e), Out(e.sym, e.t - 1)
  PROVE  /\ BarsGapless'
         /\ \A s, t : Out(s, t) => Out(s, t)'
         /\ \A t : t <= e.t => Out(e.sym, t)'
<1>1. PICK n \in Nat : n = Len(bars)
  BY SessionFacts, LenProperties
<1>2. Len(bars') = n + 1 /\ bars'[n + 1] = e /\ \A k \in 1 .. n : bars'[k] = bars[k]
  BY <1>1, SessionFacts, PushSeq
<1>3. ASSUME NEW i \in 0 .. n, NEW m \in 0 .. n + 1, i <= m, NEW s, NEW t, Passed(s, t, i)
      PROVE  Passed(s, t, m)'
  <2>1. CASE \E j \in 1 .. i : bars[j].sym = s /\ t <= bars[j].t
    <3>1. PICK j \in 1 .. i : bars[j].sym = s /\ t <= bars[j].t
      BY <2>1
    <3>2. j \in 1 .. n /\ j \in 1 .. m
      BY ONLY <1>1, <1>3, j \in 1 .. i
    <3>3. bars'[j] = bars[j]
      BY <1>2, <3>2
    <3> QED
      BY <3>1, <3>2, <3>3 DEF Passed
  <2>2. CASE ~(\E j \in 1 .. i : bars[j].sym = s /\ t <= bars[j].t)
    BY <1>3, <2>2 DEF Passed, Base
  <2> QED
    BY <2>1, <2>2
<1>4. ASSUME NEW s, NEW t, Out(s, t)
      PROVE  Out(s, t)'
  <2>1. n \in 0 .. n /\ n + 1 \in 0 .. n + 1 /\ n <= n + 1 /\ Passed(s, t, n)
    BY <1>1, <1>4 DEF Out
  <2>2. PICK m \in 0 .. n + 1 : m = n + 1
    BY ONLY <2>1
  <2>3. Passed(s, t, m)'
    BY <1>3, <2>1, <2>2
  <2> QED
    BY <1>2, <2>2, <2>3 DEF Out
<1>5. ASSUME NEW t, t <= e.t
      PROVE  Out(e.sym, t)'
  <2>1. n + 1 \in 1 .. Len(bars') /\ bars'[n + 1].sym = e.sym /\ t <= bars'[n + 1].t
    BY <1>1, <1>2, <1>5
  <2> QED
    BY <2>1 DEF Out, Passed
<1>6. BarsGapless'
  <2> SUFFICES ASSUME NEW i \in 1 .. n + 1
               PROVE  Passed(bars[i].sym, bars[i].t - 1, i - 1)'
    BY <1>2 DEF BarsGapless
  <2>0. i - 1 \in 0 .. n + 1 /\ i - 1 <= i - 1
    BY <1>1
  <2>1. CASE i \in 1 .. n
    <3>1. Passed(bars[i].sym, bars[i].t - 1, i - 1) /\ i - 1 \in 0 .. n /\ bars'[i] = bars[i]
      BY <1>1, <1>2, <2>1 DEF BarsGapless
    <3>2. PICK s, t : s = bars[i].sym /\ t = bars[i].t - 1
      OBVIOUS
    <3>3. Passed(s, t, i - 1)
      BY <3>1, <3>2
    <3>4. Passed(s, t, i - 1)'
      BY <1>3, <2>0, <3>1, <3>3
    <3>5. s = bars'[i].sym /\ t = bars'[i].t - 1
      BY <3>1, <3>2
    <3> QED
      BY <3>4, <3>5
  <2>2. CASE i = n + 1
    <3>1. PICK s, t : s = e.sym /\ t = e.t - 1
      OBVIOUS
    <3>2. Passed(s, t, i - 1) /\ i - 1 \in 0 .. n
      <4>1. i - 1 = Len(bars) /\ i - 1 \in 0 .. n
        BY <1>1, <2>2
      <4> QED
        BY <3>1, <4>1 DEF Out
    <3>3. Passed(s, t, i - 1)'
      BY <1>3, <2>0, <3>2
    <3>4. s = bars'[i].sym /\ t = bars'[i].t - 1
      BY <1>2, <2>2, <3>1
    <3> QED
      BY <3>3, <3>4
  <2> QED
    BY <1>1, <2>1, <2>2
<1> QED
  BY <1>4, <1>5, <1>6

(* The router takes a bar that is ready.                                   *)
LEMMA GapRouteBar ==
  ASSUME IInv, IInv', NoneMissing, RouteBar, losses' = {}
  PROVE  /\ PendingGapless' /\ BarsGapless' /\ HeldGapless'
         /\ \A s \in Names : /\ router.held[s] <= router'.held[s]
                             /\ \A x \in Int : Out(s, x) => Out(s, x)'
         /\ \A s \in Names, t \in Int, w \in Int : RawBar(1, s, t - 1, w) => Ready(s, t, w)'
         /\ raw # << >> /\ raw' = Tail(raw) /\ router'.origin = router.origin /\ losses = {}
<1>0. TypeOK /\ TypeOK' /\ PlanRight /\ PlanRight'
  BY DEF IInv
<1>1. PICK s \in Names, t \in 1 .. MaxNow, w \in 0 .. MaxNow :
        Routes(s, t, w) /\ (PassesHistory(s, t) \/ PassesHeld(s, t) \/ PassesNothing(s, t))
  BY <1>0, RouteBarFacts
<1>2. /\ raw # << >> /\ raw' = Tail(raw) /\ RawBar(1, s, t, w) /\ router'.origin = router.origin
      /\ losses = {} /\ router.cut /\ router.cutoff = w - 2
      /\ \A z \in Names \ {s} : router'.held[z] = router.held[z]
  BY <1>1 DEF Routes
<1>3. UNCHANGED <<pending, lastEmitted>>
  BY DEF RouteBar, barVars
<1>4. PendingGapless'
  BY <1>3 DEF NoneMissing, PendingGapless, Base
<1>5. t \in Int /\ t >= 1 /\ w \in Int /\ MaxNow \in Int
  BY Constants
<1>6. OldEnough(t) <=> t <= w - 2
  BY <1>2 DEF OldEnough, NoneMissing, HistoryAsked
<1>7. Ready(s, t, w)
  <2>1. 1 \in 1 .. Len(raw) /\ t \in Times /\ w \in Clocks
    BY <1>0, <1>2, RawHead DEF Times, Clocks
  <2>2. Ready(s, t, w) \/ \E j \in 1 .. (1 - 1) : RawBar(j, s, t - 1, w)
    BY <1>2, <2>1 DEF NoneMissing, RawGapless
  <2> QED
    BY <2>2
<1>8. \A z \in Names : router.held[z] \in 0 .. MaxNow /\ router'.held[z] \in 0 .. MaxNow
  BY <1>0, SessionFacts DEF Routers, TypeOK
<1>9. BarsGapless /\ HeldGapless
  BY DEF NoneMissing
<1> DEFINE OutGrows == \A z, x : Out(z, x) => Out(z, x)'
(* What the three ways have in common.                                     *)
<1>10. ASSUME BarsGapless', OutGrows, router.held[s] <= router'.held[s], Routed(s, t)',
              t <= w - 2 => Out(s, t)',
              router'.held[s] = router.held[s] \/ Out(s, router.held[s] - 1)'
       PROVE  /\ HeldGapless'
              /\ \A z \in Names : /\ router.held[z] <= router'.held[z]
                                  /\ \A x \in Int : Out(z, x) => Out(z, x)'
              /\ \A z \in Names, u \in Int, v \in Int : RawBar(1, z, u - 1, v) => Ready(z, u, v)'
  <2>1. \A z \in Names : router.held[z] <= router'.held[z]
    BY <1>2, <1>5, <1>8, <1>10
  <2>2. ASSUME NEW z \in Names, NEW u \in Int, NEW v \in Int, RawBar(1, z, u - 1, v)
        PROVE  Ready(z, u, v)'
    <3>1. z = s /\ u - 1 = t /\ v = w
      BY <1>2, <2>2 DEF RawBar, IsBar
    <3>2. Routed(z, u - 1)' /\ (u - 1 <= w - 2 => Out(z, u - 1)')
      BY <1>10, <3>1
    <3>3. u <= v - 2 => u - 1 <= w - 2
      BY <1>5, <3>1
    <3> QED
      BY <3>2, <3>3 DEF Ready
  <2>3. HeldGapless'
    <3> SUFFICES ASSUME NEW z \in Names, router'.held[z] # 0
                 PROVE  Out(z, router.held[z] - 1)'
      BY DEF HeldGapless
    <3>1. CASE router'.held[z] = router.held[z]
      <4>1. PICK x : x = router.held[z] - 1
        OBVIOUS
      <4>2. Out(z, x)
        BY <1>9, <3>1, <4>1 DEF HeldGapless
      <4>3. Out(z, x)' /\ x = router'.held[z] - 1
        BY <1>10, <3>1, <4>1, <4>2
      <4> QED
        BY <4>3
    <3>2. CASE router'.held[z] # router.held[z]
      <4>1. z = s
        BY <1>2, <3>2
      <4> QED
        BY <1>10, <3>2, <4>1
    <3> QED
      BY <3>1, <3>2
  <2>4. \A z \in Names : \A x \in Int : Out(z, x) => Out(z, x)'
    BY <1>10
  <2> QED
    BY <2>1, <2>2, <2>3, <2>4
<1>11. CASE PassesHistory(s, t)
  <2>1. PICK e \in BarEvents : e.sym = s /\ e.t = t /\ bars' = Append(bars, e)
    BY <1>11 DEF PassesHistory, PassesOn
  <2>2. router' = router /\ t <= w - 2
    BY <1>6, <1>11 DEF PassesHistory
  <2>3. Out(s, t - 1)
    BY <1>7, <2>2 DEF Ready
  <2>4. BarsGapless' /\ OutGrows /\ \A x : x <= t => Out(s, x)'
    BY <1>0, <1>3, <1>9, <2>1, <2>3, BarAppended
  <2>5. Out(s, t)' /\ Routed(s, t)'
    BY <1>5, <2>4 DEF Routed
  <2>6. router.held[s] <= router'.held[s] /\ router'.held[s] = router.held[s]
    BY <1>5, <1>8, <2>2
  <2> QED
    BY <1>2, <1>4, <1>10, <2>4, <2>5, <2>6
<1>12. CASE PassesHeld(s, t)
  <2>1. PICK p \in 0 .. MaxNow : p = router.held[s]
    BY <1>8
  <2>2. ~(t <= w - 2) /\ p # 0 /\ t > p /\ PassesOn(s, p) /\ router'.held[s] = t
    BY <1>6, <1>12, <2>1 DEF PassesHeld
  <2>3. PICK e \in BarEvents : e.sym = s /\ e.t = p /\ bars' = Append(bars, e)
    BY <2>2 DEF PassesOn
  <2>4. Out(s, p - 1)
    BY <1>9, <2>1, <2>2 DEF HeldGapless
  <2>5. BarsGapless' /\ OutGrows /\ \A x : x <= p => Out(s, x)'
    BY <1>0, <1>3, <1>9, <2>3, <2>4, BarAppended
  <2>6. Out(s, t - 1)'
    <3>1. Routed(s, t - 1)
      BY <1>7, <2>2 DEF Ready
    <3>2. CASE Out(s, t - 1)
      BY <2>5, <3>2
    <3>3. CASE t - 1 <= router.held[s]
      BY <2>1, <2>5, <3>3
    <3> QED
      BY <3>1, <3>2, <3>3 DEF Routed
  <2>7. router.held[s] <= router'.held[s] /\ t <= router'.held[s]
    BY <1>5, <2>1, <2>2
  <2>8. Routed(s, t)' /\ Out(s, router.held[s] - 1)'
    <3>1. t - 1 = router'.held[s] - 1
      BY <2>2
    <3> QED
      BY <2>6, <2>7, <3>1 DEF Routed
  <2> QED
    BY <1>2, <1>4, <1>10, <2>2, <2>5, <2>7, <2>8
<1>13. CASE PassesNothing(s, t)
  <2>1. /\ ~(t <= w - 2) /\ (router.held[s] = 0 \/ t <= router.held[s]) /\ bars' = bars
        /\ router'.held[s] = IF t >= router.held[s] THEN t ELSE router.held[s]
    BY <1>6, <1>13 DEF PassesNothing
  <2>2. BarsGapless' /\ OutGrows
    BY <1>3, <1>9, <2>1 DEF BarsGapless, Out, Passed, Base
  <2>3. router.held[s] <= router'.held[s] /\ t <= router'.held[s]
    BY ONLY <1>5, <1>8, <2>1, s \in Names
  <2>4. Routed(s, t)'
    BY <2>3 DEF Routed
  <2>5. router'.held[s] = router.held[s] \/ Out(s, router.held[s] - 1)'
    <3>1. CASE router.held[s] # 0
      <4>1. router'.held[s] = router.held[s]
        BY <1>5, <1>8, <2>1, <3>1
      <4> QED
        BY <4>1
    <3>2. CASE router.held[s] = 0
      <4>1. router'.held[s] = t
        BY <1>5, <2>1, <3>2
      <4>2. Routed(s, t - 1)
        BY <1>7, <2>1 DEF Ready
      <4>3. CASE Out(s, t - 1)
        <5>1. Out(s, t - 1)'
          BY <2>2, <4>3
        <5>2. t - 1 = router'.held[s] - 1
          BY <4>1
        <5> QED
          BY <5>1, <5>2
      <4>4. CASE t - 1 <= router.held[s]
        <5>1. t - 1 <= 0 /\ Base(s)' \in Int /\ Base(s)' >= 0
          BY <1>0, <1>3, <3>2, <4>4, BaseFacts DEF Base
        <5>2. router'.held[s] - 1 <= Base(s)'
          BY ONLY <1>5, <4>1, <5>1
        <5> QED
          BY <5>2 DEF Out, Passed
      <4> QED
        BY <4>2, <4>3, <4>4 DEF Routed
    <3> QED
      BY <3>1, <3>2
  <2> QED
    BY <1>2, <1>4, <1>10, <2>1, <2>2, <2>3, <2>4, <2>5
<1> QED
  BY <1>1, <1>11, <1>12, <1>13

NumberedRight == \A s \in Names : \A k \in 1 .. Len(emitted[s]) : emitted[s][k] = FromTime + k - 1

LEMMA BaseCounts ==
  ASSUME TypeOK, EmittedRight, NumberedRight, NEW s \in Names
  PROVE  Base(s) = FromTime - 1 + Len(emitted[s]) /\ Len(emitted[s]) \in Nat
<1>1. PICK q \in Seq(1 .. MaxNow) : q = emitted[s]
  BY SessionFacts
<1>2. lastEmitted[s] = IF q = << >> THEN 0 ELSE q[Len(q)]
  BY <1>1 DEF EmittedRight
<1>3. Len(q) \in Nat /\ FromTime \in Int /\ FromTime >= 1
  BY <1>1, LenProperties, Constants
<1>4. CASE q = << >>
  <2>1. Len(q) = 0 /\ lastEmitted[s] = 0
    BY <1>2, <1>4
  <2> QED
    BY <1>1, <1>3, <2>1 DEF Base
<1>5. CASE q # << >>
  <2>1. Len(q) \in 1 .. Len(q)
    BY <1>1, <1>3, <1>5, EmptySeq
  <2>2. q[Len(q)] = FromTime + Len(q) - 1
    BY <1>1, <2>1 DEF NumberedRight
  <2>3. lastEmitted[s] = FromTime + Len(q) - 1 /\ lastEmitted[s] # 0
    BY <1>2, <1>3, <1>5, <2>1, <2>2
  <2>4. Base(s) = lastEmitted[s]
    BY <2>3 DEF Base
  <2> QED
    BY <1>1, <1>3, <2>3, <2>4
<1> QED
  BY <1>4, <1>5

(* The bar that is emitted is the next one.                                *)
LEMMA NextEmitted ==
  ASSUME IInv, NumberedRight, NEW s \in Names, NEW t \in 1 .. MaxNow, Recent(t), Emits(s, t),
         t - 1 <= Base(s)
  PROVE  /\ t = Base(s) + 1 /\ Base(s)' = t /\ \A z \in Names \ {s} : Base(z)' = Base(z)
         /\ NumberedRight'
<1>1. TypeOK /\ PlanRight /\ EmittedRight
  BY DEF IInv
<1>2. /\ lastEmitted'[s] = t /\ \A z \in Names \ {s} : lastEmitted'[z] = lastEmitted[z]
      /\ emitted'[s] = Append(emitted[s], t)
      /\ \A z \in Names \ {s} : emitted'[z] = emitted[z]
      /\ t > lastEmitted[s]
  BY <1>1, EmitFacts
<1>3. t = Base(s) + 1
  <2>1. Base(s) \in Int /\ t \in Int /\ t > Base(s)
    BY <1>1, <1>2, BaseFacts, Constants
  <2> QED
    BY ONLY <2>1, t - 1 <= Base(s)
<1>4. Base(s)' = t /\ \A z \in Names \ {s} : Base(z)' = Base(z)
  BY <1>2, Constants DEF Base
<1>5. NumberedRight'
  <2> SUFFICES ASSUME NEW z \in Names, NEW k \in 1 .. Len(emitted'[z])
               PROVE  emitted'[z][k] = FromTime + k - 1
    BY DEF NumberedRight
  <2>1. CASE z # s
    BY <1>2, <2>1 DEF NumberedRight
  <2>2. CASE z = s
    <3>1. PICK q \in Seq(1 .. MaxNow), n \in Nat : q = emitted[s] /\ n = Len(q)
      BY <1>1, SessionFacts, LenProperties
    <3>2. /\ Len(emitted'[s]) = n + 1 /\ emitted'[s][n + 1] = t
          /\ \A j \in 1 .. n : emitted'[s][j] = emitted[s][j]
      BY <1>2, <3>1, PushSeq
    <3>3. CASE k \in 1 .. n
      BY <2>2, <3>1, <3>2, <3>3 DEF NumberedRight
    <3>4. CASE k = n + 1
      <4>1. Base(s) = FromTime - 1 + n /\ FromTime \in Int
        BY <1>1, <3>1, BaseCounts, Constants
      <4>2. t = FromTime + k - 1
        BY ONLY <1>3, <3>1, <3>4, <4>1
      <4> QED
        BY <2>2, <3>2, <3>4, <4>2
    <3> QED
      BY <2>2, <3>1, <3>2, <3>3, <3>4
  <2> QED
    BY <2>1, <2>2
<1> QED
  BY <1>3, <1>4, <1>5

(* A bar taken or flushed.  What has passed is emitted or buffered still.  *)
Keeps == /\ PendingGapless' /\ NumberedRight'
         /\ \A z \in Names : Base(z) <= Base(z)'
         /\ \A z \in Names : \A u \in pending[z] : u <= Base(z)' \/ u \in pending'[z]

LEMMA KeepsPassed ==
  ASSUME TypeOK, TypeOK', PlanRight, PlanRight', Keeps, NEW z \in Names, NEW x \in Int,
         x <= Base(z) \/ \E u \in pending[z] : x <= u
  PROVE  x <= Base(z)' \/ \E u \in pending'[z] : x <= u
<1>1. Base(z) \in Int /\ Base(z)' \in Int /\ Base(z) <= Base(z)'
  <2>1. Base(z) \in Int
    BY BaseFacts
  <2>2. lastEmitted'[z] \in 0 .. MaxNow
    BY DEF TypeOK
  <2>3. Base(z)' \in Int
    BY <2>2, Constants DEF Base
  <2> QED
    BY <2>1, <2>3 DEF Keeps
<1>2. CASE x <= Base(z)
  BY ONLY <1>1, <1>2, x \in Int
<1>3. CASE \E u \in pending[z] : x <= u
  <2>1. PICK u \in pending[z] : x <= u
    BY <1>3
  <2>2. u \in Int
    BY SessionFacts, Constants
  <2>3. u <= Base(z)' \/ u \in pending'[z]
    BY DEF Keeps
  <2> QED
    BY ONLY <1>1, <2>1, <2>2, <2>3, x \in Int
<1> QED
  BY <1>2, <1>3

LEMMA KeepsTaken ==
  ASSUME IInv, NoneMissing, NEW s \in Names, NEW t \in 1 .. MaxNow, Recent(t),
         t - 1 <= Base(s) \/ \E u \in pending[s] : t - 1 <= u,
         TakeBuffers(s, t) \/ TakeEmits(s, t) \/ TakeDrops(s, t), losses' = {}
  PROVE  /\ Keeps /\ losses = {}
         /\ t <= Base(s)' \/ t \in pending'[s]
<1>1. TypeOK /\ PlanRight /\ PendingGapless /\ NumberedRight
  BY DEF IInv, NoneMissing, NumberedRight
<1>2. \A z \in Names : Base(z) \in Int /\ pending[z] \subseteq Int
  BY <1>1, BaseFacts, SessionFacts, Constants
<1>3. t \in Int
  BY Constants
<1>4. CASE TakeBuffers(s, t)
  <2>1. /\ pending'[s] = pending[s] \cup {t} /\ \A z \in Names \ {s} : pending'[z] = pending[z]
        /\ UNCHANGED <<lastEmitted, emitted, losses>>
    BY <1>1, <1>4, SessionFacts DEF TakeBuffers
  <2>2. \A z : Base(z)' = Base(z)
    BY <2>1 DEF Base
  <2>3. PendingGapless'
    <3> SUFFICES ASSUME NEW z \in Names, NEW u \in pending'[z], NEW v \in Base(z) + 1 .. u
                 PROVE  v \in pending'[z]
      BY <2>2 DEF PendingGapless
    <3>1. CASE u \in pending[z]
      BY <1>1, <2>1, <3>1 DEF PendingGapless
    <3>2. CASE u \notin pending[z]
      <4>1. z = s /\ u = t
        BY <2>1, <3>2
      <4>2. CASE v = t
        BY <2>1, <4>1, <4>2
      <4>3. CASE v # t
        <5>1. v \in Int /\ v <= t - 1 /\ v >= Base(s) + 1
          BY ONLY <1>2, <1>3, <4>1, <4>3, v \in Base(z) + 1 .. u, z \in Names
        <5>2. ~(t - 1 <= Base(s))
          BY ONLY <1>2, <1>3, <5>1, s \in Names
        <5>3. PICK p \in pending[s] : t - 1 <= p
          BY <5>2
        <5>4. v \in Base(s) + 1 .. p
          BY ONLY <1>2, <1>3, <5>1, <5>3, s \in Names
        <5>5. v \in pending[s]
          BY <1>1, <5>4 DEF PendingGapless
        <5> QED
          BY <2>1, <4>1, <5>5
      <4> QED
        BY <4>2, <4>3
    <3> QED
      BY <3>1, <3>2
  <2>4. NumberedRight' /\ losses = {}
    BY <1>1, <2>1 DEF NumberedRight
  <2>5. \A z \in Names : Base(z) <= Base(z)'
    BY <1>2, <2>2
  <2>6. \A z \in Names : \A u \in pending[z] : u \in pending'[z]
    BY <2>1
  <2> QED
    BY <2>1, <2>3, <2>4, <2>5, <2>6 DEF Keeps
<1>5. CASE TakeEmits(s, t)
  <2>1. Emits(s, t) /\ pending' = pending /\ losses = {} /\ pending[s] = {}
    BY <1>5 DEF TakeEmits
  <2>2. /\ t = Base(s) + 1 /\ Base(s)' = t /\ \A z \in Names \ {s} : Base(z)' = Base(z)
        /\ NumberedRight'
    BY <1>1, <2>1, NextEmitted
  <2>3. PendingGapless'
    <3> SUFFICES ASSUME NEW z \in Names, NEW u \in pending[z], NEW v \in Base(z)' + 1 .. u
                 PROVE  v \in pending[z]
      BY <2>1 DEF PendingGapless
    <3>1. z # s
      BY <2>1
    <3> QED
      BY <1>1, <2>2, <3>1 DEF PendingGapless
  <2>4. \A z \in Names : Base(z) <= Base(z)'
    BY <1>2, <2>2
  <2>5. t <= Base(s)'
    BY <1>3, <2>2
  <2> QED
    BY <2>1, <2>2, <2>3, <2>4, <2>5 DEF Keeps
<1>6. CASE TakeDrops(s, t)
  <2>1. t <= lastEmitted[s] /\ UNCHANGED <<lastEmitted, emitted, pending, losses>>
    BY <1>6 DEF TakeDrops, Drops
  <2>2. \A z : Base(z)' = Base(z)
    BY <2>1 DEF Base
  <2>3. PendingGapless' /\ NumberedRight' /\ losses = {}
    BY <1>1, <2>1, <2>2 DEF PendingGapless, NumberedRight
  <2>4. \A z \in Names : Base(z) <= Base(z)'
    BY <1>2, <2>2
  <2>5. t <= Base(s)'
    <3>1. lastEmitted[s] \in Int /\ lastEmitted[s] <= Base(s)
      BY <1>1, BaseFacts, Constants
    <3>2. t <= Base(s)
      BY ONLY <1>2, <1>3, <2>1, <3>1, s \in Names
    <3> QED
      BY <2>2, <3>2
  <2> QED
    BY <2>1, <2>3, <2>4, <2>5 DEF Keeps
<1> QED
  BY <1>4, <1>5, <1>6

LEMMA KeepsFlushed ==
  ASSUME IInv, NoneMissing, NEW s \in Names, NEW t \in pending[s], FlushBar(s, t)
  PROVE  Keeps
<1>1. /\ TypeOK /\ PlanRight /\ BarsRecent /\ PendingGapless /\ NumberedRight
  BY DEF IInv, NoneMissing, NumberedRight
<1>2. /\ t \in 1 .. MaxNow /\ Earliest(s, t) /\ pending' = [pending EXCEPT ![s] = @ \ {t}]
      /\ Emits(s, t) \/ Drops(s, t)
  BY <1>1, FlushBarFacts
<1>3. pending'[s] = pending[s] \ {t} /\ \A z \in Names \ {s} : pending'[z] = pending[z]
  BY <1>1, <1>2, SessionFacts
<1>4. \A z \in Names : Base(z) \in Int /\ pending[z] \subseteq Int
  BY <1>1, BaseFacts, SessionFacts, Constants
<1>5. t \in Int /\ Recent(t)
  BY <1>1, <1>4 DEF BarsRecent
<1>6. CASE Emits(s, t)
  <2>1. t - 1 <= Base(s)
    <3>1. CASE Base(s) + 1 <= t
      <4>1. Base(s) + 1 \in Base(s) + 1 .. t
        BY ONLY <1>4, <1>5, <3>1, s \in Names
      <4>2. Base(s) + 1 \in pending[s]
        BY <1>1, <4>1 DEF PendingGapless
      <4>3. t <= Base(s) + 1
        BY <1>2, <4>2 DEF Earliest
      <4> QED
        BY ONLY <1>4, <1>5, <4>3, s \in Names
    <3>2. CASE ~(Base(s) + 1 <= t)
      BY ONLY <1>4, <1>5, <3>2, s \in Names
    <3> QED
      BY <3>1, <3>2
  <2>2. /\ t = Base(s) + 1 /\ Base(s)' = t /\ \A z \in Names \ {s} : Base(z)' = Base(z)
        /\ NumberedRight'
    BY <1>1, <1>2, <1>5, <1>6, <2>1, NextEmitted
  <2>3. PendingGapless'
    <3> SUFFICES ASSUME NEW z \in Names, NEW u \in pending'[z], NEW v \in Base(z)' + 1 .. u
                 PROVE  v \in pending'[z]
      BY DEF PendingGapless
    <3>1. CASE z = s
      <4>1. u \in pending[s] /\ v \in Base(s) + 1 .. u /\ v # t
        <5>1. u \in pending[s] /\ u \in Int /\ v \in t + 1 .. u
          BY <1>3, <1>4, <2>2, <3>1
        <5> QED
          BY ONLY <1>4, <1>5, <2>2, <5>1, s \in Names
      <4>2. v \in pending[s]
        BY <1>1, <4>1 DEF PendingGapless
      <4> QED
        BY <1>3, <3>1, <4>1, <4>2
    <3>2. CASE z # s
      BY <1>1, <1>3, <2>2, <3>2 DEF PendingGapless
    <3> QED
      BY <3>1, <3>2
  <2>4. \A z \in Names : Base(z) <= Base(z)'
    BY <1>4, <2>2
  <2>5. t <= Base(s)'
    BY <1>5, <2>2
  <2>6. \A z \in Names : \A u \in pending[z] : u <= Base(z)' \/ u \in pending'[z]
    BY <1>3, <2>5
  <2> QED
    BY <2>2, <2>3, <2>4, <2>6 DEF Keeps
<1>7. CASE Drops(s, t)
  <2>1. t <= lastEmitted[s] /\ UNCHANGED <<lastEmitted, emitted>>
    BY <1>7 DEF Drops
  <2>2. \A z : Base(z)' = Base(z)
    BY <2>1 DEF Base
  <2>3. t <= Base(s)
    <3>1. lastEmitted[s] \in Int /\ lastEmitted[s] <= Base(s)
      BY <1>1, BaseFacts, Constants
    <3> QED
      BY ONLY <1>4, <1>5, <2>1, <3>1, s \in Names
  <2>4. PendingGapless'
    <3> SUFFICES ASSUME NEW z \in Names, NEW u \in pending'[z], NEW v \in Base(z) + 1 .. u
                 PROVE  v \in pending'[z]
      BY <2>2 DEF PendingGapless
    <3>1. u \in pending[z] /\ v \in pending[z]
      BY <1>1, <1>3 DEF PendingGapless
    <3>2. z = s => v # t
      <4>1. ASSUME z = s PROVE v > t
        BY ONLY <1>4, <1>5, <2>3, <3>1, <4>1, v \in Base(z) + 1 .. u, s \in Names
      <4> QED
        BY <1>5, <4>1
    <3> QED
      BY <1>3, <3>1, <3>2
  <2>5. NumberedRight'
    BY <1>1, <2>1 DEF NumberedRight
  <2>6. \A z \in Names : Base(z) <= Base(z)'
    BY <1>4, <2>2
  <2>7. \A z \in Names : \A u \in pending[z] : u <= Base(z)' \/ u \in pending'[z]
    BY <1>3, <2>2, <2>3
  <2> QED
    BY <2>4, <2>5, <2>6, <2>7 DEF Keeps
<1> QED
  BY <1>2, <1>6, <1>7

(* What the bar task leaves of its queue and of the held bars.             *)
LEMMA KeepsOut ==
  ASSUME TypeOK, TypeOK', PlanRight, PlanRight', Keeps, BarsGapless, HeldGapless, router' = router,
         NEW d \in {0, 1}, Len(bars) \in Nat, Len(bars) >= d, Len(bars') = Len(bars) - d,
         \A k \in 1 .. Len(bars) - d : bars'[k] = bars[k + d],
         d = 1 => \A s \in Names, x \in Int : bars[1].sym = s /\ x <= bars[1].t =>
                    \/ x <= Base(s)'
                    \/ \E u \in pending'[s] : x <= u
  PROVE  /\ BarsGapless' /\ HeldGapless'
         /\ \A s \in Names, x \in Int : Out(s, x) => Out(s, x)'
<1>1. PICK n \in Nat : n = Len(bars)
  OBVIOUS
<1>2. n >= d /\ Len(bars') = n - d /\ \A k \in 1 .. n - d : bars'[k] = bars[k + d]
  BY <1>1
<1>3. d \in Nat
  OBVIOUS
<1>4. ASSUME NEW s \in Names, NEW x \in Int, NEW i \in d .. n, Passed(s, x, i)
      PROVE  Passed(s, x, i - d)'
  <2>1. CASE x <= Base(s) \/ \E u \in pending[s] : x <= u
    BY <2>1, KeepsPassed DEF Passed
  <2>2. CASE \E j \in 1 .. i : bars[j].sym = s /\ x <= bars[j].t
    <3>1. PICK j \in 1 .. i : bars[j].sym = s /\ x <= bars[j].t
      BY <2>2
    <3>2. CASE j <= d
      <4>1. j = 1 /\ d = 1
        BY ONLY <3>2, d \in {0, 1}, j \in 1 .. i, i \in d .. n, n \in Nat
      <4>2. x <= Base(s)' \/ \E u \in pending'[s] : x <= u
        BY <3>1, <4>1
      <4> QED
        BY <4>2 DEF Passed
    <3>3. CASE j > d
      <4>1. PICK k \in 1 .. (i - d) : j = k + d
        <5>1. j - d \in 1 .. (i - d) /\ j = (j - d) + d
          BY ONLY <1>3, <3>3, j \in 1 .. i, i \in d .. n, n \in Nat
        <5> QED
          BY ONLY <5>1
      <4>2. k \in 1 .. n - d
        BY ONLY <1>3, k \in 1 .. (i - d), i \in d .. n, n \in Nat
      <4>3. bars'[k] = bars[j]
        BY <1>2, <4>1, <4>2
      <4> QED
        BY <3>1, <4>3 DEF Passed
    <3> QED
      BY <1>3, <3>2, <3>3
  <2> QED
    BY <1>4, <2>1, <2>2 DEF Passed
<1>5. \A s \in Names, x \in Int : Out(s, x) => Out(s, x)'
  <2> SUFFICES ASSUME NEW s \in Names, NEW x \in Int, Out(s, x)
               PROVE  Out(s, x)'
    OBVIOUS
  <2>1. n \in d .. n /\ Passed(s, x, n)
    BY <1>1, <1>2, <1>3 DEF Out
  <2>2. Passed(s, x, n - d)'
    BY <1>4, <2>1
  <2>3. PICK m \in Int : m = n - d
    <3>1. n - d \in Int
      BY ONLY <1>1, <1>3
    <3> QED
      BY ONLY <3>1
  <2>4. Passed(s, x, m)' /\ m = Len(bars')
    BY <1>2, <2>2, <2>3
  <2> QED
    BY <2>4 DEF Out
<1>6. BarsGapless'
  <2> SUFFICES ASSUME NEW i \in 1 .. n - d
               PROVE  Passed(bars[i].sym, bars[i].t - 1, i - 1)'
    BY <1>2 DEF BarsGapless
  <2>1. i + d \in 1 .. n /\ i + d - 1 \in d .. n /\ i + d - 1 - d = i - 1
    BY ONLY <1>3, i \in 1 .. n - d, n \in Nat
  <2>2. bars[i + d] \in BarEvents
    BY <1>1, <2>1, SessionFacts, ElementOfSeq
  <2>3. bars[i + d].sym \in Names /\ bars[i + d].t - 1 \in Int
    BY <2>2, Constants DEF BarEvents
  <2>4. PICK s \in Names, x \in Int : s = bars[i + d].sym /\ x = bars[i + d].t - 1
    BY <2>3
  <2>5. Passed(s, x, i + d - 1)
    BY <1>1, <2>1, <2>4 DEF BarsGapless
  <2>6. Passed(s, x, i + d - 1 - d)'
    BY <1>4, <2>1, <2>5
  <2>7. Passed(s, x, i - 1)'
    BY <2>1, <2>6
  <2>8. s = bars'[i].sym /\ x = bars'[i].t - 1
    BY <1>2, <2>4
  <2> QED
    BY <2>7, <2>8
<1>7. HeldGapless'
  <2> SUFFICES ASSUME NEW s \in Names, router.held[s] # 0
               PROVE  Out(s, router.held[s] - 1)'
    BY DEF HeldGapless
  <2>1. PICK x \in Int : x = router.held[s] - 1
    <3>1. router.held[s] \in Int
      BY SessionFacts, Constants DEF Routers
    <3> QED
      BY ONLY <3>1
  <2>2. Out(s, x)'
    BY <1>5, <2>1 DEF HeldGapless
  <2>3. x = router'.held[s] - 1
    BY <2>1
  <2> QED
    BY <2>2, <2>3
<1> QED
  BY <1>5, <1>6, <1>7

LEMMA GapTakeBar ==
  ASSUME IInv, IInv', NoneMissing, TakeBar, losses' = {}
  PROVE  /\ PendingGapless' /\ NumberedRight' /\ BarsGapless' /\ HeldGapless' /\ losses = {}
         /\ \A s \in Names, x \in Int : Out(s, x) => Out(s, x)'
<1>1. TypeOK /\ TypeOK' /\ PlanRight /\ PlanRight' /\ BarsRecent /\ BarsGapless /\ HeldGapless
  BY DEF IInv, NoneMissing
<1>2. /\ bars' = Tail(bars) /\ Len(bars) \in Nat /\ Len(bars) >= 1 /\ Len(bars') = Len(bars) - 1
      /\ \A k \in 1 .. Len(bars) - 1 : bars'[k] = bars[k + 1]
  BY <1>1, TakeBarFacts
<1>3. PICK s \in Names, t \in 1 .. MaxNow :
        /\ bars # << >> /\ bars[1].sym = s /\ bars[1].t = t
        /\ TakeBuffers(s, t) \/ TakeEmits(s, t) \/ TakeDrops(s, t)
  BY <1>1, TakeBarFacts
<1>4. 1 \in 1 .. Len(bars)
  BY ONLY <1>2
<1>5. Recent(t)
  BY <1>1, <1>3, <1>4 DEF BarsRecent
<1>6. t - 1 <= Base(s) \/ \E u \in pending[s] : t - 1 <= u
  <2>1. Passed(bars[1].sym, bars[1].t - 1, 1 - 1)
    BY <1>1, <1>4 DEF BarsGapless
  <2>2. Passed(s, t - 1, 1 - 1)
    BY <1>3, <2>1
  <2> QED
    BY <2>2 DEF Passed
<1>7. Keeps /\ losses = {} /\ (t <= Base(s)' \/ t \in pending'[s])
  BY <1>3, <1>5, <1>6, KeepsTaken
<1>8. \A x \in Int : x <= bars[1].t => \/ x <= Base(s)'
                                       \/ \E u \in pending'[s] : x <= u
  <2>1. Base(s)' \in Int /\ t \in Int
    <3>1. lastEmitted'[s] \in 0 .. MaxNow
      BY <1>1 DEF TypeOK
    <3> QED
      BY <3>1, Constants DEF Base
  <2> QED
    BY <1>3, <1>7, <2>1
<1>9. router' = router
  BY DEF TakeBar
<1>10. /\ BarsGapless' /\ HeldGapless'
       /\ \A z \in Names, x \in Int : Out(z, x) => Out(z, x)'
  <2>1. \A z \in Names, x \in Int : bars[1].sym = z /\ x <= bars[1].t =>
          \/ x <= Base(z)'
          \/ \E u \in pending'[z] : x <= u
    BY <1>3, <1>8
  <2> QED
    BY <1>1, <1>2, <1>7, <1>9, <2>1, KeepsOut
<1> QED
  BY <1>7, <1>10 DEF Keeps

LEMMA GapFlush ==
  ASSUME IInv, IInv', NoneMissing, FlushSome, losses' = {}
  PROVE  /\ PendingGapless' /\ NumberedRight' /\ BarsGapless' /\ HeldGapless' /\ losses = {}
         /\ \A s \in Names, x \in Int : Out(s, x) => Out(s, x)'
<1>1. TypeOK /\ TypeOK' /\ PlanRight /\ PlanRight' /\ BarsGapless /\ HeldGapless
  BY DEF IInv, NoneMissing
<1>2. PICK s \in Names : \E t \in pending[s] : FlushBar(s, t)
  BY DEF FlushSome
<1>3. PICK t \in pending[s] : FlushBar(s, t)
  BY <1>2
<1>4. Keeps
  BY <1>3, KeepsFlushed
<1>5. UNCHANGED <<losses, bars, router>>
  BY <1>3 DEF FlushBar, queues
<1>6. Len(bars) \in Nat /\ Len(bars) >= 0 /\ Len(bars') = Len(bars) - 0
      /\ \A k \in 1 .. Len(bars) - 0 : bars'[k] = bars[k + 0]
  <2>1. Len(bars) \in Nat
    BY <1>1, SessionFacts, LenProperties
  <2> QED
    BY <1>5, <2>1
<1>7. BarsGapless' /\ HeldGapless' /\ \A z \in Names, x \in Int : Out(z, x) => Out(z, x)'
  <2>1. PICK d \in {0, 1} : d = 0
    OBVIOUS
  <2>2. Len(bars) >= d /\ Len(bars') = Len(bars) - d
        /\ \A k \in 1 .. Len(bars) - d : bars'[k] = bars[k + d]
    BY ONLY <1>6, <2>1
  <2>3. d # 1
    BY <2>1
  <2> QED
    BY <1>1, <1>4, <1>5, <1>6, <2>2, <2>3, KeepsOut
<1> QED
  BY <1>4, <1>5, <1>7 DEF Keeps

(* Nothing is emitted, buffered or held.                                   *)
LEMMA GapStays ==
  ASSUME NoneMissing, UNCHANGED <<pending, lastEmitted, emitted, bars>>,
         router'.held = router.held
  PROVE  /\ PendingGapless' /\ NumberedRight' /\ BarsGapless' /\ HeldGapless'
         /\ \A s, t, w : Ready(s, t, w)' <=> Ready(s, t, w)
<1>1. PendingGapless' /\ NumberedRight'
  BY DEF NoneMissing, PendingGapless, Base, NumberedRight
<1>2. BarsGapless'
  BY DEF NoneMissing, BarsGapless, Passed, Base
<1>3. \A s, t : Out(s, t)' <=> Out(s, t)
  BY DEF Out, Passed, Base
<1>4. HeldGapless'
  BY DEF NoneMissing, HeldGapless, Out, Passed, Base
<1>5. \A s, t, w : Ready(s, t, w)' <=> Ready(s, t, w)
  BY <1>3 DEF Ready, Routed
<1> QED
  BY <1>1, <1>2, <1>4, <1>5

LEMMA EventTaskHistory ==
  ASSUME TypeOK, EventTask, HistoryAsked
  PROVE  HistoryAsked'
<1>1. events # << >> /\ events' = Tail(events) /\ router' = router
  BY DEF EventTask, OnReconnecting, OnConn, OnSubscribed, OnAck, OnStats, OnRaw, Take, queues
<1>2. /\ Head(events) = events[1] /\ events[1] \in Events /\ 1 \in 1 .. Len(events)
      /\ Len(events') = Len(events) - 1 /\ \A k \in 1 .. Len(events) - 1 : events'[k] = events[k + 1]
      /\ Len(events) \in Nat
  BY <1>1, PopSeq, HubFacts
<1>3. \A k \in 1 .. Len(events') : events'[k].kind = "subscribed" => events'[k].origin # "Live"
  BY <1>2 DEF HistoryAsked
<1>4. \A k \in 1 .. Len(wallclocks') : wallclocks'[k].origin # "Live"
  <2>1. CASE OnSubscribed /\ OfCurrent
    <3>1. /\ events[1].kind = "subscribed"
          /\ wallclocks' = Append(wallclocks, [wallclock |-> events[1].wallclock,
                                               origin |-> events[1].origin])
      BY <1>2, <2>1 DEF OnSubscribed, Take
    <3>2. events[1].origin # "Live" /\ events[1].origin \in Origins /\ events[1].wallclock \in 0 .. MaxNow
      BY <1>2, <3>1, EventFacts DEF HistoryAsked
    <3>3. PICK e \in Wallclocks : e = [wallclock |-> events[1].wallclock, origin |-> events[1].origin]
      BY <3>2 DEF Wallclocks
    <3>4. e.origin # "Live" /\ wallclocks' = Append(wallclocks, e)
      BY <3>1, <3>2, <3>3
    <3>5. PICK n \in Nat : n = Len(wallclocks)
      BY SessionFacts, LenProperties
    <3>6. /\ Len(wallclocks') = n + 1 /\ wallclocks'[n + 1] = e
          /\ \A k \in 1 .. n : wallclocks'[k] = wallclocks[k]
      BY <3>4, <3>5, SessionFacts, PushSeq
    <3> SUFFICES ASSUME NEW k \in 1 .. n + 1
                 PROVE  wallclocks'[k].origin # "Live"
      BY <3>6
    <3>7. CASE k \in 1 .. n
      BY <3>5, <3>6, <3>7 DEF HistoryAsked
    <3>8. CASE k = n + 1
      BY <3>4, <3>6, <3>8
    <3> QED
      BY <3>5, <3>7, <3>8
  <2>2. CASE ~(OnSubscribed /\ OfCurrent)
    <3>1. wallclocks' = wallclocks
      BY <2>2 DEF EventTask, OnReconnecting, OnConn, OnSubscribed, OnAck, OnStats, OnRaw, queues
    <3> QED
      BY <3>1 DEF HistoryAsked
  <2> QED
    BY <2>1, <2>2
<1> QED
  BY <1>1, <1>3, <1>4 DEF HistoryAsked

LEMMA HistoryStays ==
  ASSUME HistoryAsked, router'.origin = router.origin, UNCHANGED <<wallclocks, events>>
  PROVE  HistoryAsked'
  BY DEF HistoryAsked

LEMMA GapSession ==
  ASSUME IInv, IInv', NoneMissing, SessionSide, losses' = {}
  PROVE  NoneMissing' /\ losses = {}
<1>1. TypeOK /\ TypeOK' /\ GuidsRight /\ GenerationsRight /\ PlanRight
  BY DEF IInv
<1>2. QueuesGapless /\ HistoryAsked
  BY DEF NoneMissing, QueuesGapless, WireRight
<1>3. PendingGapless' /\ NumberedRight' /\ BarsGapless' /\ HeldGapless' /\ QueuesGapless' /\ HistoryAsked'
        => NoneMissing'
  BY DEF NoneMissing, QueuesGapless, WireRight, NumberedRight
<1>4. CASE EventTask
  <2>1. UNCHANGED <<router, bars, pending, lastEmitted, emitted>>
    BY <1>1, <1>4, EventTaskTypes DEF barVars
  <2>2. /\ PendingGapless' /\ NumberedRight' /\ BarsGapless' /\ HeldGapless'
        /\ \A s, t, w : Ready(s, t, w)' <=> Ready(s, t, w)
    BY <2>1, GapStays
  <2>3. events # << >> /\ events' = Tail(events) /\ losses = {} /\ (TakesRaw \/ TakesOther)
    BY <1>1, <1>4, EventTaskRaw
  <2>4. QueuesGapless'
    BY <1>1, <1>2, <2>2, <2>3, QueuesTaken
  <2>5. HistoryAsked'
    BY <1>1, <1>2, <1>4, EventTaskHistory
  <2> QED
    BY <1>3, <2>2, <2>3, <2>4, <2>5
<1>5. CASE RouterCommand
  <2>1. UNCHANGED <<raw, events, bars, pending, lastEmitted, emitted, losses>>
    BY <1>5 DEF RouterCommand, hubVars, barVars
  <2>2. /\ wallclocks # << >> /\ wallclocks' = Tail(wallclocks)
        /\ router' = [router EXCEPT !.cut = TRUE, !.cutoff = Head(wallclocks).wallclock - 2,
                                    !.origin = Head(wallclocks).origin]
    BY <1>5 DEF RouterCommand
  <2>3. /\ Len(wallclocks) \in Nat /\ Len(wallclocks) >= 1 /\ Head(wallclocks) = wallclocks[1]
        /\ Len(Tail(wallclocks)) = Len(wallclocks) - 1
        /\ \A k \in 1 .. Len(wallclocks) - 1 : Tail(wallclocks)[k] = wallclocks[k + 1]
    BY <1>1, <2>2, SessionFacts, PopSeq
  <2>4. router'.held = router.held /\ router'.origin = Head(wallclocks).origin
    BY <1>1, <2>2, SessionFacts DEF Routers
  <2>5. /\ PendingGapless' /\ NumberedRight' /\ BarsGapless' /\ HeldGapless'
        /\ \A s, t, w : Ready(s, t, w)' <=> Ready(s, t, w)
    BY <2>1, <2>4, GapStays
  <2>6. QueuesGapless'
    BY <1>1, <1>2, <2>1, <2>5, QueuesStay
  <2>7. HistoryAsked'
    BY <1>2, <2>1, <2>2, <2>3, <2>4 DEF HistoryAsked
  <2> QED
    BY <1>3, <2>1, <2>5, <2>6, <2>7
<1>6. CASE RouteAuthError
  <2>1. /\ UNCHANGED <<router, wallclocks, events, bars, pending, lastEmitted, emitted, losses>>
        /\ raw # << >> /\ raw' = Tail(raw) /\ Head(raw).msg.what = "auth"
    BY <1>6 DEF RouteAuthError, barVars
  <2>2. /\ PendingGapless' /\ NumberedRight' /\ BarsGapless' /\ HeldGapless'
        /\ \A s, t, w : Ready(s, t, w)' <=> Ready(s, t, w)
    BY <2>1, GapStays
  <2>3. \A s, t, w : ~RawBar(1, s, t, w)
    BY <1>1, <2>1, RawHead DEF RawBar, IsBar
  <2>4. QueuesGapless'
    BY <1>1, <1>2, <2>1, <2>2, <2>3, QueuesRouted
  <2>5. HistoryAsked'
    BY <1>2, <2>1, HistoryStays
  <2> QED
    BY <1>3, <2>1, <2>2, <2>4, <2>5
<1>7. CASE RouteBar
  <2>1. /\ PendingGapless' /\ BarsGapless' /\ HeldGapless'
        /\ \A s \in Names : /\ router.held[s] <= router'.held[s]
                            /\ \A x \in Int : Out(s, x) => Out(s, x)'
        /\ \A s \in Names, t \in Int, w \in Int : RawBar(1, s, t - 1, w) => Ready(s, t, w)'
        /\ raw # << >> /\ raw' = Tail(raw) /\ router'.origin = router.origin /\ losses = {}
    BY <1>7, GapRouteBar
  <2>2. UNCHANGED <<events, wallclocks, emitted>>
    BY <1>7 DEF RouteBar, hubVars, barVars
  <2>3. \A s \in Names, t \in Int, w \in Int : Ready(s, t, w) => Ready(s, t, w)'
    BY <1>1, <2>1, ReadyMoves
  <2>4. QueuesGapless'
    BY <1>1, <1>2, <2>1, <2>2, <2>3, QueuesRouted
  <2>5. HistoryAsked' /\ NumberedRight'
    BY <1>2, <2>1, <2>2, HistoryStays DEF NoneMissing, NumberedRight
  <2> QED
    BY <1>3, <2>1, <2>4, <2>5
<1>8. CASE TakeBar \/ FlushSome
  <2>1. /\ PendingGapless' /\ NumberedRight' /\ BarsGapless' /\ HeldGapless' /\ losses = {}
        /\ \A s \in Names, x \in Int : Out(s, x) => Out(s, x)'
    BY <1>8, GapTakeBar, GapFlush
  <2>2. UNCHANGED <<events, wallclocks, raw, router>>
    BY <1>8 DEF TakeBar, FlushSome, FlushBar, hubVars, queues
  <2>3. \A s \in Names : router.held[s] <= router'.held[s]
    BY <1>1, <2>2, SessionFacts, Constants DEF Routers
  <2>4. \A s \in Names, t \in Int, w \in Int : Ready(s, t, w) => Ready(s, t, w)'
    BY <1>1, <2>1, <2>3, ReadyMoves
  <2>5. QueuesGapless'
    BY <1>1, <1>2, <2>2, <2>4, QueuesStay
  <2>6. HistoryAsked'
    BY <1>2, <2>2, HistoryStays
  <2> QED
    BY <1>3, <2>1, <2>5, <2>6
<1>9. CASE OtherStep
  <2>1. UNCHANGED <<raw, wallclocks, router, bars, pending, lastEmitted, emitted, events, losses>>
    BY <1>1, <1>9, OtherFacts
  <2>2. /\ PendingGapless' /\ NumberedRight' /\ BarsGapless' /\ HeldGapless'
        /\ \A s, t, w : Ready(s, t, w)' <=> Ready(s, t, w)
    BY <2>1, GapStays
  <2>3. QueuesGapless'
    BY <1>1, <1>2, <2>1, <2>2, QueuesStay
  <2>4. HistoryAsked'
    BY <1>2, <2>1, HistoryStays
  <2> QED
    BY <1>3, <2>1, <2>2, <2>3, <2>4
<1> QED
  BY <1>4, <1>5, <1>6, <1>7, <1>8, <1>9, SessionSteps

LEMMA GapInit ==
  ASSUME Init
  PROVE  GapInv
<1>1. /\ hub.active = {} /\ hub.pc = "start" /\ raw = << >> /\ bars = << >> /\ events = << >>
      /\ wire = << >> /\ wallclocks = << >> /\ router.origin = "History"
  BY DEF Init, HubInit, SessionInit, Idle
<1>2. \A s \in Names : pending[s] = {} /\ router.held[s] = 0 /\ emitted[s] = << >>
  BY DEF Init, SessionInit
<1>3. \A g : ~Live(g)
  BY <1>1 DEF Live
<1>4. Len(raw) = 0 /\ Len(bars) = 0 /\ Len(events) = 0 /\ Len(wallclocks) = 0
      /\ \A s \in Names : Len(emitted[s]) = 0
  BY <1>1, <1>2
<1>5. PendingGapless /\ BarsGapless /\ HeldGapless /\ RawGapless /\ EventsGapless
  BY <1>2, <1>4 DEF PendingGapless, BarsGapless, HeldGapless, RawGapless, EventsGapless
<1>6. WireGapless /\ StreamsGapless /\ AckFirst /\ HistoryAsked
  BY <1>1, <1>3, <1>4 DEF WireGapless, StreamsGapless, AckFirst, HistoryAsked
<1> QED
  BY <1>4, <1>5, <1>6 DEF GapInv, NoneMissing

(* A loss is remembered.                                                   *)
LEMMA LossesStay ==
  ASSUME SessionSide, losses' = {}
  PROVE  losses = {}
<1>1. \A x : losses \cup {x} # {}
  OBVIOUS
<1>2. CASE EventTask
  BY <1>1, <1>2 DEF EventTask, OnReconnecting, OnConn, OnSubscribed, OnAck, OnStats, OnRaw
<1>3. CASE RouterTask
  BY <1>1, <1>3 DEF RouterTask, RouterCommand, RouteAuthError, RouteBar
<1>4. CASE BarTask
  BY <1>1, <1>4 DEF BarTask, TakeBar, FinishBar, FlushBar, GoLive
<1>5. CASE Ticker \/ Stop \/ Authorize \/ Unauthorize
  BY <1>5 DEF Ticker, Silence, AskResubscribe, Tick, Stop, Authorize, Unauthorize
<1> QED
  BY <1>2, <1>3, <1>4, <1>5 DEF SessionSide

LEMMA NoneMissingStays ==
  ASSUME NoneMissing, UNCHANGED vars
  PROVE  NoneMissing'
<1> USE DEF vars, hubVars, sessionVars, shared, queues, barVars, tick
<1>1. UNCHANGED <<hub, wire, streams, now, events, raw, wallclocks, router, bars, pending,
                  lastEmitted, emitted>>
  OBVIOUS
<1>2. /\ PendingGapless' /\ NumberedRight' /\ BarsGapless' /\ HeldGapless'
      /\ \A s, t, w : Ready(s, t, w)' <=> Ready(s, t, w)
  BY <1>1, GapStays
<1>3. /\ \A k, s, t, w : RawBar(k, s, t, w)' <=> RawBar(k, s, t, w)
      /\ \A k, s, t, w : EventBar(k, s, t, w)' <=> EventBar(k, s, t, w)
      /\ \A k, g, t : BarOn(k, g, t)' <=> BarOn(k, g, t)
      /\ \A g : Live(g)' <=> Live(g)
  BY <1>1 DEF RawBar, EventBar, IsBar, BarOn, Live, Guid
<1>4. \A s, t, w, i : Behind(s, t, w, i)' <=> Behind(s, t, w, i)
  BY <1>1, <1>2, <1>3 DEF Behind
<1>5. RawGapless'
  BY <1>1, <1>2, <1>3 DEF NoneMissing, RawGapless
<1>6. EventsGapless'
  BY <1>1, <1>3, <1>4 DEF NoneMissing, EventsGapless
<1>7. WireGapless'
  BY <1>1, <1>3, <1>4 DEF NoneMissing, WireGapless
<1>8. StreamsGapless'
  BY <1>1, <1>3, <1>4 DEF NoneMissing, StreamsGapless
<1>9. AckFirst' /\ HistoryAsked'
  BY <1>1 DEF NoneMissing, AckFirst, Guid, HistoryAsked
<1> QED
  BY <1>2, <1>5, <1>6, <1>7, <1>8, <1>9 DEF NoneMissing, NumberedRight

LEMMA GapNext ==
  ASSUME IInv, IInv', GapInv, [Next]_vars
  PROVE  GapInv'
<1> SUFFICES ASSUME losses' = {}, ~SkipHistory
             PROVE  NoneMissing'
  BY DEF GapInv
<1>1. Next => HubSide \/ SessionSide
  BY DEF Next, HubSide, SessionSide
<1>2. CASE HubSide
  <2>1. losses = {}
    BY <1>2 DEF HubSide, sessionVars
  <2> QED
    BY <1>2, <2>1, GapHub DEF GapInv
<1>3. CASE SessionSide
  <2>1. losses = {}
    BY <1>3, LossesStay
  <2> QED
    BY <1>3, <2>1, GapSession DEF GapInv
<1>4. CASE UNCHANGED vars
  <2>1. NoneMissing
    BY <1>4 DEF GapInv, vars, sessionVars
  <2> QED
    BY <1>4, <2>1, NoneMissingStays
<1> QED
  BY <1>1, <1>2, <1>3, <1>4

(* Bars leave in order, and none is missing on the way.                    *)
THEOREM SessionNoBarMissing == Spec => []NoBarMissing
<1>1. Init => IInv /\ GapInv
  BY InvInit, GapInit
<1>2. IInv /\ GapInv /\ [Next]_vars => IInv' /\ GapInv'
  BY InvNext, GapNext
<1>3. IInv /\ GapInv => NoBarMissing
  BY DEF IInv, EmittedRight, GapInv, NoneMissing, NoBarMissing
<1> QED
  BY <1>1, <1>2, <1>3, PTL DEF Spec
=============================================================================
