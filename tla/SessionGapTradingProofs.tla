----------------------- MODULE SessionGapTradingProofs -----------------------
(***************************************************************************)
(* The strategy session_gap_standalone in the runtime: the account is flat *)
(* or holds the one lot, a session has one entry of its own in the life of *)
(* a process, and a strategy at rest that takes itself for flat is: for    *)
(* any bars, windows, timeouts, and any number of commands, order events   *)
(* and restarts.                                                           *)
(*                                                                         *)
(* The invariant Inv has two parts. Base holds always: types, what the     *)
(* memory knows of the bars, times, and which sessions are spent. Core     *)
(* holds as long as every command was sent with certainty (Sure): what the *)
(* phase of the strategy says of the account, of the last command and of   *)
(* the answers and reports that it has not read.                           *)
(***************************************************************************)
EXTENDS SessionGapTrading, FiniteSetTheorems, SequenceTheorems,
        WellFoundedInduction, TLAPS

-----------------------------------------------------------------------------
(* The memory of the strategy.                                             *)

(* The constants, as the proofs use them.                                  *)
LEMMA ConstantParts ==
  /\ Day \in Nat /\ Gap \in Nat /\ CloseAt \in Nat /\ ExitOffset \in Nat /\ MaxEntryAt \in Nat
  /\ AckTimeout \in Nat /\ FillTimeout \in Nat /\ VerifyWindow \in Nat
  /\ MaxCommands \in Nat /\ MaxOrders \in Nat /\ MaxRestarts \in Nat
  /\ NoBar \in Int /\ Past \in SUBSET (0 .. 2)
  /\ Bars \in Seq(Nat) /\ Len(Bars) \in Nat /\ Len(Bars) # 0
  /\ \A i \in 1 .. Len(Bars) : Bars[i] \in Nat
  /\ \A i, j \in 1 .. Len(Bars) : i < j => Bars[i] < Bars[j]
  /\ NoBar < Bars[1] - Gap
BY SessionGapAssumption, TradingAssumption, EmptySeq, ElementOfSeq, LenProperties

(* The phases that wait for an order.                                      *)
Orders ==
  [name : Entering \cup Exiting, req : Int, lots : Int, baseline : Int,
   tracked : BOOLEAN, sent : Int, acked : BOOLEAN]

(* What a phase is made of, by its name.                                   *)
LEMMA PhaseParts ==
  ASSUME NEW p \in Phases
  PROVE  /\ p.name \in Entering \cup Exiting => p \in Orders
         /\ p.name = "InPosition" =>
              p \in [name : {"InPosition"}, lots : Int, baseline : Int, tracked : BOOLEAN, opened : Int]
         /\ p.name = "EntryDeferred" => p \in [name : {"EntryDeferred"}, lots : Int]
         /\ p.name \in {"ExitDeferred", "CloseOnly"} =>
              p \in [name : {"ExitDeferred", "CloseOnly"}, baseline : Int]
         /\ p.name = "Flat" => p = Flat
         /\ p.name = "NotWarmed" => p = NotWarmed
         /\ p.name \in {"Flat", "Blocked", "NotWarmed", "EntryDeferred"} \cup Entering \cup Exposed
BY DEF Phases, Flat, Blocked, NotWarmed, Orders, Entering, Exiting, Exposed

(* The phases that the operators build.                                    *)
LEMMA PhaseTypes ==
  /\ Flat \in Phases /\ Blocked \in Phases /\ NotWarmed \in Phases
  /\ \A lots \in Int : EntryDeferred(lots) \in Phases
  /\ \A baseline \in Int : ExitDeferred(baseline) \in Phases /\ CloseOnly(baseline) \in Phases
  /\ \A lots, baseline, opened \in Int, tracked \in BOOLEAN :
       InPosition(lots, baseline, tracked, opened) \in Phases
  /\ Orders \in SUBSET Phases
  /\ \A name \in Entering \cup Exiting, req, lots, baseline, sent \in Int, tracked \in BOOLEAN :
       Order(name, req, lots, baseline, tracked, sent) \in Orders
<1>1. /\ Flat \in Phases /\ Blocked \in Phases /\ NotWarmed \in Phases
      /\ \A lots \in Int : EntryDeferred(lots) \in Phases
      /\ \A baseline \in Int : ExitDeferred(baseline) \in Phases /\ CloseOnly(baseline) \in Phases
  BY DEF Phases, EntryDeferred, ExitDeferred, CloseOnly
<1>2. \A lots, baseline, opened \in Int, tracked \in BOOLEAN :
       InPosition(lots, baseline, tracked, opened) \in Phases
  BY DEF Phases, InPosition
<1>3. Orders \in SUBSET Phases
  BY DEF Phases, Orders
<1>4. \A name \in Entering \cup Exiting, req, lots, baseline, sent \in Int, tracked \in BOOLEAN :
       Order(name, req, lots, baseline, tracked, sent) \in Orders
  BY DEF Orders, Order
<1> QED
  BY <1>1, <1>2, <1>3, <1>4

(* The fields of the memory that only bars and starts change.              *)
SameSessionState(m, k) ==
  /\ m.traded = k.traded /\ m.pend = k.pend /\ m.rolls = k.rolls
  /\ m.start = k.start /\ m.lastDt = k.lastDt /\ m.mark = k.mark

(* A state is saved with a phase and a bar; the other fields stay.         *)
LEMMA PersistParts ==
  ASSUME NEW m \in Memories, NEW p \in Phases, NEW bar \in Int
  PROVE  LET q == Persist(m, p, bar)
         IN  /\ q \in Memories /\ SameSessionState(q, m)
             /\ q.st.phase = p /\ q.st.lastBar = bar
<1>1. Greater(m.lastDt, bar) \in Int
  BY DEF Greater, Memories
<1> QED
  BY <1>1 DEF Persist, Memories, States, SameSessionState

LEMMA PersistPhaseParts ==
  ASSUME NEW m \in Memories, NEW p \in Phases
  PROVE  LET q == PersistPhase(m, p)
         IN  /\ q \in Memories /\ SameSessionState(q, m)
             /\ q.st.phase = p /\ q.st.lastBar = m.st.lastBar
<1>1. m.st.lastBar \in Int
  BY DEF Memories, States
<1> QED
  BY <1>1, PersistParts DEF PersistPhase

-----------------------------------------------------------------------------
(* What the callbacks make of a phase.  Only name, request, lots and       *)
(* baseline decide what happens next.                                      *)

(* Two orders that mean the same to the account.                           *)
SameTerms(q, p) == q.req = p.req /\ q.lots = p.lots /\ q.baseline = p.baseline

(* The same phase, or one that differs in its times only.                  *)
Alike(q, p) ==
  \/ q = p
  \/ p.name \in Entering \cup Exiting /\ q.name = p.name /\ SameTerms(q, p)

(* Answers to an entry that do not block the strategy.                     *)
NoAnswer == {"closed", "cws_error"} \cup Succeeded

(* on_ack, by what was awaited and what the answer says.                   *)
AckMoves(p, q, req, status, order) ==
  \/ order = NoOrder /\ Alike(q, p)
  \/ /\ order = NoOrder /\ p.name = "PendingEntry" /\ p.req = req
     /\ \/ status = "closed" /\ q = EntryDeferred(p.lots)
        \/ status = "cws_error" /\ q.name = "EntryRecovery" /\ SameTerms(q, p)
        \/ status \notin NoAnswer /\ q = Blocked
  \/ /\ order = NoOrder /\ p.name \in Exiting /\ p.req = req
     /\ \/ status = "closed" /\ q = ExitDeferred(p.baseline)
        \/ status \notin Succeeded \cup {"closed"} /\ q = CloseOnly(p.baseline)
  \/ /\ order = [lots |-> p.lots, class |-> "Exit"]
     /\ p.name = "PendingExit" /\ p.req = req /\ status = "recycle"
     /\ q.name = "ExitRecovery" /\ q.lots = p.lots /\ q.baseline = p.baseline

(* The answer to an entry.                                                 *)
LEMMA AckedEntryParts ==
  ASSUME NEW p \in Orders, p.name = "PendingEntry", NEW status, NEW ts \in Int
  PROVE  LET q == AckedEntry(p, status, ts)
         IN  /\ q \in Phases
             /\ \/ Alike(q, p)
                \/ status = "closed" /\ q = EntryDeferred(p.lots)
                \/ status = "cws_error" /\ q.name = "EntryRecovery" /\ SameTerms(q, p)
                \/ status \notin NoAnswer /\ q = Blocked
<1>1. p.lots \in Int
  BY DEF Orders
<1>2. CASE status = "closed"
  BY <1>1, <1>2, PhaseTypes DEF AckedEntry, Succeeded
<1>3. CASE status \in Succeeded
  <2>1. AckedEntry(p, status, ts) = [p EXCEPT !.acked = TRUE]
    BY <1>3 DEF AckedEntry, Succeeded
  <2>2. [p EXCEPT !.acked = TRUE] \in Orders
    BY DEF Orders
  <2>3. Alike([p EXCEPT !.acked = TRUE], p)
    BY DEF Alike, Orders, SameTerms
  <2> QED
    BY <2>1, <2>2, <2>3, PhaseTypes
<1>4. CASE status = "cws_error"
  <2>1. AckedEntry(p, status, ts) = [p EXCEPT !.name = "EntryRecovery", !.sent = ts]
    BY <1>4 DEF AckedEntry, Succeeded
  <2>2. [p EXCEPT !.name = "EntryRecovery", !.sent = ts] \in Orders
    BY DEF Orders, Entering
  <2>3. /\ [p EXCEPT !.name = "EntryRecovery", !.sent = ts].name = "EntryRecovery"
        /\ SameTerms([p EXCEPT !.name = "EntryRecovery", !.sent = ts], p)
    BY DEF SameTerms, Orders
  <2> QED
    BY <2>1, <2>2, <2>3, <1>4, PhaseTypes
<1>5. CASE status \notin NoAnswer
  BY <1>5, PhaseTypes DEF AckedEntry, NoAnswer
<1> QED
  BY <1>2, <1>3, <1>4, <1>5 DEF NoAnswer

(* The answer to an exit: it is sent again only when its recycling failed. *)
LEMMA AckedExitParts ==
  ASSUME NEW p \in Orders, p.name \in Exiting, NEW status, NEW ts \in Int
  PROVE  LET q == AckedExit(p, status, ts)
         IN  /\ q \in Phases
             /\ RetriesExit(p, status) =>
                  q.name = "ExitRecovery" /\ q.lots = p.lots /\ q.baseline = p.baseline
             /\ ~ RetriesExit(p, status) =>
                  \/ Alike(q, p)
                  \/ status = "closed" /\ q = ExitDeferred(p.baseline)
                  \/ status \notin Succeeded \cup {"closed"} /\ q = CloseOnly(p.baseline)
<1>1. p.baseline \in Int
  BY DEF Orders
<1>2. CASE status = "closed"
  BY <1>1, <1>2, PhaseTypes DEF AckedExit, RetriesExit, Succeeded
<1>3. CASE status \in Succeeded
  <2>1. AckedExit(p, status, ts) = [p EXCEPT !.acked = TRUE] /\ ~ RetriesExit(p, status)
    BY <1>3 DEF AckedExit, Succeeded, RetriesExit
  <2>2. [p EXCEPT !.acked = TRUE] \in Orders
    BY DEF Orders
  <2>3. Alike([p EXCEPT !.acked = TRUE], p)
    BY DEF Alike, Orders, SameTerms
  <2> QED
    BY <2>1, <2>2, <2>3, PhaseTypes
<1>4. CASE RetriesExit(p, status)
  <2> DEFINE e == [p EXCEPT !.name = "ExitRecovery", !.req = ts, !.sent = ts, !.acked = FALSE]
  <2>1. AckedExit(p, status, ts) = e
    BY <1>4 DEF AckedExit, Succeeded, RetriesExit
  <2>2. e \in Orders
    BY DEF Orders, Exiting
  <2>3. e.name = "ExitRecovery" /\ e.lots = p.lots /\ e.baseline = p.baseline
    BY DEF Orders
  <2> QED
    BY <2>1, <2>2, <2>3, <1>4, PhaseTypes
<1>5. CASE status \notin Succeeded \cup {"closed"} /\ ~ RetriesExit(p, status)
  BY <1>1, <1>5, PhaseTypes DEF AckedExit
<1> QED
  BY <1>2, <1>3, <1>4, <1>5

(* on_ack leaves the fields of the memory and moves the phase.             *)
LEMMA OnAckParts ==
  ASSUME NEW m \in Memories, NEW req, NEW status, NEW ts \in Int
  PROVE  LET r == OnAck(m, req, status, ts)
         IN  /\ r.m \in Memories /\ SameSessionState(r.m, m)
             /\ r.m.st.lastBar = m.st.lastBar
             /\ AckMoves(m.st.phase, r.m.st.phase, req, status, r.order)
<1> DEFINE p == m.st.phase
           r == OnAck(m, req, status, ts)
           awaited == p.name \in {"PendingEntry"} \cup Exiting /\ p.req = req
<1>1. p \in Phases
  BY DEF Memories, States
<1>2. CASE ~ awaited
  <2>1. r = Stay(PersistPhase(m, p))
    BY <1>2 DEF OnAck
  <2>2. r.m = PersistPhase(m, p) /\ r.order = NoOrder
    BY <2>1 DEF Stay, Then
  <2> QED
    BY <2>2, <1>1, PersistPhaseParts DEF AckMoves, Alike
<1>3. CASE awaited /\ p.name = "PendingEntry"
  <2>1. r = Then(PersistPhase(m, AckedEntry(p, status, ts)), NoOrder)
    BY <1>3 DEF OnAck, RetriesExit
  <2>2. r.m = PersistPhase(m, AckedEntry(p, status, ts)) /\ r.order = NoOrder
    BY <2>1 DEF Then
  <2>3. p \in Orders
    BY <1>1, <1>3, PhaseParts DEF Entering
  <2> QED
    BY <2>2, <2>3, <1>3, AckedEntryParts, PersistPhaseParts DEF AckMoves
<1>4. CASE awaited /\ p.name # "PendingEntry"
  <2> DEFINE q == AckedExit(p, status, ts)
  <2>1. p.name \in Exiting /\ p \in Orders
    BY <1>1, <1>4, PhaseParts
  <2>2. q \in Phases
    BY <2>1, AckedExitParts
  <2>3. CASE RetriesExit(p, status)
    <3>1. r = Then(PersistPhase(m, q), [lots |-> p.lots, class |-> "Exit"])
      BY <1>4, <2>3 DEF OnAck
    <3>2. r.m = PersistPhase(m, q) /\ r.order = [lots |-> p.lots, class |-> "Exit"]
      BY <3>1 DEF Then
    <3>3. p.name = "PendingExit" /\ status = "recycle" /\ p.req = req
      BY <2>3, <1>4 DEF RetriesExit
    <3>4. q.name = "ExitRecovery" /\ q.lots = p.lots /\ q.baseline = p.baseline
      BY <2>1, <2>3, AckedExitParts
    <3> QED
      BY <3>2, <3>3, <3>4, <2>2, PersistPhaseParts DEF AckMoves
  <2>4. CASE ~ RetriesExit(p, status)
    <3>1. r = Then(PersistPhase(m, q), NoOrder)
      BY <1>4, <2>4 DEF OnAck
    <3>2. r.m = PersistPhase(m, q) /\ r.order = NoOrder
      BY <3>1 DEF Then
    <3>3. \/ Alike(q, p)
          \/ status = "closed" /\ q = ExitDeferred(p.baseline)
          \/ status \notin Succeeded \cup {"closed"} /\ q = CloseOnly(p.baseline)
      BY <2>1, <2>4, AckedExitParts
    <3> QED
      BY <3>2, <3>3, <2>1, <2>2, <1>4, PersistPhaseParts DEF AckMoves
  <2> QED
    BY <2>3, <2>4
<1> QED
  BY <1>2, <1>3, <1>4

(* on_order: what an entry that is verified learns from its order.         *)
OrderMoves(p, q, req, status) ==
  \/ q = p
  \/ /\ p.name = "EntryRecovery" /\ p.req = req
     /\ \/ /\ status = "filled"
           /\ q.name = "InPosition" /\ q.lots = p.lots /\ q.baseline = p.baseline
        \/ status = "working" /\ q.name = "PendingEntry" /\ SameTerms(q, p)

(* on_order moves as above, and leaves the session alone.                  *)
LEMMA OnOrderParts ==
  ASSUME NEW m \in Memories, NEW req, NEW status, NEW ts \in Int
  PROVE  LET k == OnOrder(m, req, status, ts)
         IN  /\ k \in Memories /\ SameSessionState(k, m)
             /\ k.st.lastBar = m.st.lastBar
             /\ OrderMoves(m.st.phase, k.st.phase, req, status)
<1> DEFINE p == m.st.phase
           mine == p.name = "EntryRecovery" /\ p.req = req
           held == InPosition(p.lots, p.baseline, p.tracked, Greater(ts, p.sent))
           e == [p EXCEPT !.name = "PendingEntry", !.acked = TRUE]
<1>1. p \in Phases
  BY DEF Memories, States
<1>2. CASE mine /\ status = "filled"
  <2>1. OnOrder(m, req, status, ts) = PersistPhase(m, held)
    BY <1>2 DEF OnOrder
  <2>2. p \in Orders
    BY <1>1, <1>2, PhaseParts DEF Entering
  <2>3. Greater(ts, p.sent) \in Int
    BY <2>2 DEF Orders, Greater
  <2>4. held \in Phases
    BY <2>2, <2>3, PhaseTypes DEF Orders
  <2>5. held.name = "InPosition" /\ held.lots = p.lots /\ held.baseline = p.baseline
    BY DEF InPosition
  <2> QED
    BY <2>1, <2>4, <2>5, <1>2, PersistPhaseParts DEF OrderMoves
<1>3. CASE mine /\ status = "working"
  <2>1. OnOrder(m, req, status, ts) = PersistPhase(m, e)
    BY <1>3 DEF OnOrder
  <2>2. p \in Orders
    BY <1>1, <1>3, PhaseParts DEF Entering
  <2>3. e \in Orders /\ e.name = "PendingEntry" /\ SameTerms(e, p)
    BY <2>2 DEF Orders, SameTerms, Entering
  <2>4. e \in Phases
    BY <2>3, PhaseTypes
  <2> HIDE DEF e
  <2> QED
    BY <2>1, <2>3, <2>4, <1>3, PersistPhaseParts DEF OrderMoves
<1>4. CASE ~ (mine /\ status \in {"filled", "working"})
  <2>1. OnOrder(m, req, status, ts) = PersistPhase(m, p)
    BY <1>4 DEF OnOrder
  <2> QED
    BY <2>1, <1>1, PersistPhaseParts DEF OrderMoves
<1> QED
  BY <1>2, <1>3, <1>4

(* A phase that the position contradicts.                                  *)
Opened(p, qty) == p.name \in Entering /\ qty # p.baseline
Closed(p, qty) == p.name \in Exposed /\ qty = p.baseline

(* In a position of so many lots above the baseline.                       *)
Held(q, lots, baseline) == q.name = "InPosition" /\ q.lots = lots /\ q.baseline = baseline

(* on_position, by the phase and the position that is reported.            *)
PositionMoves(p, q, qty) ==
  \/ Opened(p, qty) /\ Held(q, qty - p.baseline, p.baseline)
  \/ Closed(p, qty) /\ q = Flat
  \/ p.name = "Flat" /\ qty # 0 /\ Held(q, qty, 0)
  \/ q = p /\ ~ Opened(p, qty) /\ ~ Closed(p, qty) /\ (p.name = "Flat" => qty = 0)

(* Phases that are compared with the position have a baseline.             *)
LEMMA PositionTypes ==
  ASSUME NEW p \in Phases
  PROVE  /\ p.name \in Entering => p \in Orders /\ p.baseline \in Int /\ p.lots \in Int
         /\ p.name \in Exposed => p.baseline \in Int
BY PhaseParts DEF Orders, Exposed

(* on_position moves as above, and leaves the session alone.               *)
LEMMA OnPositionParts ==
  ASSUME NEW m \in Memories, NEW qty \in Int, NEW at \in Int
  PROVE  LET k == OnPosition(m, qty, at)
         IN  /\ k \in Memories /\ SameSessionState(k, m)
             /\ k.st.lastBar = m.st.lastBar
             /\ PositionMoves(m.st.phase, k.st.phase, qty)
<1> DEFINE p == m.st.phase
<1>1. p \in Phases
  BY DEF Memories, States
<1>2. CASE Opened(p, qty)
  <2> DEFINE h == InPosition(qty - p.baseline, p.baseline, p.tracked, at)
  <2>1. OnPosition(m, qty, at) = PersistPhase(m, h)
    BY <1>2 DEF OnPosition, Opened, Entering, Exposed, Exiting
  <2>2. h \in Phases
    <3>1. p.tracked \in BOOLEAN /\ p.baseline \in Int
      BY <1>1, <1>2, PositionTypes DEF Orders, Opened
    <3> QED
      BY <3>1, PhaseTypes
  <2>3. Held(h, qty - p.baseline, p.baseline)
    BY DEF Held, InPosition
  <2> QED
    BY <2>1, <2>2, <2>3, <1>2, PersistPhaseParts DEF PositionMoves
<1>3. CASE Closed(p, qty)
  <2>1. OnPosition(m, qty, at) = PersistPhase(m, Flat)
    BY <1>3 DEF OnPosition, Closed, Entering, Exposed, Exiting
  <2> QED
    BY <2>1, <1>3, PhaseTypes, PersistPhaseParts DEF PositionMoves
<1>4. CASE p.name = "Flat" /\ qty # 0
  <2> DEFINE h == InPosition(qty, 0, FALSE, at)
  <2>1. OnPosition(m, qty, at) = PersistPhase(m, h)
    BY <1>4 DEF OnPosition, Entering, Exposed, Exiting
  <2>2. h \in Phases
    <3>1. 0 \in Int /\ FALSE \in BOOLEAN
      OBVIOUS
    <3> QED
      BY <3>1, PhaseTypes
  <2>3. Held(h, qty, 0)
    BY DEF Held, InPosition
  <2> HIDE DEF h
  <2> QED
    BY <2>1, <2>2, <2>3, <1>4, PersistPhaseParts DEF PositionMoves
<1>5. CASE ~ Opened(p, qty) /\ ~ Closed(p, qty) /\ (p.name = "Flat" => qty = 0)
  <2>1. OnPosition(m, qty, at) = PersistPhase(m, p)
    BY <1>5 DEF OnPosition, Opened, Closed
  <2> QED
    BY <2>1, <1>1, <1>5, PersistPhaseParts DEF PositionMoves
<1> QED
  BY <1>2, <1>3, <1>4, <1>5

-----------------------------------------------------------------------------
(* Bars.                                                                   *)

(* What a callback is told of the runtime.                                 *)
Contexts == [pos : Int, event : Int, now : Int]

(* An order of these terms is awaited.                                     *)
Sent(q, name, lots, req, baseline) ==
  q.name = name /\ q.lots = lots /\ q.req = req /\ q.baseline = baseline

(* What a bar does without a position: lots is what it orders.             *)
EntryMoves(g, p, q, lots, ctx) ==
  \/ lots = 0 /\ q = p
  \/ p.name = "Flat" /\ lots = 0 /\ ~ Warmed(g) /\ q = NotWarmed
  \/ /\ p.name = "Flat" /\ Warmed(g) /\ g.pend /\ lots = 1
     /\ Sent(q, "PendingEntry", lots, ctx.event, ctx.pos)
  \/ p.name = "EntryDeferred" /\ lots = 0 /\ q = Flat
  \/ /\ p.name = "EntryDeferred" /\ lots = p.lots
     /\ Sent(q, "PendingEntry", lots, ctx.event, ctx.pos)
  \/ p.name = "NotWarmed" /\ lots = 0 /\ q = Flat
  \/ p.name = "PendingEntry" /\ lots = 0 /\ q = Blocked
  \/ /\ p.name = "EntryRecovery" /\ lots = 0
     /\ \/ ctx.pos # p.baseline /\ Held(q, ctx.pos - p.baseline, p.baseline)
        \/ ctx.pos = p.baseline /\ q = Flat

(* What a bar does with a position: lots is what it orders.                *)
ExitMoves(p, q, lots, ctx) ==
  \/ lots = 0 /\ q = p
  \/ /\ p.name = "InPosition" /\ lots = - p.lots
     /\ Sent(q, "PendingExit", lots, ctx.event, p.baseline)
  \/ p.name = "ExitDeferred" /\ lots = 0 /\ ctx.pos = p.baseline /\ q = Flat
  \/ /\ p.name = "ExitDeferred" /\ lots = p.baseline - ctx.pos /\ ctx.pos # p.baseline
     /\ Sent(q, "PendingExit", lots, ctx.event, p.baseline)
  \/ p.name \in Exiting /\ lots = 0 /\ q = CloseOnly(p.baseline)

(* The entry sent by a bar.                                                *)
LEMMA SendEntryParts ==
  ASSUME NEW g \in Memories, NEW ctx \in Contexts, NEW lots \in Int
  PROVE  LET r == SendEntry(g, ctx, lots)
         IN  /\ r.phase \in Phases /\ r.lots = lots
             /\ Sent(r.phase, "PendingEntry", lots, ctx.event, ctx.pos)
<1> DEFINE q == Order("PendingEntry", ctx.event, lots, ctx.pos, g.rolls > 0, ctx.now)
<1>1. SendEntry(g, ctx, lots).phase = q /\ SendEntry(g, ctx, lots).lots = lots
  BY DEF SendEntry
<1>2. ctx.event \in Int /\ ctx.pos \in Int /\ ctx.now \in Int /\ (g.rolls > 0) \in BOOLEAN
  BY DEF Contexts
<1>3. "PendingEntry" \in Entering \cup Exiting
  BY DEF Entering
<1>4. q \in Orders
  BY <1>2, <1>3, PhaseTypes
<1>5. q \in Phases
  BY <1>4, PhaseTypes
<1>6. Sent(q, "PendingEntry", lots, ctx.event, ctx.pos)
  BY DEF Order, Sent
<1> QED
  BY <1>1, <1>5, <1>6

(* The exit sent by a bar.                                                 *)
LEMMA SendExitParts ==
  ASSUME NEW p, p.baseline \in Int, NEW ctx \in Contexts, NEW lots \in Int
  PROVE  LET r == SendExit(p, ctx, lots)
         IN  /\ r.phase \in Phases /\ r.lots = lots
             /\ Sent(r.phase, "PendingExit", lots, ctx.event, p.baseline)
<1> DEFINE q == Order("PendingExit", ctx.event, lots, p.baseline, FALSE, ctx.now)
<1>1. SendExit(p, ctx, lots).phase = q /\ SendExit(p, ctx, lots).lots = lots
  BY DEF SendExit
<1>2. ctx.event \in Int /\ ctx.now \in Int /\ FALSE \in BOOLEAN
  BY DEF Contexts
<1>3. "PendingExit" \in Entering \cup Exiting
  BY DEF Exiting
<1>4. q \in Orders
  BY <1>2, <1>3, PhaseTypes
<1>5. q \in Phases
  BY <1>4, PhaseTypes
<1>6. Sent(q, "PendingExit", lots, ctx.event, p.baseline)
  BY DEF Order, Sent
<1> QED
  BY <1>1, <1>5, <1>6

(* A bar that changes the phase only.                                      *)
LEMMA HoldParts ==
  ASSUME NEW q PROVE Hold(q).phase = q /\ Hold(q).lots = 0
BY DEF Hold

(* The arms of on_bar without a position.                                  *)
LEMMA OnBarEntryParts ==
  ASSUME NEW g \in Memories, NEW p \in Phases, NEW ctx \in Contexts, NEW t \in Int
  PROVE  LET r == OnBarEntry(g, p, ctx, t)
         IN  r.phase \in Phases /\ r.lots \in Int /\ EntryMoves(g, p, r.phase, r.lots, ctx)
<1> DEFINE r == OnBarEntry(g, p, ctx, t)
<1>1. CASE p.name = "Flat"
  <2>1. CASE ~ Warmed(g)
    <3>1. r = Hold(NotWarmed)
      BY <1>1, <2>1 DEF OnBarEntry
    <3> QED
      BY <3>1, <1>1, <2>1, HoldParts, PhaseTypes DEF EntryMoves
  <2>2. CASE Warmed(g) /\ g.pend
    <3>1. r = SendEntry(g, ctx, 1) /\ 1 \in Int
      BY <1>1, <2>2 DEF OnBarEntry
    <3> QED
      BY <3>1, <1>1, <2>2, SendEntryParts DEF EntryMoves
  <2>3. CASE Warmed(g) /\ ~ g.pend
    <3>1. r = Hold(p)
      BY <1>1, <2>3 DEF OnBarEntry
    <3> QED
      BY <3>1, HoldParts DEF EntryMoves
  <2> QED
    BY <2>1, <2>2, <2>3
<1>2. CASE p.name = "EntryDeferred"
  <2>1. CASE TooLate(g, t)
    <3>1. r = Hold(Flat)
      BY <1>2, <2>1 DEF OnBarEntry
    <3> QED
      BY <3>1, <1>2, HoldParts, PhaseTypes DEF EntryMoves
  <2>2. CASE ~ TooLate(g, t)
    <3>1. r = SendEntry(g, ctx, p.lots)
      BY <1>2, <2>2 DEF OnBarEntry
    <3>2. p.lots \in Int
      BY <1>2, PhaseParts
    <3> QED
      BY <3>1, <3>2, <1>2, SendEntryParts DEF EntryMoves
  <2> QED
    BY <2>1, <2>2
<1>3. CASE p.name = "NotWarmed"
  <2>1. r = Hold(Flat) \/ r = Hold(p)
    BY <1>3 DEF OnBarEntry
  <2> QED
    BY <2>1, <1>3, HoldParts, PhaseTypes DEF EntryMoves
<1>4. CASE p.name = "PendingEntry"
  <2>1. r = Hold(Blocked) \/ r = Hold(p)
    BY <1>4 DEF OnBarEntry
  <2> QED
    BY <2>1, <1>4, HoldParts, PhaseTypes DEF EntryMoves
<1>5. CASE p.name = "EntryRecovery"
  <2> DEFINE h == InPosition(ctx.pos - p.baseline, p.baseline, p.tracked, ctx.now)
  <2>1. p \in Orders
    BY <1>5, PhaseParts DEF Entering
  <2>2. CASE ctx.pos # p.baseline
    <3>1. r = Hold(h)
      BY <1>5, <2>2 DEF OnBarEntry
    <3>2. p.baseline \in Int /\ p.tracked \in BOOLEAN /\ ctx.pos - p.baseline \in Int /\ ctx.now \in Int
      BY <2>1 DEF Orders, Contexts
    <3>3. h \in Phases
      BY <3>2, PhaseTypes
    <3>4. Held(h, ctx.pos - p.baseline, p.baseline)
      BY DEF Held, InPosition
    <3> HIDE DEF h
    <3> QED
      BY <3>1, <3>3, <3>4, <1>5, <2>2, HoldParts DEF EntryMoves
  <2>3. CASE ctx.pos = p.baseline
    <3>1. r = Hold(Flat) \/ r = Hold(p)
      BY <1>5, <2>3 DEF OnBarEntry
    <3> QED
      BY <3>1, <1>5, <2>3, HoldParts, PhaseTypes DEF EntryMoves
  <2> QED
    BY <2>2, <2>3
<1>6. CASE p.name \notin {"Flat", "EntryDeferred", "NotWarmed", "PendingEntry", "EntryRecovery"}
  <2>1. r = Hold(p)
    BY <1>6 DEF OnBarEntry
  <2> QED
    BY <2>1, HoldParts DEF EntryMoves
<1> QED
  BY <1>1, <1>2, <1>3, <1>4, <1>5, <1>6

(* The arms of on_bar with a position.                                     *)
LEMMA OnBarExitParts ==
  ASSUME NEW g \in Memories, NEW p \in Phases, p.name \in Exposed,
         NEW ctx \in Contexts, NEW t \in Int, NEW hit \in BOOLEAN
  PROVE  LET r == OnBarExit(g, p, ctx, t, hit)
         IN  r.phase \in Phases /\ r.lots \in Int /\ ExitMoves(p, r.phase, r.lots, ctx)
<1> DEFINE r == OnBarExit(g, p, ctx, t, hit)
<1>1. p.baseline \in Int /\ ctx.pos \in Int
  BY PositionTypes DEF Contexts
<1>2. CASE p.name = "InPosition"
  <2>1. r = SendExit(p, ctx, - p.lots) \/ r = Hold(p)
    BY <1>2 DEF OnBarExit, Exiting
  <2>2. - p.lots \in Int
    BY <1>2, PhaseParts
  <2>3. CASE r = Hold(p)
    BY <2>3, HoldParts DEF ExitMoves
  <2>4. CASE r = SendExit(p, ctx, - p.lots)
    BY <2>4, <2>2, <1>1, <1>2, SendExitParts DEF ExitMoves
  <2> QED
    BY <2>1, <2>3, <2>4
<1>3. CASE p.name = "ExitDeferred" /\ ctx.pos = p.baseline
  <2>1. r = Hold(Flat)
    BY <1>3 DEF OnBarExit, Exiting
  <2> QED
    BY <2>1, <1>3, HoldParts, PhaseTypes DEF ExitMoves
<1>4. CASE p.name = "ExitDeferred" /\ ctx.pos # p.baseline
  <2>1. r = SendExit(p, ctx, p.baseline - ctx.pos)
    BY <1>4 DEF OnBarExit, Exiting
  <2>2. p.baseline - ctx.pos \in Int
    BY <1>1
  <2> QED
    BY <2>1, <2>2, <1>1, <1>4, SendExitParts DEF ExitMoves
<1>5. CASE p.name \in Exiting
  <2>1. r = Hold(CloseOnly(p.baseline)) \/ r = Hold(p)
    BY <1>5 DEF OnBarExit, Exiting
  <2> QED
    BY <2>1, <1>1, <1>5, HoldParts, PhaseTypes DEF ExitMoves
<1>6. CASE p.name \notin Exiting \cup {"InPosition", "ExitDeferred"}
  <2>1. r = Hold(p)
    BY <1>6 DEF OnBarExit
  <2> QED
    BY <2>1, HoldParts DEF ExitMoves
<1> QED
  BY <1>2, <1>3, <1>4, <1>5, <1>6

(* The memory with the bar taken in, and with a signal.                    *)
NewSession(m, t) == t - m.lastDt > Gap

(* The memory before a signal is looked for.                               *)
Updated(m, t) == [UpdateSession(m, t) EXCEPT !.mark = t]

(* A bar of a new session resets what the session has traded.              *)
LEMMA UpdatedParts ==
  ASSUME NEW m \in Memories, NEW t \in Int
  PROVE  LET u == Updated(m, t)
         IN  /\ u \in Memories /\ u.st = m.st /\ u.lastDt = t /\ u.mark = t
             /\ u.rolls = IF NewSession(m, t) /\ m.rolls # 2 THEN m.rolls + 1 ELSE m.rolls
             /\ u.start = IF NewSession(m, t) THEN t ELSE m.start
             /\ u.traded <=> ~ NewSession(m, t) /\ m.traded
             /\ u.pend <=> ~ NewSession(m, t) /\ m.pend
<1>1. m.rolls \in 0 .. 2 /\ m.rolls \in Int /\ m.traded \in BOOLEAN /\ m.pend \in BOOLEAN
  BY DEF Memories
<1>2. CASE NewSession(m, t)
  <2>1. UpdateSession(m, t) =
          [m EXCEPT !.rolls = IF @ = 2 THEN 2 ELSE @ + 1, !.start = t, !.lastDt = t,
                    !.traded = FALSE, !.pend = FALSE]
    BY <1>2 DEF UpdateSession, NewSession
  <2>2. (IF m.rolls = 2 THEN 2 ELSE m.rolls + 1) \in 0 .. 2
    BY <1>1
  <2> QED
    BY <2>1, <2>2, <1>1, <1>2 DEF Updated, Memories
<1>3. CASE ~ NewSession(m, t)
  <2>1. UpdateSession(m, t) = [m EXCEPT !.lastDt = t]
    BY <1>3 DEF UpdateSession, NewSession
  <2> QED
    BY <2>1, <1>1, <1>3 DEF Updated, Memories
<1> QED
  BY <1>2, <1>3

(* A signal marks its session as traded, and a traded session has none.    *)
LEMMA SignalParts ==
  ASSUME NEW u \in Memories, u.pend => u.traded, NEW t \in Int, NEW signal \in BOOLEAN
  PROVE  LET g == GenerateSignal(u, t, signal)
         IN  /\ g \in Memories /\ (g.pend => g.traded)
             /\ g.st = u.st /\ g.lastDt = u.lastDt /\ g.mark = u.mark
             /\ g.rolls = u.rolls /\ g.start = u.start
             /\ u.traded /\ ~ u.pend => g.traded /\ ~ g.pend
<1> DEFINE e == [u EXCEPT !.pend = TRUE, !.traded = TRUE]
<1>1. GenerateSignal(u, t, signal) = u \/ (~ u.traded /\ GenerateSignal(u, t, signal) = e)
  BY DEF GenerateSignal
<1>2. /\ e \in Memories /\ e.pend /\ e.traded
      /\ e.st = u.st /\ e.lastDt = u.lastDt /\ e.mark = u.mark
      /\ e.rolls = u.rolls /\ e.start = u.start
  BY DEF Memories
<1> HIDE DEF e
<1> QED
  BY <1>1, <1>2

(* The order of a bar.                                                     *)
BarOrder(p, lots) ==
  IF lots = 0 THEN NoOrder
  ELSE [lots |-> lots, class |-> IF p.name \in Exposed THEN "Exit" ELSE "Entry"]

(* on_bar, whichever of the two arms it takes.                             *)
BarMoves(g, p, q, order, ctx) ==
  \E lots \in Int :
    /\ order = BarOrder(p, lots)
    /\ \/ p.name \notin Exposed /\ EntryMoves(g, p, q, lots, ctx)
       \/ p.name \in Exposed /\ ExitMoves(p, q, lots, ctx)

(* The session after a bar: an entry of its own leaves it traded, and a    *)
(* session that has traded has no entry of its own any more.               *)
BarSession(m, k, t) ==
  LET enters == m.st.phase.name = "Flat" /\ k.st.phase.name = "PendingEntry"
  IN  /\ k \in Memories /\ (k.pend => k.traded)
      /\ k.lastDt = t /\ k.mark = t /\ k.st.lastBar = t
      /\ k.rolls = IF NewSession(m, t) /\ m.rolls # 2 THEN m.rolls + 1 ELSE m.rolls
      /\ k.start = IF NewSession(m, t) THEN t ELSE m.start
      /\ ~ NewSession(m, t) /\ m.traded /\ ~ m.pend => k.traded /\ ~ k.pend /\ ~ enters
      /\ enters => k.traded /\ ~ k.pend

(* on_bar, of a bar not seen before: the session, and the phase.           *)
LEMMA OnBarParts ==
  ASSUME NEW m \in Memories, m.pend => m.traded, NEW ctx \in Contexts,
         NEW t \in Int, t > m.mark,
         NEW signal \in BOOLEAN, NEW hit \in BOOLEAN, NEW blocked \in BOOLEAN
  PROVE  LET r == OnBar(m, ctx, t, signal, hit, blocked)
             k == r.m
             p == m.st.phase
             q == k.st.phase
         IN  /\ BarSession(m, k, t)
             /\ \/ r.order = NoOrder /\ q = p
                \/ \E g \in Memories : g.rolls = k.rolls /\ BarMoves(g, p, q, r.order, ctx)
<1> DEFINE p == m.st.phase
           u == Updated(m, t)
           g == GenerateSignal(u, t, signal)
           b == IF p.name \in Exposed THEN OnBarExit(g, p, ctx, t, hit) ELSE OnBarEntry(g, p, ctx, t)
           taken == p.name = "Flat" /\ b.phase.name = "PendingEntry"
           h == IF taken THEN [g EXCEPT !.pend = FALSE] ELSE g
           r == OnBar(m, ctx, t, signal, hit, blocked)
<1>1. p \in Phases /\ ~ (t <= m.mark)
  BY DEF Memories, States
<1>2. /\ u \in Memories /\ u.lastDt = t /\ u.mark = t
      /\ u.rolls = IF NewSession(m, t) /\ m.rolls # 2 THEN m.rolls + 1 ELSE m.rolls
      /\ u.start = IF NewSession(m, t) THEN t ELSE m.start
      /\ u.pend => u.traded
      /\ ~ NewSession(m, t) /\ m.traded /\ ~ m.pend => u.traded /\ ~ u.pend
  <2>1. /\ u \in Memories /\ u.lastDt = t /\ u.mark = t
        /\ u.rolls = IF NewSession(m, t) /\ m.rolls # 2 THEN m.rolls + 1 ELSE m.rolls
        /\ u.start = IF NewSession(m, t) THEN t ELSE m.start
    BY UpdatedParts
  <2>2. /\ u.traded <=> ~ NewSession(m, t) /\ m.traded
        /\ u.pend <=> ~ NewSession(m, t) /\ m.pend
    BY UpdatedParts
  <2> HIDE DEF u
  <2> QED
    BY <2>1, <2>2
<1>3. /\ g \in Memories /\ (g.pend => g.traded)
      /\ g.lastDt = t /\ g.mark = t /\ g.rolls = u.rolls /\ g.start = u.start
      /\ u.traded /\ ~ u.pend => g.traded /\ ~ g.pend
  BY <1>2, SignalParts
<1>4. CASE blocked
  <2>1. r = Stay(Persist(u, p, t))
    BY <1>1, <1>4 DEF OnBar, Updated
  <2>2. r.m = Persist(u, p, t) /\ r.order = NoOrder
    BY <2>1 DEF Stay, Then
  <2>3. r.m \in Memories /\ SameSessionState(r.m, u) /\ r.m.st.phase = p /\ r.m.st.lastBar = t
    BY <2>2, <1>1, <1>2, PersistParts
  <2>4. ~ (p.name = "Flat" /\ p.name = "PendingEntry")
    OBVIOUS
  <2> HIDE DEF u, r, p
  <2> QED
    BY <2>2, <2>3, <2>4, <1>2 DEF SameSessionState, BarSession, r, p
<1>5. CASE ~ blocked
  <2>1. /\ r.m = Persist(h, b.phase, t)
        /\ r.order = BarOrder(p, b.lots)
    BY <1>1, <1>5 DEF OnBar, Updated, Then, BarOrder
  <2>2. /\ b.phase \in Phases /\ b.lots \in Int
        /\ \/ p.name \notin Exposed /\ EntryMoves(g, p, b.phase, b.lots, ctx)
           \/ p.name \in Exposed /\ ExitMoves(p, b.phase, b.lots, ctx)
    <3>1. CASE p.name \in Exposed
      <4>1. b = OnBarExit(g, p, ctx, t, hit)
        BY <3>1
      <4> QED
        BY <4>1, <3>1, <1>1, <1>3, OnBarExitParts
    <3>2. CASE p.name \notin Exposed
      <4>1. b = OnBarEntry(g, p, ctx, t)
        BY <3>2
      <4> QED
        BY <4>1, <3>2, <1>1, <1>3, OnBarEntryParts
    <3> QED
      BY <3>1, <3>2
  <2> HIDE DEF u, g, b, r, p
  <2>3. taken => g.pend
    <3>1. SUFFICES ASSUME taken PROVE g.pend
      OBVIOUS
    <3>2. p.name = "Flat" /\ b.phase.name = "PendingEntry"
      BY <3>1
    <3>3. EntryMoves(g, p, b.phase, b.lots, ctx)
      BY <2>2, <3>2 DEF Exposed, Exiting
    <3>4. b.phase # p
      BY <3>2
    <3> QED
      BY <3>2, <3>3, <3>4 DEF EntryMoves, NotWarmed
  <2>4. /\ h \in Memories /\ h.lastDt = t /\ h.mark = t
        /\ h.rolls = g.rolls /\ h.start = g.start /\ h.traded = g.traded
        /\ h.pend = (~ taken /\ g.pend)
    <3>1. CASE taken
      <4>1. h = [g EXCEPT !.pend = FALSE]
        BY <3>1
      <4> QED
        BY <4>1, <1>3, <3>1 DEF Memories
    <3>2. CASE ~ taken
      <4>1. h = g
        BY <3>2
      <4>2. g.pend \in BOOLEAN
        BY <1>3 DEF Memories
      <4> QED
        BY <4>1, <4>2, <1>3, <3>2
    <3> QED
      BY <3>1, <3>2
  <2> HIDE DEF h
  <2>5. r.m \in Memories /\ SameSessionState(r.m, h) /\ r.m.st.phase = b.phase /\ r.m.st.lastBar = t
    BY <2>1, <2>2, <2>4, PersistParts
  <2>6. BarMoves(g, p, r.m.st.phase, r.order, ctx)
    BY <2>1, <2>2, <2>5 DEF BarMoves
  <2>7. /\ (r.m.pend => r.m.traded)
        /\ r.m.lastDt = t /\ r.m.mark = t /\ r.m.rolls = g.rolls /\ r.m.start = g.start
        /\ r.m.traded = g.traded /\ r.m.pend = (~ taken /\ g.pend)
    BY <2>4, <2>5, <1>3 DEF SameSessionState
  <2>8. taken <=> p.name = "Flat" /\ r.m.st.phase.name = "PendingEntry"
    BY <2>5
  <2> HIDE DEF taken
  <2>9. ~ NewSession(m, t) /\ m.traded /\ ~ m.pend => r.m.traded /\ ~ r.m.pend /\ ~ taken
    BY <2>3, <2>7, <1>2, <1>3
  <2>10. taken => r.m.traded /\ ~ r.m.pend
    BY <2>3, <2>7, <1>3
  <2> QED
    BY <2>5, <2>6, <2>7, <2>8, <2>9, <2>10, <1>2, <1>3 DEF BarSession, r, p
<1> QED
  BY <1>4, <1>5

-----------------------------------------------------------------------------
(* Sessions in the history.                                                *)

(* The first bars of the sessions among the first k bars.                  *)
FirstBars(k) == {i \in 1 .. k : i = 1 \/ Bars[i] - Bars[i - 1] > Gap}

(* Session changes seen after k bars, as far as they are counted.          *)
Rolls(k) ==
  IF past + Cardinality(FirstBars(k)) > 2 THEN 2 ELSE past + Cardinality(FirstBars(k))

(* First bars can be counted.                                              *)
LEMMA FirstBarsFinite ==
  ASSUME NEW k \in Nat
  PROVE  IsFiniteSet(FirstBars(k)) /\ Cardinality(FirstBars(k)) \in Nat
<1>1. FirstBars(k) \subseteq 1 .. k /\ IsFiniteSet(1 .. k)
  BY FS_Interval DEF FirstBars
<1> QED
  BY <1>1, FS_Subset, FS_CardinalityType

(* One more bar is the first of a session, or is not.                      *)
LEMMA FirstBarsNext ==
  ASSUME NEW k \in Nat
  PROVE  Cardinality(FirstBars(k + 1)) =
           IF k = 0 \/ Bars[k + 1] - Bars[k] > Gap
           THEN Cardinality(FirstBars(k)) + 1 ELSE Cardinality(FirstBars(k))
<1>1. \A i : i \in 1 .. k + 1 <=> i \in 1 .. k \/ i = k + 1
  OBVIOUS
<1>2. k + 1 \notin FirstBars(k) /\ (k + 1) - 1 = k /\ (k + 1 = 1 <=> k = 0)
  BY DEF FirstBars
<1>3. CASE k = 0 \/ Bars[k + 1] - Bars[k] > Gap
  <2>1. FirstBars(k + 1) = FirstBars(k) \cup {k + 1}
    BY <1>1, <1>2, <1>3 DEF FirstBars
  <2> QED
    BY <2>1, <1>2, <1>3, FirstBarsFinite, FS_AddElement
<1>4. CASE ~ (k = 0 \/ Bars[k + 1] - Bars[k] > Gap)
  <2>1. FirstBars(k + 1) = FirstBars(k)
    BY <1>1, <1>2, <1>4 DEF FirstBars
  <2> QED
    BY <2>1, <1>4
<1> QED
  BY <1>3, <1>4

(* Of more bars, more are the first of a session.                          *)
LEMMA FirstBarsMore ==
  ASSUME NEW k \in Nat, NEW l \in Nat, k <= l
  PROVE  Cardinality(FirstBars(k)) <= Cardinality(FirstBars(l))
<1>1. FirstBars(k) \subseteq FirstBars(l)
  BY DEF FirstBars
<1> QED
  BY <1>1, FirstBarsFinite, FS_Subset

(* Before the first bar there are none.                                    *)
LEMMA NoFirstBars ==
  FirstBars(0) = {} /\ Cardinality(FirstBars(0)) = 0
<1>1. FirstBars(0) = {}
  BY DEF FirstBars
<1> QED
  BY <1>1, FS_EmptySet

(* The greatest element of a finite set of numbers that is not empty.      *)
LEMMA MaxParts ==
  ASSUME NEW k \in Nat, NEW S \in SUBSET (1 .. k), S # {}
  PROVE  Max(S) \in S
<1> DEFINE R == {ss \in Nat \X Nat : ss[1] < ss[2]}
           T == {k - x : x \in S}
<1>1. IsWellFoundedOn(R, Nat)
  BY NatLessThanWellFounded DEF OpToRel
<1>2. \A x, y \in Nat : <<y, x>> \in R <=> y < x
  OBVIOUS
<1>3. T \subseteq Nat /\ T # {}
  <2>1. \A x \in S : k - x \in Nat
    OBVIOUS
  <2> QED
    BY <2>1
<1> HIDE DEF R, T
<1>4. PICK x \in T : \A y \in T : ~ (<<y, x>> \in R)
  BY <1>1, <1>3, WFMin
<1>5. PICK z \in S : x = k - z
  BY <1>4 DEF T
<1>6. \A y \in S : z >= y
  <2>1. SUFFICES ASSUME NEW y \in S PROVE z >= y
    OBVIOUS
  <2>2. k - y \in T /\ k - y \in Nat /\ x \in Nat
    BY <1>3 DEF T
  <2>3. ~ (k - y < x)
    BY <2>2, <1>2, <1>4
  <2>4. y \in Nat /\ z \in Nat
    OBVIOUS
  <2> QED
    BY <2>3, <2>4, <1>5
<1> QED
  BY <1>5, <1>6 DEF Max

(* What a start reads from the stream of bars.                             *)
LEMMA HistoryParts ==
  ASSUME published \in 0 .. Len(Bars), past \in 0 .. 2
  PROVE  /\ History.rolls = Rolls(published) /\ History.rolls \in 0 .. 2
         /\ History.start \in Int /\ History.last \in Int
         /\ published = 0 => History.start = NoBar /\ History.last = NoBar
         /\ published # 0 => History.last = Bars[published]
         /\ History.start = NoBar \/ \E i \in 1 .. published : History.start = Bars[i]
<1>1. published \in Nat /\ \A i \in 1 .. published : Bars[i] \in Int
  BY ConstantParts
<1>2. Cardinality(FirstBars(published)) \in Nat
  BY <1>1, FirstBarsFinite
<1>3. Rolls(published) \in 0 .. 2
  BY <1>2 DEF Rolls
<1>4. /\ History.rolls = Greater(0, Rolls(published))
      /\ History.start = IF FirstBars(published) = {} THEN NoBar ELSE Bars[Max(FirstBars(published))]
      /\ History.last = IF published = 0 THEN NoBar ELSE Bars[published]
  BY DEF History, FirstBars, Rolls
<1>5. History.rolls = Rolls(published)
  BY <1>3, <1>4 DEF Greater
<1>6. CASE published = 0
  BY <1>3, <1>4, <1>5, <1>6, NoFirstBars, ConstantParts
<1>7. CASE published # 0
  <2>1. 1 \in FirstBars(published) /\ FirstBars(published) \in SUBSET (1 .. published)
    BY <1>1, <1>7 DEF FirstBars
  <2>2. Max(FirstBars(published)) \in 1 .. published
    BY <2>1, <1>1, MaxParts
  <2>3. published \in 1 .. published /\ History.start = Bars[Max(FirstBars(published))]
    BY <2>1, <1>1, <1>4, <1>7
  <2> QED
    BY <2>2, <2>3, <1>1, <1>3, <1>4, <1>5, <1>7
<1> QED
  BY <1>6, <1>7

-----------------------------------------------------------------------------
(* A start.                                                                *)

(* transition_live_reconcile_with_snapshot, by the phase that was saved    *)
(* and the position of the snapshot.                                       *)
SnapshotMoves(p, q, qty) ==
  \/ Opened(p, qty) /\ Held(q, p.lots, p.baseline)
  \/ p.name = "EntryRecovery" /\ qty = p.baseline /\ q = Flat
  \/ Closed(p, qty) /\ q = Flat
  \/ q = p /\ ~ Opened(p, qty) /\ ~ Closed(p, qty)

(* A start, with the history read.                                         *)
BootMoves(p, q, qty) == SnapshotMoves(p, q, qty) \/ (p.name = "NotWarmed" /\ q = Flat)

(* The state as it is corrected by the snapshot.                           *)
LEMMA SnapshotParts ==
  ASSUME NEW m \in Memories, NEW qty \in Int, NEW working \in BOOLEAN, NEW ts \in Int
  PROVE  LET k == OnBootstrapSnapshot(m, qty, working, ts)
             p == m.st.phase
             q == k.st.phase
         IN  /\ k \in Memories /\ k.st.lastBar = m.st.lastBar /\ (k.pend <=> m.pend)
             /\ SnapshotMoves(p, q, qty)
<1> DEFINE p == m.st.phase
           C == CASE p.name \in Entering /\ qty # p.baseline ->
                       InPosition(p.lots, p.baseline, p.tracked, ts)
                  [] p.name = "EntryRecovery" /\ qty = p.baseline /\ ~ working -> Flat
                  [] p.name \in Exposed /\ qty = p.baseline -> Flat
                  [] OTHER -> p
           k == OnBootstrapSnapshot(m, qty, working, ts)
           e == [m EXCEPT !.st.phase = C, !.st.traded = m.traded, !.st.rolls = m.rolls,
                          !.st.lastDt = m.st.lastBar]
<1>1. p \in Phases
  BY DEF Memories, States
<1>2. C \in Phases /\ SnapshotMoves(p, C, qty)
  <2>1. CASE Opened(p, qty)
    <3> DEFINE h == InPosition(p.lots, p.baseline, p.tracked, ts)
    <3>1. C = h
      BY <2>1 DEF Opened, Entering, Exposed, Exiting
    <3>2. p.lots \in Int /\ p.baseline \in Int /\ p.tracked \in BOOLEAN
      BY <1>1, <2>1, PositionTypes DEF Opened, Orders
    <3>3. h \in Phases
      BY <3>2, PhaseTypes
    <3>4. Held(h, p.lots, p.baseline)
      BY DEF Held, InPosition
    <3> QED
      BY <3>1, <3>3, <3>4, <2>1 DEF SnapshotMoves
  <2>2. CASE p.name = "EntryRecovery" /\ qty = p.baseline /\ ~ working
    <3>1. C = Flat
      BY <2>2 DEF Entering, Exposed, Exiting
    <3> QED
      BY <3>1, <2>2, PhaseTypes DEF SnapshotMoves
  <2>3. CASE Closed(p, qty)
    <3>1. C = Flat
      BY <2>3 DEF Closed, Entering, Exposed, Exiting
    <3> QED
      BY <3>1, <2>3, PhaseTypes DEF SnapshotMoves
  <2>4. CASE /\ ~ Opened(p, qty) /\ ~ Closed(p, qty)
             /\ ~ (p.name = "EntryRecovery" /\ qty = p.baseline /\ ~ working)
    <3>1. C = p
      BY <2>4 DEF Opened, Closed
    <3> QED
      BY <3>1, <2>4, <1>1 DEF SnapshotMoves
  <2> QED
    BY <2>1, <2>2, <2>3, <2>4
<1>3. k = IF C = p THEN m ELSE e
  BY DEF OnBootstrapSnapshot
<1> HIDE DEF C
<1>4. /\ e \in Memories /\ e.st.phase = C
      /\ e.st.lastBar = m.st.lastBar /\ (e.pend <=> m.pend)
  BY <1>2 DEF Memories, States
<1>5. k \in Memories /\ k.st.phase = C /\ k.st.lastBar = m.st.lastBar /\ (k.pend <=> m.pend)
  BY <1>3, <1>4
<1> QED
  BY <1>2, <1>5

(* What a start makes of the saved state.                                  *)
LEMMA BootedParts ==
  ASSUME strategy \in Memories, account \in Int, clock \in Int, NEW working \in BOOLEAN,
         History.rolls \in 0 .. 2, History.start \in Int, History.last \in Int
  PROVE  LET k == Booted(working)
         IN  /\ k \in Memories /\ ~ k.pend
             /\ k.rolls = History.rolls /\ k.start = History.start /\ k.lastDt = History.last
             /\ k.mark = strategy.st.lastBar /\ k.st.lastBar = History.last
             /\ BootMoves(strategy.st.phase, k.st.phase, account)
<1> DEFINE b == Blank(strategy.st, NoBar)
           c == OnBootstrapSnapshot(b, account, working, clock)
           p == strategy.st.phase
<1>1. b \in Memories /\ b.st = strategy.st /\ ~ b.pend
  BY ConstantParts DEF Blank, Memories
<1>2. /\ c \in Memories /\ c.st.lastBar = strategy.st.lastBar /\ ~ c.pend
      /\ SnapshotMoves(p, c.st.phase, account)
  <2>1. b.st.phase = p /\ b.st.lastBar = strategy.st.lastBar
    BY <1>1
  <2> HIDE DEF b, p
  <2>2. b \in Memories /\ ~ b.pend
    BY <1>1
  <2>3. /\ c \in Memories /\ c.st.lastBar = b.st.lastBar /\ (c.pend <=> b.pend)
        /\ SnapshotMoves(b.st.phase, c.st.phase, account)
    <3>1. account \in Int /\ clock \in Int /\ working \in BOOLEAN
      OBVIOUS
    <3> QED
      BY ONLY <3>1, <2>2, SnapshotParts DEF c
  <2> HIDE DEF c
  <2> QED
    BY <2>1, <2>2, <2>3
<1> DEFINE d == OnRuntimeStateRestored(c)
           u == [d EXCEPT !.rolls = History.rolls, !.start = History.start, !.lastDt = History.last]
           q == IF d.st.phase = NotWarmed /\ Warmed(u) THEN Flat ELSE d.st.phase
           k == Booted(working)
<1> HIDE DEF c
<1>3. d \in Memories /\ d.st = c.st /\ d.mark = c.st.lastBar /\ ~ d.pend
  BY <1>2 DEF OnRuntimeStateRestored, Memories, States
<1>4. k = Persist(u, q, History.last)
  BY DEF Booted, WarmupFromHistory, c
<1> HIDE DEF d
<1>5. /\ u \in Memories /\ ~ u.pend /\ u.mark = d.mark
      /\ u.rolls = History.rolls /\ u.start = History.start /\ u.lastDt = History.last
  BY <1>3 DEF Memories
<1>6. d.st.phase \in Phases
  BY <1>3 DEF Memories, States
<1>7. q \in Phases /\ (q = d.st.phase \/ (d.st.phase = NotWarmed /\ q = Flat))
  BY <1>6, PhaseTypes
<1> HIDE DEF u, q, k
<1>8. k \in Memories /\ SameSessionState(k, u) /\ k.st.phase = q /\ k.st.lastBar = History.last
  BY <1>4, <1>5, <1>7, PersistParts
<1>9. BootMoves(p, q, account)
  <2>1. CASE q = d.st.phase
    BY <2>1, <1>2, <1>3 DEF BootMoves
  <2>2. CASE d.st.phase = NotWarmed /\ q = Flat
    <3>1. c.st.phase # Flat /\ c.st.phase.name = "NotWarmed"
      BY <2>2, <1>3 DEF NotWarmed, Flat
    <3>2. c.st.phase = p
      BY <3>1, <1>2 DEF Held, SnapshotMoves
    <3> QED
      BY <2>2, <3>1, <3>2 DEF BootMoves
  <2> QED
    BY <2>1, <2>2, <1>7
<1> QED
  BY <1>2, <1>3, <1>5, <1>8, <1>9 DEF SameSessionState, k, p

-----------------------------------------------------------------------------
(* What becomes of the order of a callback.                                *)

(* The command published for the order of r, as apply_intents makes it.    *)
NewCommand(r, id) ==
  [id |-> id, lots |-> r.order.lots, class |-> r.order.class,
   session |-> r.m.start, life |-> restarts,
   again |-> strategy.st.phase.name = "EntryDeferred",
   certain |-> Certain(r.order.class),
   answer |-> "none", filled |-> FALSE]

(* The four things that can become of what a callback returned: it orders  *)
(* nothing; its order is dropped, and the state before it comes back; it   *)
(* is an exit refused for a closed window; or it is published.             *)
Kept(r) == r.order = NoOrder /\ strategy' = r.m /\ cmds' = cmds
Dropped(r) == r.order # NoOrder /\ strategy' = [r.m EXCEPT !.st = strategy.st] /\ cmds' = cmds
Undone(r, id) ==
  r.order.class = "Exit" /\ strategy' = OnAck(r.m, id, "closed", clock).m /\ cmds' = cmds
Published(r, id) ==
  r.order # NoOrder /\ strategy' = r.m /\ cmds' = Append(cmds, NewCommand(r, id))

(* There is nothing else that can become of it.                            *)
LEMMA ApplyParts ==
  ASSUME cmds \in Seq(Commands), NEW r, NEW created, NEW open \in BOOLEAN, NEW ready \in BOOLEAN,
         Apply(r, created, open, ready)
  PROVE  /\ now' = created
         /\ Kept(r) \/ Dropped(r) \/ Undone(r, created) \/ Published(r, created)
<1> DEFINE dropped == (r.order.class = "Entry" /\ ~ (open /\ ready)) \/ (~ ready /\ pos = 0)
           closed == ~ dropped /\ r.order.class = "Exit" /\ ~ open
           a == ApplyIntents(strategy, r, created, open, ready)
           c == NewCommand(r, created)
<1>1. strategy' = a.m /\ cmds' = cmds \o a.new /\ now' = created
  BY DEF Apply
<1>2. cmds \o << >> = cmds
  BY ConcatEmptySeq
<1>3. CASE r.order = NoOrder
  <2>1. a = [m |-> r.m, new |-> << >>]
    BY <1>3 DEF ApplyIntents
  <2> QED
    BY <2>1, <1>1, <1>2, <1>3 DEF Kept
<1>4. CASE r.order # NoOrder /\ dropped
  <2>1. a = [m |-> [r.m EXCEPT !.st = strategy.st], new |-> << >>]
    BY <1>4 DEF ApplyIntents
  <2> QED
    BY <2>1, <1>1, <1>2, <1>4 DEF Dropped
<1>5. CASE r.order # NoOrder /\ closed
  <2>1. a = [m |-> OnAck(r.m, created, "closed", clock).m, new |-> << >>]
    BY <1>5 DEF ApplyIntents
  <2> QED
    BY <2>1, <1>1, <1>2, <1>5 DEF Undone
<1>6. CASE r.order # NoOrder /\ ~ dropped /\ ~ closed
  <2>1. a = [m |-> r.m, new |-> <<c>>]
    BY <1>6 DEF ApplyIntents, NewCommand
  <2>2. cmds \o <<c>> = Append(cmds, c)
    OBVIOUS
  <2> QED
    BY <2>1, <2>2, <1>1, <1>6 DEF Published
<1> QED
  BY <1>1, <1>3, <1>4, <1>5, <1>6

(* A command more: the others keep their places.                           *)
LEMMA AppendParts ==
  ASSUME NEW S, NEW s \in Seq(S), NEW c \in S
  PROVE  /\ Append(s, c) \in Seq(S) /\ Len(Append(s, c)) = Len(s) + 1 /\ Len(s) \in Nat
         /\ \A i \in 1 .. Len(s) : Append(s, c)[i] = s[i]
         /\ Append(s, c)[Len(s) + 1] = c
         /\ \A i : i \in 1 .. Len(s) + 1 <=> i \in 1 .. Len(s) \/ i = Len(s) + 1
<1>1. Len(s) \in Nat
  BY LenProperties
<1> QED
  BY <1>1, AppendProperties

(* The first event is taken: the others move one place forward.            *)
LEMMA TailParts ==
  ASSUME NEW S, NEW s \in Seq(S), Len(s) > 0
  PROVE  /\ s # << >> /\ Tail(s) \in Seq(S) /\ Len(Tail(s)) = Len(s) - 1 /\ Len(s) \in Nat
         /\ Head(s) \in S /\ Head(s) = s[1]
         /\ \A i \in 1 .. Len(Tail(s)) : i + 1 \in 1 .. Len(s) /\ Tail(s)[i] = s[i + 1]
<1>1. Len(s) \in Nat /\ s # << >>
  BY LenProperties, EmptySeq
<1>2. /\ Tail(s) \in Seq(S) /\ Len(Tail(s)) = Len(s) - 1 /\ Head(s) \in S
      /\ \A i \in 1 .. Len(Tail(s)) : Tail(s)[i] = s[i + 1]
  BY <1>1, HeadTailProperties
<1>3. Head(s) = s[1]
  OBVIOUS
<1> QED
  BY <1>1, <1>2, <1>3

-----------------------------------------------------------------------------
(* The handlers, step by step: what each of them calls and what it leaves. *)

(* Orders of a callback.                                                   *)
Wanted == [lots : Int, class : {"Entry", "Exit"}]

(* Streams that can be in hand.                                            *)
Kinds == {"none", "acks", "orders", "positions", "bars"}

(* A published order is a command.                                         *)
LEMMA CommandType ==
  ASSUME NEW r, r.m \in Memories, r.order \in Wanted, NEW id \in Int, restarts \in Nat
  PROVE  NewCommand(r, id) \in Commands
<1>1. r.m.start \in Int
  BY DEF Memories
<1>2. Certain(r.order.class) \in BOOLEAN /\ (strategy.st.phase.name = "EntryDeferred") \in BOOLEAN
  BY DEF Certain
<1> QED
  BY <1>1, <1>2 DEF NewCommand, Commands, Wanted, Answers

(* Whatever becomes of the order, the session is as the callback left it.  *)
LEMMA Applied ==
  ASSUME TypeOK, NEW r, r.m \in Memories, r.order = NoOrder \/ r.order \in Wanted,
         NEW id \in Nat, NEW open \in BOOLEAN, NEW ready \in BOOLEAN, Apply(r, id, open, ready)
  PROVE  /\ strategy' \in Memories /\ cmds' \in Seq(Commands) /\ now' = id
         /\ SameSessionState(strategy', r.m)
         /\ strategy'.st.lastBar = r.m.st.lastBar \/ strategy'.st.lastBar = strategy.st.lastBar
         /\ \/ cmds' = cmds
            \/ /\ r.order \in Wanted /\ strategy' = r.m
               /\ NewCommand(r, id) \in Commands /\ cmds' = Append(cmds, NewCommand(r, id))
<1>1. strategy \in Memories /\ cmds \in Seq(Commands) /\ clock \in Int /\ restarts \in Nat /\ id \in Int
  BY DEF TypeOK
<1>2. now' = id /\ (Kept(r) \/ Dropped(r) \/ Undone(r, id) \/ Published(r, id))
  BY <1>1, ApplyParts
<1>3. CASE Kept(r)
  BY <1>1, <1>2, <1>3 DEF Kept, SameSessionState
<1>4. CASE Dropped(r)
  BY <1>1, <1>2, <1>4 DEF Dropped, SameSessionState, Memories
<1>5. CASE Undone(r, id)
  <2>1. strategy' = OnAck(r.m, id, "closed", clock).m /\ cmds' = cmds
    BY <1>5 DEF Undone
  <2> QED
    BY <2>1, <1>1, <1>2, OnAckParts
<1>6. CASE Published(r, id)
  <2>1. strategy' = r.m /\ cmds' = Append(cmds, NewCommand(r, id)) /\ r.order \in Wanted
    BY <1>6 DEF Published
  <2>2. NewCommand(r, id) \in Commands
    BY <2>1, <1>1, CommandType
  <2> QED
    BY <2>1, <2>2, <1>1, <1>2, AppendParts DEF SameSessionState
<1> QED
  BY <1>2, <1>3, <1>4, <1>5, <1>6

(* A stream in hand has an event.                                          *)
LEMMA TakeParts ==
  ASSUME NEW stream, Take(stream), stream \in {"acks", "orders", "positions", "bars"}
  PROVE  begun' \in Kinds /\ Left[stream] > 0
BY DEF Take, Kinds

(* How much is left of each stream.                                        *)
LEMMA LeftParts ==
  /\ DOMAIN Left = Kinds
  /\ Left["acks"] = Len(acks) /\ Left["orders"] = Len(orders)
  /\ Left["positions"] = Len(positions) /\ Left["bars"] = published - read
BY DEF Left, Kinds

(* The time of the runtime does not go back.                               *)
LEMMA NormalizedParts ==
  ASSUME now \in Nat, NEW ts \in Nat
  PROVE  Normalized(ts) \in Nat /\ Normalized(ts) >= now /\ Normalized(ts) >= ts
         /\ (Normalized(ts) = now \/ Normalized(ts) = ts)
BY DEF Normalized, Greater

(* handle_ack: the callback, its session and what becomes of its order.    *)
LEMMA HandleAckParts ==
  ASSUME TypeOK, NEW open \in BOOLEAN, NEW ready \in BOOLEAN, HandleAck(open, ready),
         NEW a, a = Head(acks), NEW r, r = OnAck(strategy, a.req, a.status, a.ts)
  PROVE  /\ acks # << >> /\ Len(acks) > 0 /\ a = acks[1] /\ a \in Events
         /\ acks' = Tail(acks) /\ acks' \in Seq(Events)
         /\ r.m \in Memories /\ SameSessionState(r.m, strategy)
         /\ r.m.st.lastBar = strategy.st.lastBar
         /\ AckMoves(strategy.st.phase, r.m.st.phase, a.req, a.status, r.order)
         /\ r.order = NoOrder \/ (r.order \in Wanted /\ r.order.class = "Exit")
         /\ Apply(r, Normalized(a.ts), open, ready)
         /\ begun' \in Kinds
         /\ UNCHANGED <<env, orders, positions, read, pos, restarts>>
<1>1. strategy \in Memories /\ acks \in Seq(Events)
  BY DEF TypeOK
<1>2. Len(acks) > 0 /\ begun' \in Kinds
  BY TakeParts, LeftParts DEF HandleAck
<1>3. acks # << >> /\ a = acks[1] /\ a \in Events /\ Tail(acks) \in Seq(Events)
  BY <1>1, <1>2, TailParts
<1>4. a.ts \in Int
  BY <1>3 DEF Events
<1>5. /\ r.m \in Memories /\ SameSessionState(r.m, strategy)
      /\ r.m.st.lastBar = strategy.st.lastBar
      /\ AckMoves(strategy.st.phase, r.m.st.phase, a.req, a.status, r.order)
  BY <1>1, <1>4, OnAckParts
<1>6. r.order = NoOrder \/ (r.order \in Wanted /\ r.order.class = "Exit")
  <2>1. SUFFICES ASSUME r.order # NoOrder PROVE r.order \in Wanted /\ r.order.class = "Exit"
    OBVIOUS
  <2>2. r.order = [lots |-> strategy.st.phase.lots, class |-> "Exit"] /\ strategy.st.phase.name = "PendingExit"
    BY <2>1, <1>5 DEF AckMoves
  <2>3. strategy.st.phase \in Phases
    BY <1>1 DEF Memories, States
  <2>4. strategy.st.phase.lots \in Int
    BY <2>2, <2>3, PhaseParts DEF Orders, Exiting
  <2> QED
    BY <2>2, <2>4 DEF Wanted
<1>7. /\ Apply(r, Normalized(a.ts), open, ready) /\ acks' = Tail(acks)
      /\ UNCHANGED <<env, orders, positions, read, pos, restarts>>
  BY DEF HandleAck
<1> QED
  BY <1>2, <1>3, <1>5, <1>6, <1>7

(* handle_order in the same terms; it orders nothing.                      *)
LEMMA HandleOrderParts ==
  ASSUME TypeOK, HandleOrder,
         NEW o, o = Head(orders), NEW r, r = Stay(OnOrder(strategy, o.req, o.status, o.ts))
  PROVE  /\ orders # << >> /\ Len(orders) > 0 /\ o = orders[1] /\ o \in Events
         /\ orders' = Tail(orders) /\ orders' \in Seq(Events)
         /\ r.m \in Memories /\ SameSessionState(r.m, strategy)
         /\ r.m.st.lastBar = strategy.st.lastBar
         /\ OrderMoves(strategy.st.phase, r.m.st.phase, o.req, o.status)
         /\ r.order = NoOrder
         /\ Apply(r, Normalized(o.ts), TRUE, TRUE)
         /\ begun' \in Kinds
         /\ UNCHANGED <<env, acks, positions, read, pos, restarts>>
<1>1. strategy \in Memories /\ orders \in Seq(Events)
  BY DEF TypeOK
<1>2. Len(orders) > 0 /\ begun' \in Kinds
  BY TakeParts, LeftParts DEF HandleOrder
<1>3. orders # << >> /\ o = orders[1] /\ o \in Events /\ Tail(orders) \in Seq(Events)
  BY <1>1, <1>2, TailParts
<1>4. o.ts \in Int
  BY <1>3 DEF Events
<1>5. r.m = OnOrder(strategy, o.req, o.status, o.ts) /\ r.order = NoOrder
  BY DEF Stay, Then
<1>6. /\ r.m \in Memories /\ SameSessionState(r.m, strategy)
      /\ r.m.st.lastBar = strategy.st.lastBar
      /\ OrderMoves(strategy.st.phase, r.m.st.phase, o.req, o.status)
  BY <1>1, <1>4, <1>5, OnOrderParts
<1>7. /\ Apply(r, Normalized(o.ts), TRUE, TRUE) /\ orders' = Tail(orders)
      /\ UNCHANGED <<env, acks, positions, read, pos, restarts>>
  BY DEF HandleOrder
<1> QED
  BY <1>2, <1>3, <1>5, <1>6, <1>7

(* The last bar is a time.                                                 *)
LEMMA LastBarType ==
  ASSUME TypeOK
  PROVE  LastBar \in Int /\ (read = 0 => LastBar = NoBar) /\ (read # 0 => LastBar = Bars[read])
<1>1. read \in Nat /\ read <= Len(Bars)
  BY ConstantParts DEF TypeOK
<1>2. read # 0 => read \in 1 .. Len(Bars)
  BY <1>1, ConstantParts
<1> QED
  BY <1>2, ConstantParts DEF LastBar

(* handle_position in the same terms; it orders nothing.                   *)
LEMMA HandlePositionParts ==
  ASSUME TypeOK, HandlePosition, NEW e, e = Head(positions)
  PROVE  /\ positions # << >> /\ Len(positions) > 0 /\ e = positions[1] /\ e \in Reports
         /\ positions' = Tail(positions) /\ positions' \in Seq(Reports)
         /\ pos' = e.qty
         /\ begun' \in Kinds
         /\ UNCHANGED <<env, acks, orders, read, restarts>>
         /\ \E r : /\ r.m \in Memories /\ SameSessionState(r.m, strategy)
                   /\ r.m.st.lastBar = strategy.st.lastBar
                   /\ PositionMoves(strategy.st.phase, r.m.st.phase, e.qty)
                   /\ r.order = NoOrder
                   /\ Apply(r, Normalized(e.ts), TRUE, TRUE)
<1> DEFINE at == IF read = 0 THEN e.ts ELSE LastBar
           r == Stay(OnPosition(strategy, e.qty, at))
<1>1. strategy \in Memories /\ positions \in Seq(Reports)
  BY DEF TypeOK
<1>2. Len(positions) > 0 /\ begun' \in Kinds
  BY TakeParts, LeftParts DEF HandlePosition
<1>3. positions # << >> /\ e = positions[1] /\ e \in Reports /\ Tail(positions) \in Seq(Reports)
  BY <1>1, <1>2, TailParts
<1>4. e.qty \in Int /\ at \in Int
  BY <1>3, LastBarType DEF Reports
<1>5. r.m = OnPosition(strategy, e.qty, at) /\ r.order = NoOrder
  BY DEF Stay, Then
<1>6. /\ Apply(r, Normalized(e.ts), TRUE, TRUE) /\ positions' = Tail(positions) /\ pos' = e.qty
      /\ UNCHANGED <<env, acks, orders, read, restarts>>
  BY DEF HandlePosition
<1> HIDE DEF r, at
<1>7. /\ r.m \in Memories /\ SameSessionState(r.m, strategy)
      /\ r.m.st.lastBar = strategy.st.lastBar
      /\ PositionMoves(strategy.st.phase, r.m.st.phase, e.qty)
  BY <1>1, <1>4, <1>5, OnPositionParts
<1> QED
  BY <1>2, <1>3, <1>5, <1>6, <1>7

(* A bar not handled before is later than what the strategy remembers.     *)
Reading ==
  /\ strategy.lastDt = LastBar /\ strategy.rolls = Rolls(read)
  /\ read < Len(Bars) =>
       /\ strategy.mark < Bars[read + 1]
       /\ strategy.st.lastBar < Bars[read + 1]
       /\ strategy.start < Bars[read + 1]

(* What a bar orders is an exit in a position, and an entry otherwise.     *)
LEMMA OrderType ==
  ASSUME NEW p \in Phases, NEW q \in Phases, NEW order, NEW g \in Memories,
         NEW ctx \in Contexts, BarMoves(g, p, q, order, ctx)
  PROVE  order = NoOrder \/ (order \in Wanted /\ (order.class = "Exit" <=> p.name \in Exposed))
<1>1. PICK lots \in Int : order = BarOrder(p, lots)
  BY DEF BarMoves
<1> QED
  BY <1>1 DEF BarOrder, Wanted

(* The bar of time t was handled: r is what on_bar returned, id the time   *)
(* of the event for the runtime.                                           *)
BarHandled(t, id, r, ctx, open, ready) ==
  /\ read < published /\ read + 1 \in 1 .. Len(Bars) /\ t = Bars[read + 1]
  /\ read' = read + 1 /\ id = Normalized(t)
  /\ ctx.pos = pos /\ ctx.event = id
  /\ begun' \in Kinds /\ UNCHANGED <<env, streams, pos, restarts>>
  /\ BarSession(strategy, r.m, t)
  /\ r.order = NoOrder \/ r.order \in Wanted
  /\ Apply(r, id, open, ready)
  /\ \/ r.order = NoOrder /\ r.m.st.phase = strategy.st.phase
     \/ \E g \in Memories :
          /\ g.rolls = r.m.rolls
          /\ BarMoves(g, strategy.st.phase, r.m.st.phase, r.order, ctx)

(* handle_bar in the same terms.                                           *)
LEMMA HandleBarParts ==
  ASSUME TypeOK, Reading, NEW open \in BOOLEAN, NEW ready \in BOOLEAN,
         NEW signal \in BOOLEAN, NEW hit \in BOOLEAN, NEW blocked \in BOOLEAN,
         HandleBar(signal, hit, blocked, open, ready)
  PROVE  \E t \in Nat, id \in Nat, ctx \in Contexts :
           \E r : BarHandled(t, id, r, ctx, open, ready)
<1> DEFINE t == Bars[read + 1]
           id == Normalized(t)
           ctx == Context(id, pos)
           r == OnBar(strategy, ctx, t, signal, hit, blocked)
<1>1. /\ strategy \in Memories /\ (strategy.pend => strategy.traded) /\ now \in Nat /\ pos \in Int
      /\ clock \in Nat /\ published \in 0 .. Len(Bars) /\ read \in 0 .. published
  BY DEF TypeOK
<1>2. begun' \in Kinds /\ read < published
  <2>1. Take("bars")
    BY DEF HandleBar
  <2>2. begun' \in Kinds /\ Left["bars"] > 0
    BY <2>1, TakeParts
  <2> QED
    BY <2>2, <1>1, LeftParts
<1>3. read + 1 \in 1 .. Len(Bars) /\ read < Len(Bars) /\ t \in Nat
  BY <1>1, <1>2, ConstantParts
<1>4. strategy.mark < t
  BY <1>3 DEF Reading
<1>5. /\ Apply(r, id, open, ready) /\ read' = read + 1
      /\ UNCHANGED <<env, streams, pos, restarts>>
  BY DEF HandleBar
<1> HIDE DEF t
<1>6. id \in Nat
  BY <1>1, <1>3, NormalizedParts
<1> HIDE DEF id
<1>7. ctx \in Contexts /\ ctx.pos = pos /\ ctx.event = id
  BY <1>1, <1>6 DEF Context, Contexts
<1> HIDE DEF ctx
<1>8. /\ BarSession(strategy, r.m, t)
      /\ \/ r.order = NoOrder /\ r.m.st.phase = strategy.st.phase
         \/ \E g \in Memories :
              /\ g.rolls = r.m.rolls
              /\ BarMoves(g, strategy.st.phase, r.m.st.phase, r.order, ctx)
  <2>1. strategy.mark \in Int /\ t \in Int
    BY <1>1, <1>3 DEF Memories
  <2>2. t > strategy.mark
    BY <2>1, <1>4
  <2> QED
    BY ONLY <2>1, <2>2, <1>1, <1>7, OnBarParts,
            signal \in BOOLEAN, hit \in BOOLEAN, blocked \in BOOLEAN DEF r
<1> HIDE DEF r
<1>9. r.order = NoOrder \/ r.order \in Wanted
  <2>1. strategy.st.phase \in Phases /\ r.m.st.phase \in Phases
    BY <1>1, <1>8 DEF Memories, States, BarSession
  <2> QED
    BY <2>1, <1>7, <1>8, OrderType
<1>10. t = Bars[read + 1] /\ id = Normalized(t)
  BY DEF t, id
<1>11. BarHandled(t, id, r, ctx, open, ready)
  BY <1>2, <1>3, <1>5, <1>7, <1>8, <1>9, <1>10 DEF BarHandled
<1> QED
  BY <1>3, <1>6, <1>7, <1>11

-----------------------------------------------------------------------------
(* What holds with or without certainty: types, times, sessions and lives. *)

(* Times of events and requests: a request id is not later than what the   *)
(* runtime has seen, or than the next bar.                                 *)
Dated(s) == \A k \in 1 .. Len(s) : s[k].ts <= clock + 1

(* The clock is that of the last bar; nothing that is on its way is later  *)
(* than the second after it; and a request id is not later than what the   *)
(* runtime has seen, or than the bar that comes next.                      *)
Timely ==
  /\ clock = IF published = 0 THEN 0 ELSE Bars[published]
  /\ published = 0 => cmds = << >> /\ acks = << >>
  /\ now <= clock + 1
  /\ Dated(acks) /\ Dated(orders) /\ Dated(positions)
  /\ \A i \in 1 .. Len(cmds) :
       /\ cmds[i].id <= clock + 1
       /\ read < Len(Bars) => cmds[i].id <= now \/ cmds[i].id <= Bars[read + 1]

(* An entry that is not the second try of one refused for a closed window. *)
OwnEntry(i) == cmds[i].class = "Entry" /\ ~ cmds[i].again

(* In one life, of two entries of a session one is a second try.           *)
OneEach ==
  \A i, j \in 1 .. Len(cmds) :
    SameSession(i, j) /\ cmds[i].life = cmds[j].life => cmds[i].again \/ cmds[j].again

(* The stream s, or what is left when its first event was taken.           *)
Taken(s, r) == r = s \/ (Len(s) > 0 /\ r = Tail(s))

(* An event of a stream other than the bars: the session stays as it is,   *)
(* and the only command is an exit.                                        *)
EventStep ==
  /\ strategy' \in Memories /\ SameSessionState(strategy', strategy)
  /\ strategy'.st.lastBar = strategy.st.lastBar
  /\ UNCHANGED <<env, read, restarts>>
  /\ Taken(acks, acks') /\ Taken(orders, orders') /\ Taken(positions, positions')
  /\ acks' \in Seq(Events) /\ orders' \in Seq(Events) /\ positions' \in Seq(Reports)
  /\ pos' \in Int /\ begun' \in Kinds
  /\ now' \in Nat /\ now' >= now /\ (Timely => now' <= clock + 1)
  /\ \/ cmds' = cmds
     \/ acks # << >> /\ \E c \in Commands :
          /\ c.id = now' /\ c.class = "Exit" /\ c.life = restarts /\ cmds' = Append(cmds, c)

(* An answer is such a step.                                               *)
LEMMA EventAck ==
  ASSUME TypeOK, NEW open \in BOOLEAN, NEW ready \in BOOLEAN, HandleAck(open, ready)
  PROVE  EventStep
<1> DEFINE a == Head(acks)
           r == OnAck(strategy, a.req, a.status, a.ts)
           id == Normalized(a.ts)
<1>1. /\ acks # << >> /\ Len(acks) > 0 /\ a = acks[1] /\ a \in Events
      /\ acks' = Tail(acks) /\ acks' \in Seq(Events)
      /\ r.m \in Memories /\ SameSessionState(r.m, strategy)
      /\ r.m.st.lastBar = strategy.st.lastBar
      /\ r.order = NoOrder \/ (r.order \in Wanted /\ r.order.class = "Exit")
      /\ Apply(r, id, open, ready)
      /\ begun' \in Kinds
      /\ UNCHANGED <<env, orders, positions, read, pos, restarts>>
  BY HandleAckParts
<1>2. now \in Nat /\ clock \in Nat /\ a.ts \in Nat /\ pos \in Int /\ acks \in Seq(Events)
      /\ orders \in Seq(Events) /\ positions \in Seq(Reports) /\ strategy \in Memories
  BY <1>1 DEF TypeOK, Events
<1> HIDE DEF a, r
<1>3. id \in Nat /\ id >= now /\ (id = now \/ id = a.ts)
  BY <1>2, NormalizedParts
<1>4. Timely => id <= clock + 1
  <2>1. SUFFICES ASSUME Timely PROVE now <= clock + 1 /\ a.ts <= clock + 1
    BY <1>3
  <2>2. 1 \in 1 .. Len(acks)
    BY <1>1, <1>2, LenProperties
  <2> QED
    BY <2>1, <2>2, <1>1 DEF Timely, Dated
<1> HIDE DEF id
<1>5. /\ strategy' \in Memories /\ now' = id
      /\ SameSessionState(strategy', r.m)
      /\ strategy'.st.lastBar = r.m.st.lastBar \/ strategy'.st.lastBar = strategy.st.lastBar
      /\ \/ cmds' = cmds
         \/ /\ r.order \in Wanted /\ NewCommand(r, id) \in Commands
            /\ cmds' = Append(cmds, NewCommand(r, id))
  BY <1>1, <1>3, Applied
<1>6. NewCommand(r, id).id = id /\ NewCommand(r, id).class = r.order.class /\ NewCommand(r, id).life = restarts
  BY DEF NewCommand
<1>7. r.order \in Wanted => r.order.class = "Exit"
  BY <1>1 DEF NoOrder, Wanted
<1>8. \/ cmds' = cmds
      \/ acks # << >> /\ \E c \in Commands :
          /\ c.id = now' /\ c.class = "Exit" /\ c.life = restarts /\ cmds' = Append(cmds, c)
  BY <1>1, <1>5, <1>6, <1>7
<1> QED
  BY <1>1, <1>2, <1>3, <1>4, <1>5, <1>8 DEF EventStep, Taken, SameSessionState

(* An order event is such a step.                                          *)
LEMMA EventOrder ==
  ASSUME TypeOK, HandleOrder
  PROVE  EventStep
<1> DEFINE o == Head(orders)
           r == Stay(OnOrder(strategy, o.req, o.status, o.ts))
           id == Normalized(o.ts)
<1>1. /\ orders # << >> /\ Len(orders) > 0 /\ o = orders[1] /\ o \in Events
      /\ orders' = Tail(orders) /\ orders' \in Seq(Events)
      /\ r.m \in Memories /\ SameSessionState(r.m, strategy)
      /\ r.m.st.lastBar = strategy.st.lastBar
      /\ r.order = NoOrder
      /\ Apply(r, id, TRUE, TRUE)
      /\ begun' \in Kinds
      /\ UNCHANGED <<env, acks, positions, read, pos, restarts>>
  BY HandleOrderParts
<1>2. now \in Nat /\ clock \in Nat /\ o.ts \in Nat /\ pos \in Int /\ orders \in Seq(Events)
      /\ acks \in Seq(Events) /\ positions \in Seq(Reports) /\ strategy \in Memories
  BY <1>1 DEF TypeOK, Events
<1> HIDE DEF o, r
<1>3. id \in Nat /\ id >= now /\ (id = now \/ id = o.ts)
  BY <1>2, NormalizedParts
<1>4. Timely => id <= clock + 1
  <2>1. SUFFICES ASSUME Timely PROVE now <= clock + 1 /\ o.ts <= clock + 1
    BY <1>3
  <2>2. 1 \in 1 .. Len(orders)
    BY <1>1, <1>2, LenProperties
  <2> QED
    BY <2>1, <2>2, <1>1 DEF Timely, Dated
<1> HIDE DEF id
<1>5. /\ strategy' \in Memories /\ now' = id
      /\ SameSessionState(strategy', r.m)
      /\ strategy'.st.lastBar = r.m.st.lastBar \/ strategy'.st.lastBar = strategy.st.lastBar
      /\ \/ cmds' = cmds
         \/ r.order \in Wanted
  <2>1. TRUE \in BOOLEAN
    OBVIOUS
  <2> QED
    BY <2>1, <1>1, <1>3, Applied
<1>6. r.order \notin Wanted
  BY <1>1 DEF NoOrder, Wanted
<1> QED
  BY <1>1, <1>2, <1>3, <1>4, <1>5, <1>6 DEF EventStep, Taken, SameSessionState

(* A report of the position is such a step.                                *)
LEMMA EventPosition ==
  ASSUME TypeOK, HandlePosition
  PROVE  EventStep
<1> DEFINE e == Head(positions)
           id == Normalized(e.ts)
<1>1. /\ positions # << >> /\ Len(positions) > 0 /\ e = positions[1] /\ e \in Reports
      /\ positions' = Tail(positions) /\ positions' \in Seq(Reports)
      /\ pos' = e.qty
      /\ begun' \in Kinds
      /\ UNCHANGED <<env, acks, orders, read, restarts>>
      /\ \E r : /\ r.m \in Memories /\ SameSessionState(r.m, strategy)
                /\ r.m.st.lastBar = strategy.st.lastBar
                /\ PositionMoves(strategy.st.phase, r.m.st.phase, e.qty)
                /\ r.order = NoOrder
                /\ Apply(r, id, TRUE, TRUE)
  BY HandlePositionParts
<1>2. now \in Nat /\ clock \in Nat /\ e.ts \in Nat /\ e.qty \in Int /\ orders \in Seq(Events)
      /\ acks \in Seq(Events) /\ positions \in Seq(Reports) /\ strategy \in Memories
  BY <1>1 DEF TypeOK, Reports
<1> HIDE DEF e
<1>3. id \in Nat /\ id >= now /\ (id = now \/ id = e.ts)
  BY <1>2, NormalizedParts
<1>4. Timely => id <= clock + 1
  <2>1. SUFFICES ASSUME Timely PROVE now <= clock + 1 /\ e.ts <= clock + 1
    BY <1>3
  <2>2. 1 \in 1 .. Len(positions)
    BY <1>1, <1>2, LenProperties
  <2> QED
    BY <2>1, <2>2, <1>1 DEF Timely, Dated
<1>5. PICK r : /\ r.m \in Memories /\ SameSessionState(r.m, strategy)
               /\ r.m.st.lastBar = strategy.st.lastBar
               /\ r.order = NoOrder
               /\ Apply(r, id, TRUE, TRUE)
  BY <1>1
<1> HIDE DEF id
<1>6. /\ strategy' \in Memories /\ now' = id
      /\ SameSessionState(strategy', r.m)
      /\ strategy'.st.lastBar = r.m.st.lastBar \/ strategy'.st.lastBar = strategy.st.lastBar
      /\ \/ cmds' = cmds
         \/ r.order \in Wanted
  <2>1. TRUE \in BOOLEAN
    OBVIOUS
  <2> QED
    BY <2>1, <1>3, <1>5, Applied
<1>7. r.order \notin Wanted
  BY <1>5 DEF NoOrder, Wanted
<1> QED
  BY <1>1, <1>2, <1>3, <1>4, <1>5, <1>6, <1>7 DEF EventStep, Taken, SameSessionState

(* A bar: a session of its own, and a command of any kind.                 *)
BarCommand(c, t) ==
  /\ c \in Commands /\ c.id = now' /\ c.life = restarts /\ c.session = strategy'.start
  /\ cmds' = Append(cmds, c)
  /\ c.class = "Entry" /\ ~ c.again =>
       /\ strategy'.traded /\ ~ strategy'.pend
       /\ NewSession(strategy, t) \/ ~ strategy.traded \/ strategy.pend

(* A bar: the session moves on, and a command is one as above.             *)
BarStep(t) ==
  /\ read < published /\ read + 1 \in 1 .. Len(Bars) /\ t = Bars[read + 1] /\ t \in Nat
  /\ read' = read + 1 /\ begun' \in Kinds /\ UNCHANGED <<env, streams, pos, restarts>>
  /\ now' \in Nat /\ now' >= now /\ now' >= t /\ (now' = now \/ now' = t)
  /\ strategy' \in Memories /\ (strategy'.pend => strategy'.traded)
  /\ strategy'.lastDt = t /\ strategy'.mark = t
  /\ strategy'.st.lastBar = t \/ strategy'.st.lastBar = strategy.st.lastBar
  /\ strategy'.rolls = IF NewSession(strategy, t) /\ strategy.rolls # 2
                       THEN strategy.rolls + 1 ELSE strategy.rolls
  /\ strategy'.start = IF NewSession(strategy, t) THEN t ELSE strategy.start
  /\ ~ NewSession(strategy, t) /\ strategy.traded /\ ~ strategy.pend =>
       strategy'.traded /\ ~ strategy'.pend
  /\ cmds' = cmds \/ \E c : BarCommand(c, t)

(* An entry is sent from Flat, or for the second time from EntryDeferred.  *)
LEMMA EntrySent ==
  ASSUME NEW p \in Phases, NEW q \in Phases, NEW order \in Wanted, order.class = "Entry",
         NEW g \in Memories, NEW ctx \in Contexts, BarMoves(g, p, q, order, ctx)
  PROVE  /\ \/ p.name = "Flat" /\ Warmed(g) /\ order.lots = 1
            \/ p.name = "EntryDeferred" /\ order.lots = p.lots
         /\ Sent(q, "PendingEntry", order.lots, ctx.event, ctx.pos)
<1>1. PICK lots \in Int :
        /\ order = BarOrder(p, lots)
        /\ \/ p.name \notin Exposed /\ EntryMoves(g, p, q, lots, ctx)
           \/ p.name \in Exposed /\ ExitMoves(p, q, lots, ctx)
  BY DEF BarMoves
<1>2. lots # 0 /\ p.name \notin Exposed /\ order.lots = lots
  BY <1>1 DEF BarOrder, NoOrder, Wanted
<1>3. EntryMoves(g, p, q, lots, ctx)
  BY <1>1, <1>2
<1> QED
  BY <1>2, <1>3 DEF EntryMoves

(* handle_bar is such a step.                                              *)
LEMMA BarParts ==
  ASSUME TypeOK, Reading, NEW open \in BOOLEAN, NEW ready \in BOOLEAN,
         NEW signal \in BOOLEAN, NEW hit \in BOOLEAN, NEW blocked \in BOOLEAN,
         HandleBar(signal, hit, blocked, open, ready)
  PROVE  \E t : BarStep(t)
<1>1. PICK t \in Nat, id \in Nat, ctx \in Contexts : \E r : BarHandled(t, id, r, ctx, open, ready)
  BY HandleBarParts
<1>2. PICK r : BarHandled(t, id, r, ctx, open, ready)
  BY <1>1
<1> DEFINE p == strategy.st.phase
           q == r.m.st.phase
           c == NewCommand(r, id)
<1>3. now \in Nat /\ strategy \in Memories
  BY DEF TypeOK
<1>4. /\ r.m \in Memories /\ (r.m.pend => r.m.traded)
      /\ r.m.lastDt = t /\ r.m.mark = t /\ r.m.st.lastBar = t
      /\ r.m.rolls = IF NewSession(strategy, t) /\ strategy.rolls # 2
                     THEN strategy.rolls + 1 ELSE strategy.rolls
      /\ r.m.start = IF NewSession(strategy, t) THEN t ELSE strategy.start
      /\ ~ NewSession(strategy, t) /\ strategy.traded /\ ~ strategy.pend =>
           r.m.traded /\ ~ r.m.pend
      /\ p.name = "Flat" /\ q.name = "PendingEntry" =>
           /\ r.m.traded /\ ~ r.m.pend
           /\ NewSession(strategy, t) \/ ~ strategy.traded \/ strategy.pend
  BY <1>2 DEF BarHandled, BarSession
<1>5. /\ read < published /\ read + 1 \in 1 .. Len(Bars) /\ t = Bars[read + 1]
      /\ read' = read + 1 /\ begun' \in Kinds /\ UNCHANGED <<env, streams, pos, restarts>>
      /\ Apply(r, id, open, ready) /\ (r.order = NoOrder \/ r.order \in Wanted)
      /\ id = Normalized(t)
  BY <1>2 DEF BarHandled
<1>6. id >= now /\ id >= t /\ (id = now \/ id = t)
  BY <1>3, <1>5, NormalizedParts
<1>7. /\ strategy' \in Memories /\ now' = id
      /\ SameSessionState(strategy', r.m)
      /\ strategy'.st.lastBar = r.m.st.lastBar \/ strategy'.st.lastBar = strategy.st.lastBar
      /\ cmds' = cmds \/ (r.order \in Wanted /\ strategy' = r.m /\ c \in Commands /\ cmds' = Append(cmds, c))
  BY <1>4, <1>5, Applied
<1>8. c.id = id /\ c.class = r.order.class /\ c.life = restarts /\ c.session = r.m.start
      /\ (c.again <=> p.name = "EntryDeferred")
  BY DEF NewCommand
<1>9. r.order \in Wanted /\ r.order.class = "Entry" /\ p.name # "EntryDeferred" =>
        p.name = "Flat" /\ q.name = "PendingEntry"
  <2>1. SUFFICES ASSUME r.order \in Wanted, r.order.class = "Entry", p.name # "EntryDeferred"
                 PROVE  p.name = "Flat" /\ q.name = "PendingEntry"
    OBVIOUS
  <2>2. PICK g \in Memories : BarMoves(g, p, q, r.order, ctx)
    BY <1>2, <2>1 DEF BarHandled, NoOrder, Wanted
  <2>3. p \in Phases /\ q \in Phases
    BY <1>3, <1>4 DEF Memories, States
  <2> HIDE DEF p, q
  <2> QED
    BY <2>1, <2>2, <2>3, EntrySent DEF Sent
<1> HIDE DEF c
<1>10. cmds' = cmds \/ BarCommand(c, t)
  <2>1. SUFFICES ASSUME cmds' # cmds PROVE BarCommand(c, t)
    OBVIOUS
  <2>2. r.order \in Wanted /\ strategy' = r.m /\ c \in Commands /\ cmds' = Append(cmds, c)
    BY <2>1, <1>7
  <2>3. c.class = "Entry" /\ ~ c.again =>
          /\ r.m.traded /\ ~ r.m.pend
          /\ NewSession(strategy, t) \/ ~ strategy.traded \/ strategy.pend
    BY <2>2, <1>4, <1>8, <1>9
  <2> QED
    BY <2>2, <2>3, <1>7, <1>8 DEF BarCommand
<1> HIDE DEF p, q
<1>11. BarStep(t)
  BY <1>4, <1>5, <1>6, <1>7, <1>10 DEF BarStep, SameSessionState
<1> QED
  BY <1>11

(* A start: the session and the bars are read from the stream again.       *)
RestartStep ==
  /\ restarts < MaxRestarts /\ restarts' = restarts + 1 /\ restarts \in Nat
  /\ UNCHANGED <<env, streams, cmds>>
  /\ pos' = account /\ now' = clock /\ read' = published /\ begun' = "none"
  /\ strategy' \in Memories /\ ~ strategy'.pend
  /\ strategy'.rolls = Rolls(published)
  /\ strategy'.start = NoBar \/ \E i \in 1 .. published : strategy'.start = Bars[i]
  /\ strategy'.lastDt = IF published = 0 THEN NoBar ELSE Bars[published]
  /\ strategy'.mark = strategy.st.lastBar /\ strategy'.st.lastBar = strategy'.lastDt
  /\ BootMoves(strategy.st.phase, strategy'.st.phase, account)

(* Restart is such a step.                                                 *)
LEMMA RestartParts ==
  ASSUME TypeOK, NEW working \in BOOLEAN, Restart(working)
  PROVE  RestartStep
<1>1. /\ strategy \in Memories /\ account \in Int /\ clock \in Int /\ restarts \in Nat
      /\ published \in 0 .. Len(Bars) /\ past \in 0 .. 2
  BY ConstantParts DEF TypeOK
<1>2. /\ restarts < MaxRestarts /\ restarts' = restarts + 1
      /\ UNCHANGED <<env, streams, cmds>>
      /\ pos' = account /\ now' = clock /\ read' = published /\ begun' = "none"
      /\ strategy' = Booted(working)
  BY DEF Restart
<1>3. /\ History.rolls = Rolls(published) /\ History.rolls \in 0 .. 2
      /\ History.start \in Int /\ History.last \in Int
      /\ published = 0 => History.start = NoBar /\ History.last = NoBar
      /\ published # 0 => History.last = Bars[published]
      /\ History.start = NoBar \/ \E i \in 1 .. published : History.start = Bars[i]
  BY <1>1, HistoryParts
<1>4. /\ strategy' \in Memories /\ ~ strategy'.pend
      /\ strategy'.rolls = History.rolls /\ strategy'.start = History.start
      /\ strategy'.lastDt = History.last
      /\ strategy'.mark = strategy.st.lastBar /\ strategy'.st.lastBar = History.last
      /\ BootMoves(strategy.st.phase, strategy'.st.phase, account)
  BY <1>1, <1>2, <1>3, BootedParts
<1> QED
  BY <1>1, <1>2, <1>3, <1>4 DEF RestartStep

(* The first start.                                                        *)
LEMMA InitParts ==
  ASSUME Init
  PROVE  /\ strategy \in Memories /\ ~ strategy.pend /\ strategy.st.phase = Flat
         /\ strategy.rolls = past /\ past \in 0 .. 2
         /\ strategy.start = NoBar /\ strategy.lastDt = NoBar
         /\ strategy.mark = NoBar /\ strategy.st.lastBar = NoBar
<1> DEFINE s == [phase |-> Flat, traded |-> FALSE, rolls |-> 0,
                 start |-> NoBar, lastDt |-> NoBar, lastBar |-> NoBar]
           b == Blank(s, NoBar)
           u == [b EXCEPT !.rolls = past, !.start = NoBar, !.lastDt = NoBar]
<1>1. past \in 0 .. 2 /\ NoBar \in Int /\ Flat \in Phases
  BY ConstantParts, PhaseTypes DEF Init
<1>2. s \in States /\ s.phase = Flat /\ Flat # NotWarmed
  BY <1>1 DEF States, Flat, NotWarmed
<1> HIDE DEF s
<1>3. b \in Memories /\ b.st = s /\ ~ b.pend /\ b.mark = NoBar
  BY <1>1, <1>2 DEF Blank, Memories
<1> HIDE DEF b
<1>4. /\ u \in Memories /\ u.st = s /\ ~ u.pend /\ u.mark = NoBar
      /\ u.rolls = past /\ u.start = NoBar /\ u.lastDt = NoBar
  BY <1>1, <1>3 DEF Memories
<1>5. strategy = Persist(u, Flat, NoBar)
  BY <1>2, <1>3 DEF Init, WarmupFromHistory, s, b
<1> HIDE DEF u
<1>6. strategy \in Memories /\ SameSessionState(strategy, u) /\ strategy.st.phase = Flat /\ strategy.st.lastBar = NoBar
  BY <1>1, <1>4, <1>5, PersistParts
<1> QED
  BY <1>1, <1>4, <1>6 DEF SameSessionState

(* The commands keep everything but their answer and their execution.      *)
SameOrders ==
  /\ Len(cmds') = Len(cmds)
  /\ \A j \in 1 .. Len(cmds) :
       /\ cmds'[j].id = cmds[j].id /\ cmds'[j].lots = cmds[j].lots
       /\ cmds'[j].class = cmds[j].class /\ cmds'[j].session = cmds[j].session
       /\ cmds'[j].life = cmds[j].life /\ cmds'[j].again = cmds[j].again
       /\ cmds'[j].certain = cmds[j].certain

(* A step of the broker or the gateway.                                    *)
EnvironmentStep ==
  /\ UNCHANGED <<runtime, past, restarts>>
  /\ cmds' \in Seq(Commands) /\ SameOrders
  /\ acks' \in Seq(Events) /\ orders' \in Seq(Events) /\ positions' \in Seq(Reports)
  /\ account' \in Int /\ dawn' \in {dawn, Len(cmds)}
  /\ \/ /\ published < Len(Bars) /\ published' = published + 1 /\ clock' = Bars[published + 1]
        /\ UNCHANGED streams
     \/ /\ UNCHANGED <<published, clock>> /\ cmds # << >>
        /\ acks' = acks \/ \E a \in Events : a.ts <= clock + 1 /\ acks' = Append(acks, a)
        /\ orders' = orders \/ \E o \in Events : o.ts <= clock + 1 /\ orders' = Append(orders, o)
        /\ \/ positions' = positions
           \/ \E x \in Reports : /\ x.ts <= clock + 1 /\ x.life <= restarts
                                 /\ positions' = Append(positions, x)

(* An answer changes the fate of one command and no order.                 *)
LEMMA AnsweredParts ==
  ASSUME cmds \in Seq(Commands), NEW i \in 1 .. Len(cmds), NEW status \in Answers,
         cmds' = [cmds EXCEPT ![i].answer = status]
  PROVE  /\ cmds' \in Seq(Commands) /\ SameOrders
         /\ cmds'[i].answer = status /\ (cmds'[i].filled <=> cmds[i].filled)
         /\ \A j \in 1 .. Len(cmds) : j # i => cmds'[j] = cmds[j]
<1> DEFINE c == [cmds[i] EXCEPT !.answer = status]
<1>1. cmds[i] \in Commands
  BY ElementOfSeq
<1>2. /\ c \in Commands /\ c.answer = status /\ c.filled = cmds[i].filled
      /\ c.id = cmds[i].id /\ c.lots = cmds[i].lots /\ c.class = cmds[i].class
      /\ c.session = cmds[i].session /\ c.life = cmds[i].life /\ c.again = cmds[i].again
      /\ c.certain = cmds[i].certain
  BY <1>1 DEF Commands
<1>3. cmds' = [cmds EXCEPT ![i] = c]
  OBVIOUS
<1> HIDE DEF c
<1>4. cmds' \in Seq(Commands) /\ Len(cmds') = Len(cmds)
      /\ \A j \in 1 .. Len(cmds) : cmds'[j] = IF j = i THEN c ELSE cmds[j]
  BY ONLY <1>2, <1>3, cmds \in Seq(Commands), i \in 1 .. Len(cmds), ExceptSeq
<1> QED
  BY <1>2, <1>4 DEF SameOrders

(* An execution changes the fate of one command and no order.              *)
LEMMA FilledParts ==
  ASSUME cmds \in Seq(Commands), NEW i \in 1 .. Len(cmds),
         cmds' = [cmds EXCEPT ![i].filled = TRUE]
  PROVE  /\ cmds' \in Seq(Commands) /\ SameOrders
         /\ cmds'[i].filled /\ cmds'[i].answer = cmds[i].answer
         /\ \A j \in 1 .. Len(cmds) : j # i => cmds'[j] = cmds[j]
<1> DEFINE c == [cmds[i] EXCEPT !.filled = TRUE]
<1>1. cmds[i] \in Commands
  BY ElementOfSeq
<1>2. /\ c \in Commands /\ c.answer = cmds[i].answer /\ c.filled = TRUE
      /\ c.id = cmds[i].id /\ c.lots = cmds[i].lots /\ c.class = cmds[i].class
      /\ c.session = cmds[i].session /\ c.life = cmds[i].life /\ c.again = cmds[i].again
      /\ c.certain = cmds[i].certain
  BY <1>1 DEF Commands
<1>3. cmds' = [cmds EXCEPT ![i] = c]
  OBVIOUS
<1> HIDE DEF c
<1>4. cmds' \in Seq(Commands) /\ Len(cmds') = Len(cmds)
      /\ \A j \in 1 .. Len(cmds) : cmds'[j] = IF j = i THEN c ELSE cmds[j]
  BY ONLY <1>2, <1>3, cmds \in Seq(Commands), i \in 1 .. Len(cmds), ExceptSeq
<1> QED
  BY <1>2, <1>4 DEF SameOrders

(* Every step of the environment is such a step.                           *)
LEMMA EnvironmentParts ==
  ASSUME TypeOK, Environment
  PROVE  EnvironmentStep
<1>1. /\ cmds \in Seq(Commands) /\ acks \in Seq(Events) /\ orders \in Seq(Events)
      /\ positions \in Seq(Reports) /\ account \in Int /\ clock \in Nat /\ restarts \in Nat
  BY DEF TypeOK
<1>2. SameOrders \/ cmds' # cmds
  BY DEF SameOrders
<1>3. CASE CloseBar
  BY <1>1, <1>2, <1>3 DEF CloseBar, EnvironmentStep, streams
<1>4. ASSUME NEW i \in 1 .. Len(cmds)
      PROVE  cmds # << >> /\ cmds[i].id \in Int /\ cmds[i].lots \in Int
  <2>1. cmds[i] \in Commands
    BY <1>1, ElementOfSeq
  <2>2. cmds # << >>
    OBVIOUS
  <2> QED
    BY <2>1, <2>2 DEF Commands
<1>5. ASSUME NEW i \in 1 .. Len(cmds), Fill(i) PROVE EnvironmentStep
  <2> DEFINE x == [qty |-> account', ts |-> clock, life |-> restarts]
  <2>1. /\ cmds' = [cmds EXCEPT ![i].filled = TRUE] /\ account' = account + cmds[i].lots
        /\ positions' = Append(positions, x)
        /\ UNCHANGED <<clock, published, past, dawn, acks, orders, runtime, restarts>>
    BY <1>5 DEF Fill
  <2>2. account' \in Int
    BY <2>1, <1>1, <1>4
  <2>3. x \in Reports /\ x.ts <= clock + 1 /\ x.life <= restarts
    BY <2>2, <1>1 DEF Reports
  <2> HIDE DEF x
  <2>4. positions' \in Seq(Reports)
    BY <2>1, <2>3, <1>1, AppendParts
  <2> QED
    BY <2>1, <2>2, <2>3, <2>4, <1>1, <1>4, FilledParts DEF EnvironmentStep
<1>6. ASSUME NEW i \in 1 .. Len(cmds), Expire(i) PROVE EnvironmentStep
  <2>1. /\ cmds' = [cmds EXCEPT ![i].answer = "rejected"] /\ "rejected" \in Answers
        /\ UNCHANGED <<env, streams, runtime, restarts>>
    BY <1>6 DEF Expire, Answers
  <2> QED
    BY <2>1, <1>1, <1>4, AnsweredParts DEF EnvironmentStep, env, streams
<1>7. ASSUME NEW i \in 1 .. Len(cmds), NEW status \in Answers, NEW ts \in {clock, clock + 1},
             Answer(i, status, ts)
      PROVE  EnvironmentStep
  <2> DEFINE a == [req |-> cmds[i].id, status |-> status, ts |-> ts]
  <2>1. /\ cmds' = [cmds EXCEPT ![i].answer = status] /\ acks' = Append(acks, a)
        /\ UNCHANGED <<env, orders, positions, runtime, restarts>>
    BY <1>7 DEF Answer
  <2>2. a \in Events /\ a.ts <= clock + 1
    BY <1>1, <1>4 DEF Events
  <2> HIDE DEF a
  <2>3. acks' \in Seq(Events)
    BY <2>1, <2>2, <1>1, AppendParts
  <2> QED
    BY <2>1, <2>2, <2>3, <1>1, <1>4, AnsweredParts DEF EnvironmentStep, env
<1>8. ASSUME NEW i \in 1 .. Len(cmds), ReportOrder(i) PROVE EnvironmentStep
  <2> DEFINE o == [req |-> cmds[i].id, ts |-> clock,
                   status |-> IF cmds[i].filled THEN "filled" ELSE "working"]
  <2>1. /\ orders' = Append(orders, o)
        /\ UNCHANGED <<env, acks, positions, runtime, cmds, restarts>>
    BY <1>8 DEF ReportOrder
  <2>2. o \in Events /\ o.ts <= clock + 1
    BY <1>1, <1>4 DEF Events
  <2> HIDE DEF o
  <2>3. orders' \in Seq(Events)
    BY <2>1, <2>2, <1>1, AppendParts
  <2> QED
    BY <2>1, <2>2, <2>3, <1>1, <1>2, <1>4 DEF EnvironmentStep, env
<1> QED
  BY <1>3, <1>5, <1>6, <1>7, <1>8 DEF Environment

(* The steps of the system, described.                                     *)
LEMMA Steps ==
  ASSUME TypeOK, Reading, [Next]_vars
  PROVE  \/ EnvironmentStep \/ EventStep \/ \E t : BarStep(t)
         \/ RestartStep \/ UNCHANGED vars
<1>1. CASE Environment
  BY <1>1, EnvironmentParts
<1>2. CASE Handle
  <2>1. ASSUME NEW open \in BOOLEAN, NEW ready \in BOOLEAN, HandleAck(open, ready)
        PROVE EventStep
    BY <2>1, EventAck
  <2>2. ASSUME NEW open \in BOOLEAN, NEW ready \in BOOLEAN, NEW signal \in BOOLEAN,
               NEW hit \in BOOLEAN, NEW blocked \in BOOLEAN,
               HandleBar(signal, hit, blocked, open, ready)
        PROVE \E t : BarStep(t)
    BY <2>2, BarParts
  <2> QED
    BY <1>2, <2>1, <2>2, EventOrder, EventPosition DEF Handle
<1>3. CASE \E working \in BOOLEAN : Restart(working)
  BY <1>3, RestartParts
<1> QED
  BY <1>1, <1>2, <1>3 DEF Next

(* What is left of a stream was in it.                                     *)
LEMMA TakenElements ==
  ASSUME NEW S, NEW s \in Seq(S), NEW r, Taken(s, r)
  PROVE  /\ r \in Seq(S) /\ Len(r) \in Nat
         /\ \A k \in 1 .. Len(r) : \E l \in 1 .. Len(s) : r[k] = s[l]
<1>1. CASE r = s
  BY <1>1, LenProperties
<1>2. CASE Len(s) > 0 /\ r = Tail(s)
  <2>1. /\ r \in Seq(S) /\ \A i \in 1 .. Len(r) : i + 1 \in 1 .. Len(s) /\ r[i] = s[i + 1]
    BY <1>2, TailParts
  <2> QED
    BY <2>1, LenProperties
<1> QED
  BY <1>1, <1>2 DEF Taken

(* A command more: the others keep their fate.                             *)
LEMMA AppendedParts ==
  ASSUME cmds \in Seq(Commands), NEW c \in Commands, cmds' = Append(cmds, c),
         NEW n, n = Len(cmds) + 1
  PROVE  /\ cmds' \in Seq(Commands) /\ Len(cmds') = n /\ Len(cmds) \in Nat
         /\ \A i : i \in 1 .. n <=> i \in 1 .. Len(cmds) \/ i = n
         /\ \A i \in 1 .. Len(cmds) :
              cmds'[i] = cmds[i] /\ (Repeated(i)' <=> Repeated(i)) /\ (CanFill(i)' <=> CanFill(i))
         /\ cmds'[n] = c /\ (Repeated(n)' <=> \E j \in 1 .. Len(cmds) : cmds[j].id = c.id)
<1>1. /\ cmds' \in Seq(Commands) /\ Len(cmds') = n /\ Len(cmds) \in Nat
      /\ \A i \in 1 .. Len(cmds) : cmds'[i] = cmds[i]
      /\ cmds'[n] = c
      /\ \A i : i \in 1 .. n <=> i \in 1 .. Len(cmds) \/ i = n
  BY AppendParts
<1>2. \A i \in 1 .. Len(cmds) : \A j \in 1 .. i - 1 : j \in 1 .. Len(cmds)
  BY <1>1
<1>3. \A i \in 1 .. Len(cmds) : Repeated(i)' <=> Repeated(i)
  BY <1>1, <1>2 DEF Repeated
<1>4. \A i \in 1 .. Len(cmds) : CanFill(i)' <=> CanFill(i)
  BY <1>1, <1>3 DEF CanFill
<1>5. n - 1 = Len(cmds)
  BY <1>1
<1>6. Repeated(n)' <=> \E j \in 1 .. Len(cmds) : cmds[j].id = c.id
  BY <1>1, <1>5 DEF Repeated
<1> QED
  BY <1>1, <1>3, <1>4, <1>6

(* Every step keeps the types.                                             *)
LEMMA TypeStep ==
  ASSUME TypeOK, Reading, [Next]_vars
  PROVE  TypeOK'
<1>1. /\ clock \in Nat /\ past \in Past /\ published \in 0 .. Len(Bars) /\ read \in 0 .. published
      /\ strategy \in Memories /\ (strategy.pend => strategy.traded) /\ now \in Nat
      /\ pos \in Int /\ account \in Int
      /\ cmds \in Seq(Commands) /\ acks \in Seq(Events) /\ orders \in Seq(Events)
      /\ positions \in Seq(Reports)
      /\ begun \in Kinds /\ restarts \in 0 .. MaxRestarts
      /\ dawn \in 0 .. Len(cmds) /\ Len(cmds) \in Nat
  BY LeftParts, LenProperties DEF TypeOK
<1>2. Kinds = DOMAIN Left'
  BY DEF Left, Kinds
<1>3. Len(Bars) \in Nat /\ MaxRestarts \in Nat /\ \A i \in 1 .. Len(Bars) : Bars[i] \in Nat
  BY ConstantParts
<1>4. CASE EnvironmentStep
  <2>1. /\ UNCHANGED <<read, strategy, now, pos, begun, past, restarts>>
        /\ cmds' \in Seq(Commands) /\ acks' \in Seq(Events) /\ orders' \in Seq(Events)
        /\ positions' \in Seq(Reports) /\ account' \in Int
        /\ published' \in published .. Len(Bars) /\ clock' \in Nat
        /\ dawn' \in {dawn, Len(cmds)} /\ Len(cmds') = Len(cmds)
    BY SMTT(30), <1>1, <1>3, <1>4 DEF EnvironmentStep, SameOrders, runtime
  <2> QED
    BY <2>1, <1>1, <1>2, <1>3 DEF TypeOK
<1>5. CASE EventStep
  <2>1. /\ UNCHANGED <<env, read, restarts>> /\ strategy' \in Memories
        /\ acks' \in Seq(Events) /\ orders' \in Seq(Events) /\ positions' \in Seq(Reports)
        /\ pos' \in Int /\ begun' \in Kinds /\ now' \in Nat
        /\ (strategy'.pend => strategy'.traded)
        /\ cmds' = cmds \/ \E c \in Commands : cmds' = Append(cmds, c)
    BY <1>1, <1>5 DEF EventStep, SameSessionState
  <2>2. cmds' \in Seq(Commands) /\ dawn \in 0 .. Len(cmds')
    <3>1. ASSUME NEW c \in Commands, cmds' = Append(cmds, c)
          PROVE  cmds' \in Seq(Commands) /\ dawn \in 0 .. Len(cmds')
      <4>1. cmds' \in Seq(Commands) /\ Len(cmds') = Len(cmds) + 1
        BY <3>1, <1>1, AppendProperties
      <4> QED
        BY <4>1, <1>1
    <3> QED
      BY <3>1, <2>1, <1>1
  <2> QED
    BY <2>1, <2>2, <1>1, <1>2 DEF TypeOK, env
<1>6. ASSUME NEW t, BarStep(t) PROVE TypeOK'
  <2>1. /\ UNCHANGED <<env, streams, pos, restarts>> /\ read < published /\ read' = read + 1
        /\ strategy' \in Memories /\ (strategy'.pend => strategy'.traded)
        /\ begun' \in Kinds /\ now' \in Nat
        /\ cmds' = cmds \/ \E c \in Commands : cmds' = Append(cmds, c)
    BY <1>6 DEF BarStep, BarCommand
  <2>2. cmds' \in Seq(Commands) /\ dawn \in 0 .. Len(cmds')
    <3>1. ASSUME NEW c \in Commands, cmds' = Append(cmds, c)
          PROVE  cmds' \in Seq(Commands) /\ dawn \in 0 .. Len(cmds')
      <4>1. cmds' \in Seq(Commands) /\ Len(cmds') = Len(cmds) + 1
        BY <3>1, <1>1, AppendProperties
      <4> QED
        BY <4>1, <1>1
    <3> QED
      BY <3>1, <2>1, <1>1
  <2>3. read' \in 0 .. published
    BY <2>1, <1>1
  <2> QED
    BY <2>1, <2>2, <2>3, <1>1, <1>2 DEF TypeOK, env, streams
<1>7. CASE RestartStep
  <2>1. /\ restarts' = restarts + 1 /\ restarts < MaxRestarts
        /\ UNCHANGED <<env, streams, cmds>>
        /\ pos' = account /\ now' = clock /\ read' = published /\ begun' = "none"
        /\ strategy' \in Memories /\ ~ strategy'.pend
    BY <1>7 DEF RestartStep
  <2>2. "none" \in Kinds
    BY DEF Kinds
  <2> QED
    BY <2>1, <2>2, <1>1, <1>2, <1>3 DEF TypeOK, env, streams
<1>8. CASE UNCHANGED vars
  BY <1>1, <1>2, <1>8 DEF TypeOK, vars, env, streams, runtime
<1> QED
  BY <1>4, <1>5, <1>6, <1>7, <1>8, Steps

(* Bars in order.                                                          *)
LEMMA BarsOrdered ==
  ASSUME NEW i \in 1 .. Len(Bars), NEW j \in 1 .. Len(Bars), i <= j
  PROVE  Bars[i] <= Bars[j] /\ Bars[i] \in Nat /\ Bars[j] \in Nat
<1>1. Bars[i] \in Nat /\ Bars[j] \in Nat
  BY ConstantParts
<1>2. CASE i = j
  BY <1>1, <1>2
<1>3. CASE i < j
  BY <1>1, <1>3, ConstantParts
<1> QED
  BY <1>1, <1>2, <1>3

(* Every step keeps what the memory knows of the bars.                     *)
LEMMA ReadingStep ==
  ASSUME TypeOK, Reading, [Next]_vars
  PROVE  Reading'
<1>1. /\ past \in 0 .. 2 /\ published \in 0 .. Len(Bars) /\ read \in 0 .. published
      /\ strategy \in Memories /\ Len(Bars) \in Nat
  BY ConstantParts DEF TypeOK
<1>2. strategy.lastDt \in Int /\ strategy.start \in Int /\ strategy.mark \in Int
      /\ strategy.st.lastBar \in Int /\ strategy.rolls \in 0 .. 2
  BY <1>1 DEF Memories, States
<1>3. /\ strategy.lastDt = LastBar /\ strategy.rolls = Rolls(read)
      /\ read < Len(Bars) =>
           /\ strategy.mark < Bars[read + 1]
           /\ strategy.st.lastBar < Bars[read + 1]
           /\ strategy.start < Bars[read + 1]
  BY DEF Reading
<1>4. CASE EnvironmentStep
  BY <1>3, <1>4 DEF EnvironmentStep, runtime, Reading, LastBar, Rolls
<1>5. CASE EventStep
  BY <1>3, <1>5 DEF EventStep, env, SameSessionState, Reading, LastBar, Rolls
<1>6. ASSUME NEW t, BarStep(t) PROVE Reading'
  <2>1. /\ read < published /\ read + 1 \in 1 .. Len(Bars) /\ t = Bars[read + 1] /\ t \in Nat
        /\ read' = read + 1 /\ past' = past
        /\ strategy'.lastDt = t /\ strategy'.mark = t
        /\ strategy'.st.lastBar = t \/ strategy'.st.lastBar = strategy.st.lastBar
        /\ strategy'.rolls = IF NewSession(strategy, t) /\ strategy.rolls # 2
                             THEN strategy.rolls + 1 ELSE strategy.rolls
        /\ strategy'.start = IF NewSession(strategy, t) THEN t ELSE strategy.start
    BY <1>6 DEF BarStep, env
  <2>2. strategy'.mark <= t /\ strategy'.st.lastBar <= t /\ strategy'.start <= t
    <3>1. read < Len(Bars)
      BY <2>1, <1>1
    <3>2. strategy.st.lastBar < t /\ strategy.start < t
      BY <3>1, <2>1, <1>3
    <3> QED
      BY <3>2, <2>1, <1>2
  <2>3. read' < Len(Bars) => t < Bars[read' + 1] /\ Bars[read' + 1] \in Nat
    BY <2>1, <1>1, ConstantParts
  <2>4. LastBar' = t
    BY <2>1, <1>1 DEF LastBar
  <2>5. NewSession(strategy, t) <=> read = 0 \/ Bars[read + 1] - Bars[read] > Gap
    <3>1. CASE read = 0
      <4>1. strategy.lastDt = NoBar /\ NoBar < Bars[1] - Gap /\ t = Bars[1]
        BY <1>3, <2>1, <3>1, LastBarType, ConstantParts
      <4>2. Gap \in Nat /\ NoBar \in Int
        BY ConstantParts
      <4>3. t - NoBar > Gap
        BY <4>1, <4>2, <2>1
      <4> QED
        BY <4>1, <4>3, <3>1 DEF NewSession
    <3>2. CASE read # 0
      <4>1. strategy.lastDt = Bars[read]
        BY <1>3, <3>2, LastBarType
      <4> QED
        BY <4>1, <2>1, <3>2 DEF NewSession
    <3> QED
      BY <3>1, <3>2
  <2>6. strategy'.rolls = Rolls(read)'
    <3>1. read \in Nat /\ Cardinality(FirstBars(read)) \in Nat
      BY <1>1, FirstBarsFinite
    <3>2. Cardinality(FirstBars(read + 1)) =
            IF NewSession(strategy, t)
            THEN Cardinality(FirstBars(read)) + 1 ELSE Cardinality(FirstBars(read))
      BY <3>1, <2>5, FirstBarsNext
    <3>3. strategy.rolls = IF past + Cardinality(FirstBars(read)) > 2 THEN 2
                           ELSE past + Cardinality(FirstBars(read))
      BY <1>3 DEF Rolls
    <3>4. Rolls(read)' = IF past + Cardinality(FirstBars(read + 1)) > 2 THEN 2
                          ELSE past + Cardinality(FirstBars(read + 1))
      BY <2>1 DEF Rolls
    <3> QED
      BY <3>1, <3>2, <3>3, <3>4, <2>1, <1>1
  <2>7. read' < Len(Bars) =>
          /\ strategy'.mark < Bars[read' + 1] /\ strategy'.st.lastBar < Bars[read' + 1]
          /\ strategy'.start < Bars[read' + 1]
    <3>1. strategy'.mark \in Int /\ strategy'.st.lastBar \in Int /\ strategy'.start \in Int
      BY <2>1, <1>2
    <3> QED
      BY <3>1, <2>1, <2>2, <2>3
  <2> QED
    BY <2>1, <2>4, <2>6, <2>7 DEF Reading
<1>7. CASE RestartStep
  <2>1. /\ UNCHANGED env /\ read' = published
        /\ strategy'.rolls = Rolls(published)
        /\ strategy'.start = NoBar \/ \E i \in 1 .. published : strategy'.start = Bars[i]
        /\ strategy'.lastDt = IF published = 0 THEN NoBar ELSE Bars[published]
        /\ strategy'.mark = strategy.st.lastBar /\ strategy'.st.lastBar = strategy'.lastDt
    BY <1>7 DEF RestartStep
  <2>2. strategy'.rolls = Rolls(read)' /\ strategy'.lastDt = LastBar'
    BY <2>1 DEF Rolls, LastBar, env
  <2>3. ASSUME published < Len(Bars)
        PROVE  /\ strategy'.mark < Bars[published + 1] /\ strategy'.st.lastBar < Bars[published + 1]
               /\ strategy'.start < Bars[published + 1]
    <3>1. Bars[published + 1] \in Nat /\ NoBar < Bars[1] - Gap /\ NoBar \in Int /\ Gap \in Nat
      BY <1>1, <2>3, ConstantParts
    <3>2. Bars[1] \in Nat /\ Bars[1] <= Bars[published + 1]
      BY <1>1, <2>3, BarsOrdered, ConstantParts
    <3>3. NoBar < Bars[published + 1]
      BY <3>1, <3>2
    <3>4. \A i \in 1 .. published : Bars[i] < Bars[published + 1]
      <4>1. ASSUME NEW i \in 1 .. published
            PROVE  i \in 1 .. Len(Bars) /\ published + 1 \in 1 .. Len(Bars) /\ i < published + 1
        BY <1>1, <2>3
      <4> QED
        BY <4>1, ConstantParts
    <3>5. strategy.st.lastBar < Bars[published + 1]
      <4>1. read + 1 \in 1 .. Len(Bars) /\ published + 1 \in 1 .. Len(Bars) /\ read + 1 <= published + 1
        BY <1>1, <2>3
      <4>2. Bars[read + 1] <= Bars[published + 1] /\ Bars[read + 1] \in Nat
        BY <4>1, BarsOrdered
      <4>3. strategy.st.lastBar < Bars[read + 1]
        BY <4>1, <1>1, <1>3
      <4> QED
        BY <4>2, <4>3, <3>1, <1>2
    <3>6. published # 0 => published \in 1 .. published
      BY <1>1
    <3> QED
      BY <2>1, <3>3, <3>4, <3>5, <3>6
  <2> QED
    BY <2>1, <2>2, <2>3 DEF Reading
<1>8. CASE UNCHANGED vars
  BY <1>3, <1>8 DEF Reading, vars, env, runtime, LastBar, Rolls
<1> QED
  BY <1>4, <1>5, <1>6, <1>7, <1>8, Steps

(* A limit that grows still holds.                                         *)
LEMMA LaterInt ==
  ASSUME NEW x \in Int, NEW c \in Nat, NEW d \in Nat, c <= d, x <= c + 1
  PROVE  x <= d + 1
OBVIOUS

(* What commands and events are made of.                                   *)
LEMMA ElementTypes ==
  ASSUME TypeOK
  PROVE  /\ \A i \in 1 .. Len(cmds) :
              /\ cmds[i] \in Commands /\ cmds[i].id \in Int /\ cmds[i].session \in Int
              /\ cmds[i].life \in Nat
         /\ \A k \in 1 .. Len(acks) : acks[k] \in Events /\ acks[k].ts \in Int /\ acks[k].req \in Int
         /\ \A k \in 1 .. Len(orders) :
              orders[k] \in Events /\ orders[k].ts \in Int /\ orders[k].req \in Int
         /\ \A k \in 1 .. Len(positions) :
              /\ positions[k] \in Reports /\ positions[k].ts \in Int
              /\ positions[k].qty \in Int /\ positions[k].life \in Nat
<1>1. /\ \A i \in 1 .. Len(cmds) : cmds[i] \in Commands
      /\ \A k \in 1 .. Len(acks) : acks[k] \in Events
      /\ \A k \in 1 .. Len(orders) : orders[k] \in Events
      /\ \A k \in 1 .. Len(positions) : positions[k] \in Reports
  <2>1. cmds \in Seq(Commands) /\ acks \in Seq(Events) /\ orders \in Seq(Events)
        /\ positions \in Seq(Reports)
    BY DEF TypeOK
  <2> QED
    BY <2>1, ElementOfSeq
<1>2. \A c \in Commands : c.id \in Int /\ c.session \in Int /\ c.life \in Nat
  BY DEF Commands
<1>3. \A e \in Events : e.ts \in Int /\ e.req \in Int
  BY DEF Events
<1>4. \A x \in Reports : x.ts \in Int /\ x.qty \in Int /\ x.life \in Nat
  BY DEF Reports
<1> QED
  BY <1>1, <1>2, <1>3, <1>4

(* Time does not go back, and stays before the bars to come.               *)
LEMMA ClockParts ==
  ASSUME TypeOK, Timely
  PROVE  /\ published < Len(Bars) => clock <= Bars[published + 1] /\ Bars[published + 1] \in Nat
         /\ 0 < published /\ published < Len(Bars) => clock + 1 <= Bars[published + 1]
         /\ \A k \in 1 .. published : Bars[k] <= clock
         /\ clock \in Nat
<1>1. /\ clock = (IF published = 0 THEN 0 ELSE Bars[published]) /\ clock \in Nat
      /\ published \in 0 .. Len(Bars) /\ Len(Bars) \in Nat
  BY ConstantParts DEF TypeOK, Timely
<1>2. ASSUME published < Len(Bars)
      PROVE  clock <= Bars[published + 1] /\ Bars[published + 1] \in Nat
  <2>1. published + 1 \in 1 .. Len(Bars) /\ Bars[published + 1] \in Nat
    BY <1>1, <1>2, ConstantParts
  <2>2. CASE published = 0
    BY <2>1, <2>2, <1>1
  <2>3. CASE published # 0
    <3>1. published \in 1 .. Len(Bars) /\ published <= published + 1
      BY <2>3, <1>1
    <3> QED
      BY <3>1, <2>1, <2>3, <1>1, BarsOrdered
  <2> QED
    BY <2>2, <2>3
<1>3. ASSUME 0 < published, published < Len(Bars) PROVE clock + 1 <= Bars[published + 1]
  <2>1. published \in 1 .. Len(Bars) /\ published + 1 \in 1 .. Len(Bars) /\ published < published + 1
    BY <1>1, <1>3
  <2>2. Bars[published] < Bars[published + 1]
    BY <2>1, ConstantParts
  <2> QED
    BY <2>1, <2>2, <1>1, <1>2, <1>3
<1>4. ASSUME NEW k \in 1 .. published PROVE Bars[k] <= clock
  <2>1. k \in 1 .. Len(Bars) /\ published \in 1 .. Len(Bars) /\ k <= published /\ published # 0
    BY <1>1
  <2> QED
    BY <2>1, <1>1, BarsOrdered
<1> QED
  BY <1>1, <1>2, <1>3, <1>4

(* A stream stays dated with one more event.                               *)
LEMMA DatedAppended ==
  ASSUME NEW S, NEW s \in Seq(S), NEW e \in S, Dated(s), e.ts <= clock + 1
  PROVE  Dated(Append(s, e))
BY AppendParts DEF Dated

(* A stream stays dated when an event is taken.                            *)
LEMMA DatedTaken ==
  ASSUME NEW S, NEW s \in Seq(S), NEW r, Taken(s, r), Dated(s)
  PROVE  Dated(r)
<1>1. \A k \in 1 .. Len(r) : \E l \in 1 .. Len(s) : r[k] = s[l]
  BY TakenElements
<1> QED
  BY <1>1 DEF Dated

(* The ids of the commands, seen from a later time.                        *)
LEMMA TimelyStep ==
  ASSUME TypeOK, Reading, Timely, [Next]_vars
  PROVE  Timely'
<1>1. /\ clock \in Nat /\ published \in 0 .. Len(Bars) /\ read \in 0 .. published /\ now \in Nat
      /\ cmds \in Seq(Commands) /\ acks \in Seq(Events) /\ orders \in Seq(Events)
      /\ positions \in Seq(Reports) /\ Len(Bars) \in Nat
  BY ConstantParts DEF TypeOK
<1>2. /\ clock = (IF published = 0 THEN 0 ELSE Bars[published])
      /\ published = 0 => cmds = << >> /\ acks = << >>
      /\ now <= clock + 1
      /\ Dated(acks) /\ Dated(orders) /\ Dated(positions)
      /\ \A i \in 1 .. Len(cmds) :
           /\ cmds[i].id <= clock + 1
           /\ read < Len(Bars) => cmds[i].id <= now \/ cmds[i].id <= Bars[read + 1]
  BY DEF Timely
<1>3. \A i \in 1 .. Len(cmds) : cmds[i].id \in Int
  BY ElementTypes
<1>4. /\ \A k \in 1 .. Len(acks) : acks[k].ts \in Int
      /\ \A k \in 1 .. Len(orders) : orders[k].ts \in Int
      /\ \A k \in 1 .. Len(positions) : positions[k].ts \in Int
  BY ElementTypes
<1>5. CASE EnvironmentStep
  <2>1. /\ UNCHANGED <<read, now>> /\ SameOrders
    BY <1>5 DEF EnvironmentStep, runtime
  <2>2. CASE /\ published < Len(Bars) /\ published' = published + 1 /\ clock' = Bars[published + 1]
             /\ UNCHANGED streams
    <3>1. clock <= clock' /\ clock' \in Nat
      BY <2>2, ClockParts
    <3>2. published' # 0 /\ clock' = Bars[published']
      BY <2>2, <1>1
    <3>3. /\ \A k \in 1 .. Len(acks) : acks[k].ts <= clock' + 1
          /\ \A k \in 1 .. Len(orders) : orders[k].ts <= clock' + 1
          /\ \A k \in 1 .. Len(positions) : positions[k].ts <= clock' + 1
          /\ \A i \in 1 .. Len(cmds) : cmds[i].id <= clock' + 1
      <4>0. clock \in Nat
        BY <1>1
      <4>1. ASSUME NEW x \in Int, x <= clock + 1 PROVE x <= clock' + 1
        BY <3>1, <4>0, <4>1, LaterInt
      <4>2. /\ \A k \in 1 .. Len(acks) : acks[k].ts <= clock + 1
            /\ \A k \in 1 .. Len(orders) : orders[k].ts <= clock + 1
            /\ \A k \in 1 .. Len(positions) : positions[k].ts <= clock + 1
            /\ \A i \in 1 .. Len(cmds) : cmds[i].id <= clock + 1
        BY <1>2 DEF Dated
      <4> QED
        BY <4>1, <4>2, <1>3, <1>4
    <3>4. now' <= clock' + 1
      <4>1. now' = now /\ now \in Int /\ now <= clock + 1 /\ clock \in Nat
        BY <2>1, <1>1, <1>2
      <4> QED
        BY ONLY <4>1, <3>1, LaterInt
    <3>5. UNCHANGED <<acks, orders, positions>>
      BY <2>2 DEF streams
    <3> QED
      BY <3>2, <3>3, <3>4, <3>5, <2>1, <1>2 DEF Timely, Dated, SameOrders
  <2>3. CASE /\ UNCHANGED <<published, clock>> /\ cmds # << >>
             /\ acks' = acks \/ \E a \in Events : a.ts <= clock + 1 /\ acks' = Append(acks, a)
             /\ orders' = orders \/ \E o \in Events : o.ts <= clock + 1 /\ orders' = Append(orders, o)
             /\ \/ positions' = positions
                \/ \E x \in Reports : /\ x.ts <= clock + 1 /\ x.life <= restarts
                                      /\ positions' = Append(positions, x)
    <3>1. Dated(acks') /\ Dated(orders') /\ Dated(positions')
      BY <2>3, <1>1, <1>2, DatedAppended
    <3>2. Dated(acks)' /\ Dated(orders)' /\ Dated(positions)'
      BY <3>1, <2>3 DEF Dated
    <3>3. published' # 0
      BY <2>3, <1>2
    <3> QED
      BY <3>2, <3>3, <2>1, <2>3, <1>2 DEF Timely, SameOrders
  <2> QED
    BY <1>5, <2>2, <2>3 DEF EnvironmentStep
<1>6. CASE EventStep
  <2>1. /\ UNCHANGED <<clock, published, read>>
        /\ Taken(acks, acks') /\ Taken(orders, orders') /\ Taken(positions, positions')
        /\ now' \in Nat /\ now' >= now /\ now' <= clock + 1
        /\ \/ cmds' = cmds
           \/ acks # << >> /\ \E c \in Commands :
                /\ c.id = now' /\ c.class = "Exit" /\ c.life = restarts /\ cmds' = Append(cmds, c)
    BY <1>6 DEF EventStep, env
  <2>2. Dated(acks') /\ Dated(orders') /\ Dated(positions')
    BY <2>1, <1>1, <1>2, DatedTaken
  <2>3. Dated(acks)' /\ Dated(orders)' /\ Dated(positions)'
    BY <2>1, <2>2 DEF Dated
  <2>4. published' = 0 => cmds' = << >> /\ acks' = << >>
    <3>1. SUFFICES ASSUME published = 0 PROVE cmds' = << >> /\ acks' = << >>
      BY <2>1
    <3>2. cmds = << >> /\ acks = << >> /\ Len(acks) = 0
      BY <3>1, <1>2
    <3>3. acks' = acks
      BY <3>2, <2>1 DEF Taken
    <3> QED
      BY <3>2, <3>3, <2>1
  <2>5. \A i \in 1 .. Len(cmds) :
          /\ cmds[i].id <= clock' + 1
          /\ read' < Len(Bars) => cmds[i].id <= now' \/ cmds[i].id <= Bars[read' + 1]
    BY SMTT(30), <2>1, <1>1, <1>2, <1>3
  <2>6. \A i \in 1 .. Len(cmds') :
          /\ cmds'[i].id <= clock' + 1
          /\ read' < Len(Bars) => cmds'[i].id <= now' \/ cmds'[i].id <= Bars[read' + 1]
    <3>1. ASSUME NEW c \in Commands, c.id = now', cmds' = Append(cmds, c)
          PROVE  \A i \in 1 .. Len(cmds') :
                   (i \in 1 .. Len(cmds) /\ cmds'[i] = cmds[i]) \/ cmds'[i].id = now'
      BY <3>1, <1>1, AppendedParts
    <3> QED
      BY <3>1, <2>1, <2>5
  <2> QED
    BY <2>1, <2>3, <2>4, <2>6, <1>2 DEF Timely
<1>7. ASSUME NEW t, BarStep(t) PROVE Timely'
  <2>1. /\ read < published /\ read + 1 \in 1 .. Len(Bars) /\ t = Bars[read + 1] /\ t \in Nat
        /\ read' = read + 1 /\ UNCHANGED <<clock, published, acks, orders, positions>>
        /\ now' \in Nat /\ now' >= now /\ now' >= t /\ (now' = now \/ now' = t)
        /\ cmds' = cmds \/ \E c : BarCommand(c, t)
    BY <1>7 DEF BarStep, env, streams
  <2>2. t <= clock
    <3>1. read + 1 \in 1 .. published
      BY <2>1, <1>1
    <3> QED
      BY <3>1, <2>1, ClockParts
  <2>3. \A i \in 1 .. Len(cmds) : cmds[i].id <= clock + 1 /\ cmds[i].id <= now'
    <3>1. read < Len(Bars)
      BY <2>1, <1>1
    <3> QED
      BY SMTT(30), <3>1, <2>1, <1>1, <1>2, <1>3
  <2>4. now' <= clock + 1
    BY SMTT(30), <2>1, <2>2, <1>1, <1>2
  <2>5. \A i \in 1 .. Len(cmds') : cmds'[i].id <= clock' + 1 /\ cmds'[i].id <= now'
    <3>1. ASSUME NEW c, BarCommand(c, t)
          PROVE  \A i \in 1 .. Len(cmds') :
                   (i \in 1 .. Len(cmds) /\ cmds'[i] = cmds[i]) \/ cmds'[i].id = now'
      <4>1. c \in Commands /\ cmds' = Append(cmds, c) /\ c.id = now'
        BY <3>1 DEF BarCommand
      <4> QED
        BY <4>1, <1>1, AppendedParts
    <3> QED
      BY <3>1, <2>1, <2>3, <2>4
  <2>6. published' # 0
    BY <2>1, <1>1
  <2>7. Dated(acks)' /\ Dated(orders)' /\ Dated(positions)'
    BY <2>1, <1>2 DEF Dated
  <2>8. clock' = (IF published' = 0 THEN 0 ELSE Bars[published']) /\ now' <= clock' + 1
    BY <2>1, <2>4, <1>2
  <2> QED
    BY <2>5, <2>6, <2>7, <2>8 DEF Timely
<1>8. CASE RestartStep
  <2>1. /\ UNCHANGED <<clock, published, acks, orders, positions, cmds>>
        /\ now' = clock /\ read' = published
    BY <1>8 DEF RestartStep, env, streams
  <2>2. \A i \in 1 .. Len(cmds) : read' < Len(Bars) => cmds[i].id <= Bars[read' + 1]
    <3>1. SUFFICES ASSUME NEW i \in 1 .. Len(cmds), published < Len(Bars)
                   PROVE  cmds[i].id <= Bars[published + 1]
      BY <2>1
    <3>2. published # 0
      BY <1>2
    <3>3. clock + 1 <= Bars[published + 1] /\ Bars[published + 1] \in Nat
      BY <3>1, <3>2, <1>1, ClockParts
    <3> QED
      BY SMTT(30), <3>3, <1>1, <1>2, <1>3
  <2>3. now' <= clock' + 1
    BY <2>1, <1>1
  <2>4. Dated(acks)' /\ Dated(orders)' /\ Dated(positions)'
    BY <2>1, <1>2 DEF Dated
  <2> QED
    BY <2>1, <2>2, <2>3, <2>4, <1>2 DEF Timely
<1>9. CASE UNCHANGED vars
  BY <1>2, <1>9 DEF Timely, Dated, vars, env, streams, runtime
<1> QED
  BY <1>5, <1>6, <1>7, <1>8, <1>9, Steps

(* A report that is taken, or added, keeps to the life it is of.           *)
ReportLives == \A k \in 1 .. Len(positions) : positions[k].life <= restarts

(* Every step keeps it.                                                    *)
LEMMA ReportsStep ==
  ASSUME TypeOK, Reading, ReportLives, [Next]_vars
  PROVE  ReportLives'
<1>1. positions \in Seq(Reports) /\ restarts \in Nat
  BY ConstantParts DEF TypeOK
<1>2. \A k \in 1 .. Len(positions) : positions[k].life \in Nat
  BY ElementTypes
<1>3. ASSUME restarts' = restarts, Taken(positions, positions') PROVE ReportLives'
  <2>1. \A k \in 1 .. Len(positions') : \E l \in 1 .. Len(positions) : positions'[k] = positions[l]
    BY <1>1, <1>3, TakenElements
  <2> QED
    BY <2>1, <1>3 DEF ReportLives
<1>4. CASE EnvironmentStep
  <2>1. /\ restarts' = restarts
        /\ \/ positions' = positions
           \/ \E x \in Reports : x.life <= restarts /\ positions' = Append(positions, x)
    BY <1>4 DEF EnvironmentStep, streams
  <2>2. ASSUME NEW x \in Reports, x.life <= restarts, positions' = Append(positions, x)
        PROVE  ReportLives'
    BY <2>1, <2>2, <1>1, AppendParts DEF ReportLives
  <2> QED
    BY <2>1, <2>2, <1>3 DEF Taken
<1>5. CASE EventStep
  BY <1>3, <1>5 DEF EventStep
<1>6. ASSUME NEW t, BarStep(t) PROVE ReportLives'
  BY <1>3, <1>6 DEF BarStep, streams, Taken
<1>7. CASE RestartStep
  <2>1. positions' = positions /\ restarts' = restarts + 1
    BY <1>7 DEF RestartStep, streams
  <2>2. ASSUME NEW k \in 1 .. Len(positions) PROVE positions[k].life <= restarts + 1
    <3>1. positions[k].life \in Nat /\ positions[k].life <= restarts
      BY <1>2 DEF ReportLives
    <3> QED
      BY <3>1, <1>1
  <2> QED
    BY <2>1, <2>2 DEF ReportLives
<1>8. CASE UNCHANGED vars
  BY <1>8 DEF ReportLives, vars, streams
<1> QED
  BY <1>4, <1>5, <1>6, <1>7, <1>8, Steps

(* What Lives says of a command.                                           *)
Spent(c) ==
  /\ c.life <= restarts
  /\ c.class = "Entry" /\ ~ c.again /\ c.life = restarts =>
       \/ c.session < strategy.start
       \/ c.session = strategy.start /\ strategy.traded /\ ~ strategy.pend

(* Every entry of its own in this life has spent its session.              *)
CommandLives == \A i \in 1 .. Len(cmds) : Spent(cmds[i])

(* Every step keeps it.                                                    *)
LEMMA LivesStep ==
  ASSUME TypeOK, Reading, CommandLives, [Next]_vars
  PROVE  CommandLives'
<1>1. /\ cmds \in Seq(Commands) /\ restarts \in Nat /\ strategy \in Memories
      /\ published \in 0 .. Len(Bars) /\ read \in 0 .. published /\ Len(Bars) \in Nat
  BY ConstantParts DEF TypeOK
<1>2. \A i \in 1 .. Len(cmds) : cmds[i].life \in Nat /\ cmds[i].session \in Int
  BY ElementTypes
<1>3. strategy.start \in Int
  BY <1>1 DEF Memories
<1>4. CASE EnvironmentStep
  <2>1. UNCHANGED <<strategy, restarts>> /\ SameOrders
    BY <1>4 DEF EnvironmentStep, runtime
  <2> QED
    BY <2>1 DEF SameOrders, CommandLives, Spent
<1>5. CASE EventStep
  <2>1. /\ restarts' = restarts /\ SameSessionState(strategy', strategy)
        /\ \/ cmds' = cmds
           \/ \E c \in Commands : c.class = "Exit" /\ c.life = restarts /\ cmds' = Append(cmds, c)
    BY <1>5 DEF EventStep
  <2>2. ASSUME NEW c \in Commands, c.class = "Exit", c.life = restarts, cmds' = Append(cmds, c)
        PROVE  CommandLives'
    <3>1. \A i \in 1 .. Len(cmds') :
            \/ i \in 1 .. Len(cmds) /\ cmds'[i] = cmds[i]
            \/ cmds'[i] = c
      BY <2>2, <1>1, AppendedParts
    <3>2. Spent(c)'
      BY <2>1, <2>2, <1>1 DEF Spent
    <3>3. ASSUME NEW i \in 1 .. Len(cmds) PROVE Spent(cmds[i])
      BY DEF CommandLives
    <3> QED
      BY <2>1, <3>1, <3>2, <3>3 DEF Spent, SameSessionState, CommandLives
  <2> QED
    BY <2>1, <2>2 DEF CommandLives, Spent, SameSessionState
<1>6. ASSUME NEW t, BarStep(t) PROVE CommandLives'
  <2>1. /\ read < published /\ t = Bars[read + 1] /\ t \in Nat /\ restarts' = restarts
        /\ strategy'.start = IF NewSession(strategy, t) THEN t ELSE strategy.start
        /\ ~ NewSession(strategy, t) /\ strategy.traded /\ ~ strategy.pend =>
             strategy'.traded /\ ~ strategy'.pend
        /\ cmds' = cmds \/ \E c : BarCommand(c, t)
    BY <1>6 DEF BarStep
  <2>2. strategy.start < t
    <3>1. read < Len(Bars)
      BY <2>1, <1>1
    <3> QED
      BY <3>1, <2>1 DEF Reading
  <2>3. \A i \in 1 .. Len(cmds) :
          /\ cmds[i].life <= restarts
          /\ OwnEntry(i) /\ cmds[i].life = restarts =>
               \/ cmds[i].session < strategy'.start
               \/ cmds[i].session = strategy'.start /\ strategy'.traded /\ ~ strategy'.pend
    <3>1. SUFFICES ASSUME NEW i \in 1 .. Len(cmds), OwnEntry(i), cmds[i].life = restarts
                   PROVE  \/ cmds[i].session < strategy'.start
                          \/ cmds[i].session = strategy'.start /\ strategy'.traded /\ ~ strategy'.pend
      BY DEF CommandLives, Spent
    <3>2. \/ cmds[i].session < strategy.start
          \/ cmds[i].session = strategy.start /\ strategy.traded /\ ~ strategy.pend
      BY <3>1 DEF CommandLives, Spent, OwnEntry
    <3>3. cmds[i].session \in Int
      BY <1>2
    <3>4. CASE NewSession(strategy, t)
      BY <3>2, <3>3, <3>4, <2>1, <2>2, <1>3
    <3>5. CASE ~ NewSession(strategy, t)
      BY <3>2, <3>5, <2>1
    <3> QED
      BY <3>4, <3>5
  <2>4. ASSUME NEW c, BarCommand(c, t) PROVE CommandLives'
    <3>1. /\ c \in Commands /\ c.life = restarts /\ c.session = strategy'.start
          /\ cmds' = Append(cmds, c)
          /\ c.class = "Entry" /\ ~ c.again => strategy'.traded /\ ~ strategy'.pend
      BY <2>4 DEF BarCommand
    <3>2. \A i \in 1 .. Len(cmds') :
            \/ i \in 1 .. Len(cmds) /\ cmds'[i] = cmds[i]
            \/ cmds'[i] = c
      BY <3>1, <1>1, AppendedParts
    <3>3. Spent(c)'
      BY <3>1, <2>1, <1>1 DEF Spent
    <3> QED
      BY <2>1, <2>3, <3>2, <3>3 DEF CommandLives, Spent, OwnEntry
  <2> QED
    BY <2>1, <2>3, <2>4 DEF CommandLives, Spent, OwnEntry
<1>7. CASE RestartStep
  <2>1. cmds' = cmds /\ restarts' = restarts + 1
    BY <1>7 DEF RestartStep
  <2>2. ASSUME NEW i \in 1 .. Len(cmds) PROVE cmds[i].life <= restarts + 1 /\ cmds[i].life # restarts + 1
    <3>1. cmds[i].life \in Nat /\ cmds[i].life <= restarts
      BY <1>2 DEF CommandLives, Spent
    <3> QED
      BY <3>1, <1>1
  <2> QED
    BY <2>1, <2>2 DEF CommandLives, Spent
<1>8. CASE UNCHANGED vars
  BY <1>8 DEF CommandLives, Spent, vars, runtime
<1> QED
  BY <1>4, <1>5, <1>6, <1>7, <1>8, Steps

(* In one life, a session that has an entry of its own takes no other.     *)
LEMMA OneEachStep ==
  ASSUME TypeOK, Reading, CommandLives, OneEach, [Next]_vars
  PROVE  OneEach'
<1>1. /\ cmds \in Seq(Commands) /\ restarts \in Nat /\ strategy \in Memories
      /\ published \in 0 .. Len(Bars) /\ read \in 0 .. published /\ Len(Bars) \in Nat
  BY ConstantParts DEF TypeOK
<1>2. strategy.start \in Int /\ \A i \in 1 .. Len(cmds) : cmds[i].session \in Int
  BY <1>1, ElementTypes DEF Memories
<1>3. ASSUME cmds' = cmds PROVE OneEach'
  BY <1>3 DEF OneEach, SameSession
<1>4. CASE EnvironmentStep
  <2>1. SameOrders
    BY <1>4 DEF EnvironmentStep
  <2> QED
    BY <2>1 DEF SameOrders, OneEach, SameSession
<1>5. CASE EventStep
  <2>1. ASSUME NEW c \in Commands, c.class = "Exit", cmds' = Append(cmds, c)
        PROVE  OneEach'
    <3>1. \A i \in 1 .. Len(cmds') :
            \/ i \in 1 .. Len(cmds) /\ cmds'[i] = cmds[i]
            \/ cmds'[i] = c
      BY <2>1, <1>1, AppendedParts
    <3> QED
      BY <3>1, <2>1 DEF OneEach, SameSession
  <2> QED
    BY <2>1, <1>3, <1>5 DEF EventStep
<1>6. ASSUME NEW t, BarStep(t) PROVE OneEach'
  <2>1. /\ read < published /\ t = Bars[read + 1] /\ t \in Nat
        /\ strategy'.start = IF NewSession(strategy, t) THEN t ELSE strategy.start
        /\ cmds' = cmds \/ \E c : BarCommand(c, t)
    BY <1>6 DEF BarStep
  <2>2. strategy.start < t
    <3>1. read < Len(Bars)
      BY <2>1, <1>1
    <3> QED
      BY <3>1, <2>1 DEF Reading
  <2>3. ASSUME NEW c, BarCommand(c, t) PROVE OneEach'
    <3>1. /\ c \in Commands /\ c.life = restarts /\ c.session = strategy'.start
          /\ cmds' = Append(cmds, c)
          /\ c.class = "Entry" /\ ~ c.again =>
               NewSession(strategy, t) \/ ~ strategy.traded \/ strategy.pend
      BY <2>3 DEF BarCommand
    <3>2. /\ Len(cmds') = Len(cmds) + 1 /\ Len(cmds) \in Nat /\ cmds'[Len(cmds) + 1] = c
          /\ \A i : i \in 1 .. Len(cmds') <=> i \in 1 .. Len(cmds) \/ i = Len(cmds) + 1
          /\ \A i \in 1 .. Len(cmds) : cmds'[i] = cmds[i]
      BY <3>1, <1>1, AppendedParts
    <3>3. ASSUME NEW i \in 1 .. Len(cmds), cmds[i].class = "Entry", c.class = "Entry",
                 cmds[i].session = c.session, cmds[i].life = c.life
          PROVE  cmds[i].again \/ c.again
      <4>1. SUFFICES ASSUME ~ cmds[i].again, ~ c.again PROVE FALSE
        OBVIOUS
      <4>2. \/ cmds[i].session < strategy.start
            \/ cmds[i].session = strategy.start /\ strategy.traded /\ ~ strategy.pend
        BY <3>1, <3>3, <4>1 DEF CommandLives, Spent
      <4>3. CASE NewSession(strategy, t)
        BY <4>2, <4>3, <3>1, <3>3, <2>1, <2>2, <1>2
      <4>4. CASE ~ NewSession(strategy, t)
        BY <4>1, <4>2, <4>4, <3>1, <3>3, <2>1, <1>2
      <4> QED
        BY <4>3, <4>4
    <3>4. ASSUME NEW i \in 1 .. Len(cmds'), NEW j \in 1 .. Len(cmds'), SameSession(i, j)',
                 cmds'[i].life = cmds'[j].life
          PROVE  cmds'[i].again \/ cmds'[j].again
      <4>1. /\ i < j /\ cmds'[i].class = "Entry" /\ cmds'[j].class = "Entry"
            /\ cmds'[i].session = cmds'[j].session
        BY <3>4 DEF SameSession
      <4>2. i \in 1 .. Len(cmds)
        BY <4>1, <3>2
      <4>3. CASE j \in 1 .. Len(cmds)
        BY <4>1, <4>2, <4>3, <3>2, <3>4 DEF OneEach, SameSession
      <4>4. CASE j = Len(cmds) + 1
        BY <4>1, <4>2, <4>4, <3>2, <3>3, <3>4
      <4> QED
        BY <4>3, <4>4, <3>2
    <3> QED
      BY <3>4 DEF OneEach
  <2> QED
    BY <2>1, <2>3, <1>3
<1>7. CASE RestartStep
  BY <1>3, <1>7 DEF RestartStep
<1>8. CASE UNCHANGED vars
  BY <1>3, <1>8 DEF vars
<1> QED
  BY <1>4, <1>5, <1>6, <1>7, <1>8, Steps

(* What holds always.                                                      *)
Base ==
  TypeOK /\ Reading /\ Timely /\ ReportLives /\ CommandLives /\ OneEach

(* It holds at the beginning.                                              *)
LEMMA BaseInit ==
  ASSUME Init
  PROVE  Base
<1>1. /\ clock = 0 /\ published = 0 /\ read = 0 /\ account = 0 /\ past \in Past
      /\ now = 0 /\ pos = 0 /\ dawn = 0
      /\ cmds = << >> /\ acks = << >> /\ orders = << >> /\ positions = << >>
      /\ begun = "none" /\ restarts = 0
  BY DEF Init
<1>2. /\ strategy \in Memories /\ ~ strategy.pend
      /\ strategy.rolls = past /\ past \in 0 .. 2
      /\ strategy.start = NoBar /\ strategy.lastDt = NoBar
      /\ strategy.mark = NoBar /\ strategy.st.lastBar = NoBar
  BY InitParts
<1>3. TypeOK
  <2>1. Len(Bars) \in Nat /\ MaxRestarts \in Nat
    BY ConstantParts
  <2>2. begun \in DOMAIN Left
    BY <1>1, LeftParts DEF Kinds
  <2>3. cmds \in Seq(Commands) /\ dawn \in 0 .. Len(cmds)
    BY <1>1, EmptySeq
  <2> QED
    BY <2>1, <2>2, <2>3, <1>1, <1>2 DEF TypeOK
<1>4. Reading
  <2>1. NoBar \in Int /\ Gap \in Nat /\ NoBar < Bars[1] - Gap /\ Len(Bars) \in Nat /\ Len(Bars) # 0
    BY ConstantParts
  <2>2. Bars[1] \in Nat
    BY <2>1, ConstantParts
  <2>3. NoBar < Bars[1]
    BY <2>1, <2>2
  <2>4. Rolls(0) = past
    BY <1>2, NoFirstBars DEF Rolls
  <2> QED
    BY <2>3, <2>4, <1>1, <1>2 DEF Reading, LastBar
<1>5. Timely
  BY <1>1 DEF Timely, Dated
<1>6. ReportLives /\ CommandLives /\ OneEach
  BY <1>1 DEF ReportLives, CommandLives, OneEach
<1> QED
  BY <1>3, <1>4, <1>5, <1>6 DEF Base

(* Every step keeps it.                                                    *)
LEMMA BaseStep ==
  ASSUME Base, [Next]_vars
  PROVE  Base'
BY TypeStep, ReadingStep, TimelyStep, ReportsStep, LivesStep, OneEachStep DEF Base

-----------------------------------------------------------------------------
(* What holds when every command was sent with certainty.                  *)

(* The last command.                                                       *)
Latest == Len(cmds)

(* The last command may still be executed.                                 *)
Alive(class) == Latest > 0 /\ CanFill(Latest) /\ cmds[Latest].class = class

(* The reports of the position that were not read yet.                     *)
Queue ==
  /\ pos \in {0, 1} /\ (positions = << >> => pos = account)
  /\ account = 1 /\ positions # << >> => Len(positions) = 1 /\ positions[1].qty = 1
  /\ account = 0 /\ positions # << >> =>
       /\ Latest > 0 /\ cmds[Latest].filled
       /\ \/ Len(positions) = 1 /\ positions[1].qty = 0
          \/ Len(positions) = 2 /\ positions[1].qty = 1 /\ positions[2].qty = 0

(* Entries that were executed before the account was flat again are not    *)
(* the latest command.                                                     *)
Superseded ==
  \A i \in 1 .. Latest : cmds[i].class = "Entry" /\ cmds[i].filled =>
    \E j \in 1 .. Latest : cmds[i].id < cmds[j].id

(* Only the last command can be executed, an entry when the account is     *)
(* flat and an exit when it is not.                                        *)
Market ==
  /\ \A i \in 1 .. Latest :
       /\ CanFill(i) => i = Latest
       /\ cmds[i].lots = IF cmds[i].class = "Entry" THEN 1 ELSE -1
       /\ cmds[i].filled => ~ Repeated(i) /\ cmds[i].answer \notin Refusals
  /\ account \in {0, 1}
  /\ Alive("Entry") => account = 0 /\ positions = << >>
  /\ Alive("Exit") => account = 1
  /\ account = 0 \/ Alive("Exit") => Superseded
  /\ cmds = << >> => account = 0 /\ positions = << >>

(* An acknowledgement speaks of a command that was answered; the gateway   *)
(* answers a request once, and its repetitions as duplicates.              *)
AckOf(a, i) ==
  /\ cmds[i].id = a.req /\ cmds[i].answer # "none"
  /\ a.status = "duplicate" <=> Repeated(i)
  /\ a.status # "duplicate" =>
       \/ cmds[i].answer = a.status
       \/ cmds[i].answer = "rejected" /\ a.status \in {"accepted", "cws_error"}

(* Every acknowledgement unread is of a command; of two for one request    *)
(* one is a duplicate.                                                     *)
Acks ==
  /\ \A k \in 1 .. Len(acks) : \E i \in 1 .. Latest : AckOf(acks[k], i)
  /\ \A j, k \in 1 .. Len(acks) :
       j < k /\ acks[j].req = acks[k].req =>
         acks[j].status = "duplicate" \/ acks[k].status = "duplicate"

(* An order event speaks of an execution that happened.                    *)
ReportedFills ==
  \A k \in 1 .. Len(orders) : orders[k].status = "filled" =>
    \E i \in 1 .. Latest : /\ cmds[i].id = orders[k].req
                         /\ cmds[i].class = "Entry" /\ cmds[i].filled

(* A second try follows an entry refused for a closed window.              *)
Again ==
  \A j \in 1 .. Latest : cmds[j].again =>
    j > 1 /\ cmds[j - 1].class = "Entry" /\ cmds[j - 1].answer = "closed"

(* Nothing is sent before the indicators are warm.                         *)
Warm == cmds # << >> => strategy.rolls = 2

(* What can be executed, or was executed and not reported, is of the day.  *)
Dawn ==
  /\ \A i \in 1 .. Latest : CanFill(i) => i > dawn
  /\ account = 1 /\ positions # << >> =>
       \E i \in dawn + 1 .. Latest : cmds[i].class = "Entry" /\ cmds[i].filled

(* Phases in which the answer of the last command may still come.          *)
Waiting == {"PendingEntry", "PendingExit", "ExitRecovery", "CloseOnly", "Blocked"}
(* Answers after which the strategy gives the command up.                  *)
Hard == {"closed", "rejected", "recycle"}

(* Such an answer unread is of the last command, which the strategy in     *)
(* this phase waits for.                                                   *)
Refused(name, a) ==
  a.status \in Hard =>
    /\ name \in Waiting /\ Latest > 0 /\ cmds[Latest].id = a.req
    /\ ~ Repeated(Latest) /\ cmds[Latest].answer = a.status

(* While an answer is due, the strategy waits for it.                      *)
Unanswered(name) ==
  Latest > 0 /\ CanFill(Latest) /\ cmds[Latest].answer = "none" => name \in Waiting

(* The phase name goes with the answers due and with those in s.           *)
AnswersRight(name, s) ==
  Unanswered(name) /\ \A k \in 1 .. Len(s) : Refused(name, s[k])

(* Every report is one of an earlier life.                                 *)
Stale == \A k \in 1 .. Len(positions) : positions[k].life < restarts

(* No command has a later request id than the last one.                    *)
NoLater == \A i \in 1 .. Latest : cmds[i].id <= cmds[Latest].id

(* Lots and baseline: one lot, from a flat account.                        *)
Terms(p) ==
  /\ p.name \in Entering \cup {"InPosition"} => p.lots = 1 /\ p.baseline = 0
  /\ p.name \in Exiting => p.lots = -1 /\ p.baseline = 0
  /\ p.name = "EntryDeferred" => p.lots = 1
  /\ p.name \in {"ExitDeferred", "CloseOnly"} => p.baseline = 0

(* Phases of an exit that was sent.                                        *)
Closing == Exiting \cup {"CloseOnly"}

(* What the phase says of the account and of the last command.             *)
NameRight(name) ==
  /\ account = 0 /\ positions = << >> => name \notin Exposed
  /\ account = 0 /\ positions # << >> =>
       name \in Closing \/ (name \in {"Flat", "InPosition", "ExitDeferred"} /\ Stale)
  /\ Alive("Exit") => name \in Closing
  /\ name = "PendingExit" => Latest > 0 /\ NoLater
  /\ name \in Entering =>
       /\ Latest > 0 /\ cmds[Latest].class = "Entry" /\ NoLater
       /\ account = 1 => cmds[Latest].filled /\ positions # << >>
  /\ name = "EntryDeferred" =>
       /\ account = 0 /\ positions = << >>
       /\ Latest > 0 /\ cmds[Latest].class = "Entry" /\ cmds[Latest].answer = "closed"
  /\ name = "Flat" /\ account = 1 => positions # << >>
  /\ name = "NotWarmed" => cmds = << >>

(* A phase suits the account; a pending entry is the last command.         *)
PhaseRight(p) ==
  /\ Terms(p) /\ NameRight(p.name)
  /\ p.name \in Entering => p.req = cmds[Latest].id

(* What holds as long as every command was sent with certainty.            *)
Core ==
  /\ Queue /\ Market /\ Acks /\ ReportedFills /\ Again /\ Warm /\ Dawn
  /\ PhaseRight(strategy.st.phase)
  /\ AnswersRight(strategy.st.phase.name, acks)

-----------------------------------------------------------------------------
(* The environment keeps it.                                               *)

(* The last command is one, if there is any.                               *)
LEMMA LatestParts ==
  ASSUME TypeOK
  PROVE  /\ Latest \in Nat /\ (cmds = << >> <=> Latest = 0)
         /\ Latest > 0 => Latest \in 1 .. Latest
         /\ Latest' = Len(cmds')
         /\ (SameOrders => Latest' = Latest)
<1>1. cmds \in Seq(Commands) /\ Latest \in Nat
  BY LenProperties DEF TypeOK, Latest
<1> QED
  BY <1>1, EmptySeq DEF Latest, SameOrders

(* A request is repeated or not whatever its answers are.                  *)
LEMMA SameRepeated ==
  ASSUME TypeOK, SameOrders
  PROVE  \A i \in 1 .. Latest : Repeated(i)' <=> Repeated(i)
<1>1. \A i \in 1 .. Latest : \A j \in 1 .. i - 1 : j \in 1 .. Len(cmds)
  BY LatestParts DEF Latest
<1> QED
  BY <1>1 DEF Repeated, SameOrders, Latest

(* The broker knows less or more of an order, but executes none: what can  *)
(* be executed could be before, and a refusal for a closed window stays.   *)
Quieter ==
  /\ cmds' \in Seq(Commands) /\ SameOrders
  /\ UNCHANGED <<account, dawn, positions, pos, strategy, restarts>>
  /\ \A i \in 1 .. Latest :
       /\ cmds'[i].filled <=> cmds[i].filled
       /\ CanFill(i)' => CanFill(i)
       /\ cmds[i].answer = "closed" => cmds'[i].answer = "closed"
       /\ cmds'[i].filled => cmds'[i].answer \notin Refusals

(* Such a step keeps all but what is said of the answers.                  *)
LEMMA QuieterKeeps ==
  ASSUME TypeOK, Core, Quieter
  PROVE  /\ Queue' /\ Market' /\ Again' /\ Warm' /\ Dawn'
         /\ PhaseRight(strategy.st.phase)'
<1>1. /\ cmds' \in Seq(Commands) /\ SameOrders
      /\ UNCHANGED <<account, dawn, positions, pos, strategy, restarts>>
      /\ Latest' = Latest /\ Len(cmds') = Latest /\ Latest \in Nat
      /\ \A i \in 1 .. Latest :
           /\ cmds'[i].id = cmds[i].id /\ cmds'[i].lots = cmds[i].lots
           /\ cmds'[i].class = cmds[i].class
           /\ cmds'[i].again = cmds[i].again
           /\ cmds'[i].filled <=> cmds[i].filled
           /\ CanFill(i)' => CanFill(i)
           /\ cmds[i].answer = "closed" => cmds'[i].answer = "closed"
           /\ cmds'[i].filled => cmds'[i].answer \notin Refusals
  BY LatestParts DEF Quieter, SameOrders, Latest
<1>2. Latest > 0 => Latest \in 1 .. Latest
  BY <1>1
<1>3. ASSUME NEW class PROVE Alive(class)' => Alive(class)
  BY <1>1, <1>2 DEF Alive
<1>4. \A i \in 1 .. Latest : Repeated(i)' <=> Repeated(i)
  BY <1>1, SameRepeated
<1>5. Queue'
  <2>1. Queue
    BY DEF Core
  <2> QED
    BY <2>1, <1>1, <1>2 DEF Queue
<1>6. Superseded => Superseded'
  BY <1>1 DEF Superseded
<1>7. Market'
  <2>1. Market
    BY DEF Core
  <2>2. \A i \in 1 .. Latest' :
          /\ CanFill(i)' => i = Latest'
          /\ cmds'[i].lots = IF cmds'[i].class = "Entry" THEN 1 ELSE -1
          /\ cmds'[i].filled => ~ Repeated(i)' /\ cmds'[i].answer \notin Refusals
    BY <2>1, <1>1, <1>4 DEF Market
  <2>3. cmds' = << >> => cmds = << >>
    BY <1>1, LatestParts
  <2>4. /\ account' \in {0, 1}
        /\ Alive("Entry")' => account' = 0 /\ positions' = << >>
        /\ Alive("Exit")' => account' = 1
        /\ account' = 0 \/ Alive("Exit")' => Superseded'
        /\ cmds' = << >> => account' = 0 /\ positions' = << >>
    BY <2>1, <2>3, <1>1, <1>3, <1>6 DEF Market
  <2> QED
    BY <2>2, <2>4 DEF Market
<1>8. Again'
  <2>1. \A j \in 1 .. Latest : j > 1 => j - 1 \in 1 .. Latest
    BY <1>1
  <2>2. Again
    BY DEF Core
  <2> QED
    BY <2>1, <2>2, <1>1 DEF Again
<1>9. Warm'
  <2>1. cmds' # << >> => cmds # << >>
    BY <1>1, EmptySeq, LatestParts
  <2> QED
    BY <2>1, <1>1 DEF Core, Warm
<1>10. PhaseRight(strategy.st.phase)'
  <2> DEFINE p == strategy.st.phase
  <2>1. Terms(p) /\ NameRight(p.name) /\ (p.name \in Entering => p.req = cmds[Latest].id)
    BY DEF Core, PhaseRight
  <2>2. Terms(p)' /\ p' = p
    BY <2>1, <1>1 DEF Terms
  <2>3. NoLater => NoLater'
    BY <1>1, <1>2 DEF NoLater
  <2>4. Stale => Stale'
    BY <1>1 DEF Stale
  <2>5. cmds = << >> => cmds' = << >>
    BY <1>1, EmptySeq, LatestParts
  <2>6. NameRight(p.name)'
    BY <2>1, <2>2, <2>3, <2>4, <2>5, <1>1, <1>2, <1>3 DEF NameRight
  <2>7. p'.name \in Entering => p'.req = cmds'[Latest'].id
    BY <2>1, <2>2, <1>1, <1>2 DEF NameRight
  <2> QED
    BY <2>2, <2>6, <2>7 DEF PhaseRight
<1>11. Dawn'
  <2>1. Dawn
    BY DEF Core
  <2>2. \A i \in dawn + 1 .. Latest : i \in 1 .. Latest
    BY <1>1 DEF TypeOK
  <2> QED
    BY <2>1, <2>2, <1>1 DEF Dawn
<1> QED
  BY <1>5, <1>7, <1>8, <1>9, <1>10, <1>11

(* Acknowledgements stay right while answers only become refusals of what  *)
(* was not executed.                                                       *)
LEMMA ExpireQuieter ==
  ASSUME TypeOK, Core, NEW i \in 1 .. Len(cmds), Expire(i)
  PROVE  /\ Quieter /\ i = Latest /\ CanFill(i) /\ cmds[i].answer # "none"
         /\ cmds'[i].answer = "rejected"
         /\ \A j \in 1 .. Latest : j # i => cmds'[j] = cmds[j]
<1>1. /\ cmds \in Seq(Commands) /\ CanFill(i) /\ cmds[i].answer # "none"
      /\ cmds' = [cmds EXCEPT ![i].answer = "rejected"] /\ "rejected" \in Answers
      /\ UNCHANGED <<env, streams, runtime, restarts>>
  BY DEF TypeOK, Expire, Answers
<1>2. /\ cmds' \in Seq(Commands) /\ SameOrders
      /\ cmds'[i].answer = "rejected" /\ (cmds'[i].filled <=> cmds[i].filled)
      /\ \A j \in 1 .. Latest : j # i => cmds'[j] = cmds[j]
  BY <1>1, AnsweredParts DEF Latest
<1>3. \A j \in 1 .. Latest : Repeated(j)' <=> Repeated(j)
  BY <1>2, SameRepeated
<1>4. i = Latest
  BY <1>1 DEF Core, Market, Latest
<1>5. ~ cmds[i].filled
  BY <1>1 DEF CanFill
<1>6. Market
  BY DEF Core
<1>7. ASSUME NEW j \in 1 .. Latest
      PROVE  /\ cmds'[j].filled <=> cmds[j].filled
             /\ CanFill(j)' => CanFill(j)
             /\ cmds[j].answer = "closed" => cmds'[j].answer = "closed"
             /\ cmds'[j].filled => cmds'[j].answer \notin Refusals
  <2>1. CASE j = i
    BY <2>1, <1>1, <1>2, <1>5 DEF CanFill, Refusals
  <2>2. CASE j # i
    BY <2>2, <1>2, <1>3, <1>6 DEF CanFill, Market
  <2> QED
    BY <2>1, <2>2
<1>8. UNCHANGED <<account, dawn, positions, pos, strategy, restarts>>
  BY <1>1 DEF env, streams, runtime
<1> QED
  BY <1>1, <1>2, <1>4, <1>7, <1>8 DEF Quieter

(* An order that ends unfilled keeps it.                                   *)
LEMMA CoreExpire ==
  ASSUME TypeOK, Core, NEW i \in 1 .. Len(cmds), Expire(i)
  PROVE  Core'
<1>1. /\ Quieter /\ i = Latest /\ CanFill(i) /\ cmds[i].answer # "none"
      /\ cmds'[i].answer = "rejected"
      /\ \A j \in 1 .. Latest : j # i => cmds'[j] = cmds[j]
  BY ExpireQuieter
<1>2. /\ SameOrders /\ Latest' = Latest /\ Latest \in Nat
      /\ UNCHANGED <<acks, orders, strategy>>
      /\ \A j \in 1 .. Latest : Repeated(j)' <=> Repeated(j)
  BY <1>1, LatestParts, SameRepeated DEF Quieter, Expire, streams, runtime
<1>3. Latest \in 1 .. Latest
  BY <1>1, <1>2
<1>4. /\ Queue' /\ Market' /\ Again' /\ Warm' /\ Dawn' /\ PhaseRight(strategy.st.phase)'
  BY <1>1, QuieterKeeps
<1>5. ASSUME NEW k \in 1 .. Len(acks), NEW j \in 1 .. Latest, AckOf(acks[k], j)
      PROVE  AckOf(acks[k], j)'
  <2>1. cmds'[j].id = cmds[j].id
    BY <1>2 DEF SameOrders, Latest
  <2>2. CASE j # i
    BY <1>1, <1>2, <1>5, <2>2 DEF AckOf
  <2>3. CASE j = i
    <3>1. cmds[j].answer \notin Refusals /\ ~ Repeated(j)
      BY <1>1, <2>3 DEF CanFill
    <3>2. cmds[j].answer \in {"accepted", "cws_error"}
      <4>1. cmds[j] \in Commands
        BY ElementTypes DEF Latest
      <4> QED
        BY <4>1, <3>1, <1>1, <2>3 DEF Commands, Answers, Refusals
    <3> QED
      BY <1>1, <1>2, <1>5, <2>1, <2>3, <3>1, <3>2 DEF AckOf
  <2> QED
    BY <2>2, <2>3
<1>6. Acks'
  <2>1. Acks
    BY DEF Core
  <2>2. \A k \in 1 .. Len(acks) : \E j \in 1 .. Latest : AckOf(acks[k], j)'
    BY <2>1, <1>5 DEF Acks
  <2> QED
    BY <2>1, <2>2, <1>2 DEF Acks
<1>7. ReportedFills'
  <2>1. ReportedFills
    BY DEF Core
  <2>2. \A j \in 1 .. Latest : /\ cmds'[j].id = cmds[j].id /\ cmds'[j].class = cmds[j].class
                               /\ cmds'[j].filled <=> cmds[j].filled
    BY <1>1 DEF Quieter, SameOrders, Latest
  <2> QED
    BY <2>1, <2>2, <1>2 DEF ReportedFills
<1>8. AnswersRight(strategy.st.phase.name, acks)'
  <2>1. AnswersRight(strategy.st.phase.name, acks)
    BY DEF Core
  <2>2. cmds'[Latest].answer # "none"
    BY <1>1, <1>3
  <2>3. cmds[Latest].answer \notin Hard
    BY <1>1 DEF CanFill, Hard, Refusals
  <2>4. \A k \in 1 .. Len(acks) : acks[k].status \notin Hard
    BY <2>1, <2>3 DEF AnswersRight, Refused
  <2> QED
    BY <2>2, <2>4, <1>2 DEF AnswersRight, Unanswered, Refused
<1> QED
  BY <1>4, <1>6, <1>7, <1>8 DEF Core

(* A bar published keeps it.                                               *)
LEMMA CoreClose ==
  ASSUME TypeOK, Core, CloseBar
  PROVE  Core'
<1>1. UNCHANGED <<account, positions, acks, orders, strategy, pos, restarts, cmds>>
  BY DEF CloseBar, streams, runtime
<1>2. /\ Queue /\ Market /\ Acks /\ ReportedFills /\ Again /\ Warm /\ Dawn
      /\ PhaseRight(strategy.st.phase) /\ AnswersRight(strategy.st.phase.name, acks)
  BY DEF Core
<1>3. /\ Queue' /\ Market' /\ Acks' /\ ReportedFills' /\ Again' /\ Warm'
      /\ PhaseRight(strategy.st.phase)' /\ AnswersRight(strategy.st.phase.name, acks)'
  BY <1>1, <1>2
  DEF Queue, Market, Acks, ReportedFills, Again, Warm, PhaseRight, AnswersRight, Latest,
      Superseded, AckOf, Alive, CanFill, Repeated, Terms, NameRight, NoLater, Stale, Unanswered, Refused
<1>4. Dawn'
  <2>1. CASE NewDay
    <3>1. positions = << >> /\ \A i \in 1 .. Latest : ~ CanFill(i)
      BY <2>1 DEF CloseBar, Quiet, Latest
    <3>2. Latest' = Latest /\ \A i \in 1 .. Latest : CanFill(i)' => CanFill(i)
      BY <1>1 DEF Latest, CanFill, Repeated
    <3> QED
      BY <3>1, <3>2, <1>1 DEF Dawn
  <2>2. CASE ~ NewDay
    <3>1. dawn' = dawn
      BY <2>2 DEF CloseBar
    <3> QED
      BY <3>1, <1>1, <1>2 DEF Dawn, Latest, CanFill, Repeated
  <2> QED
    BY <2>1, <2>2
<1> QED
  BY <1>3, <1>4 DEF Core

(* An order event keeps it.                                                *)
LEMMA CoreReport ==
  ASSUME TypeOK, Core, NEW i \in 1 .. Len(cmds), ReportOrder(i)
  PROVE  Core'
<1> DEFINE o == [req |-> cmds[i].id, ts |-> clock,
                 status |-> IF cmds[i].filled THEN "filled" ELSE "working"]
<1>1. /\ UNCHANGED <<account, dawn, positions, acks, strategy, pos, restarts, cmds>>
      /\ cmds[i].class = "Entry" /\ orders' = Append(orders, o)
  BY DEF ReportOrder, env, runtime
<1>2. /\ Queue /\ Market /\ Acks /\ ReportedFills /\ Again /\ Warm /\ Dawn
      /\ PhaseRight(strategy.st.phase) /\ AnswersRight(strategy.st.phase.name, acks)
  BY DEF Core
<1>3. /\ Queue' /\ Market' /\ Acks' /\ Again' /\ Warm' /\ Dawn' /\ PhaseRight(strategy.st.phase)'
      /\ AnswersRight(strategy.st.phase.name, acks)'
  BY <1>1, <1>2
  DEF Queue, Market, Acks, Again, Warm, Dawn, PhaseRight, AnswersRight, Latest,
      Superseded, AckOf, Alive, CanFill, Repeated, Terms, NameRight, NoLater, Stale, Unanswered, Refused
<1>4. ReportedFills'
  <2>1. o.req = cmds[i].id /\ (o.status = "filled" <=> cmds[i].filled)
    OBVIOUS
  <2> HIDE DEF o
  <2>2. \A k \in 1 .. Len(orders') : orders'[k] = o \/ (k \in 1 .. Len(orders) /\ orders'[k] = orders[k])
    <3>1. orders \in Seq(Events) /\ clock \in Nat /\ cmds[i] \in Commands
      BY ElementTypes DEF TypeOK
    <3>2. o \in Events
      BY <3>1 DEF Events, Commands, o
    <3> QED
      BY <3>1, <3>2, <1>1, AppendParts
  <2> QED
    BY <2>1, <2>2, <1>1, <1>2 DEF ReportedFills, Latest
<1> QED
  BY <1>3, <1>4 DEF Core

(* An answer given keeps it: a refusal is of the last command, for which   *)
(* the strategy waits.                                                     *)
LEMMA CoreAnswer ==
  ASSUME TypeOK, Core, NEW i \in 1 .. Len(cmds), NEW status \in Answers, NEW ts \in {clock, clock + 1},
         Answer(i, status, ts)
  PROVE  Core'
<1> PICK a : a = [req |-> cmds[i].id, status |-> status, ts |-> ts]
  OBVIOUS
<1> PICK name : name = strategy.st.phase.name
  OBVIOUS
<1>1. /\ cmds[i].answer = "none" /\ (status = "duplicate" <=> Repeated(i))
      /\ status \in Refusals => ~ cmds[i].filled
      /\ cmds' = [cmds EXCEPT ![i].answer = status]
      /\ acks' = Append(acks, a)
      /\ UNCHANGED <<account, dawn, orders, positions, pos, strategy, restarts>>
  BY DEF Answer, env, runtime
<1>2. /\ cmds \in Seq(Commands) /\ acks \in Seq(Events) /\ clock \in Nat /\ cmds[i] \in Commands
      /\ Latest \in Nat /\ i \in 1 .. Latest
  BY ElementTypes, LatestParts DEF TypeOK, Latest
<1>3. /\ cmds' \in Seq(Commands) /\ SameOrders
      /\ cmds'[i].answer = status /\ (cmds'[i].filled <=> cmds[i].filled)
      /\ \A j \in 1 .. Latest : j # i => cmds'[j] = cmds[j]
  BY <1>1, <1>2, AnsweredParts DEF Latest
<1>4. Latest' = Latest /\ \A j \in 1 .. Latest : Repeated(j)' <=> Repeated(j)
  BY <1>3, SameRepeated, LatestParts
<1>5. /\ Queue /\ Market /\ Acks /\ ReportedFills /\ Again /\ Warm
      /\ PhaseRight(strategy.st.phase) /\ AnswersRight(strategy.st.phase.name, acks)
  BY DEF Core
<1>6. ASSUME NEW j \in 1 .. Latest
      PROVE  /\ cmds'[j].filled <=> cmds[j].filled
             /\ CanFill(j)' => CanFill(j)
             /\ cmds[j].answer = "closed" => cmds'[j].answer = "closed"
             /\ cmds'[j].filled => cmds'[j].answer \notin Refusals
  <2>1. CASE j = i
    BY <2>1, <1>1, <1>3, <1>4 DEF CanFill, Refusals
  <2>2. CASE j # i
    BY <2>2, <1>3, <1>4, <1>5 DEF CanFill, Market
  <2> QED
    BY <2>1, <2>2
<1>7. Quieter
  BY <1>1, <1>3, <1>6 DEF Quieter
<1>8. /\ Queue' /\ Market' /\ Again' /\ Warm' /\ Dawn' /\ PhaseRight(strategy.st.phase)'
  BY <1>7, QuieterKeeps
<1>9. a.req = cmds[i].id /\ a.status = status /\ a \in Events
  BY SMTT(30), <1>2 DEF Events, Commands
<1>10. /\ Len(acks') = Len(acks) + 1 /\ Len(acks) \in Nat /\ acks'[Len(acks) + 1] = a
       /\ \A k : k \in 1 .. Len(acks') <=> k \in 1 .. Len(acks) \/ k = Len(acks) + 1
       /\ \A k \in 1 .. Len(acks) : acks'[k] = acks[k]
  BY <1>1, <1>2, <1>9, AppendParts
<1>11. ASSUME NEW b, NEW j \in 1 .. Latest, AckOf(b, j) PROVE AckOf(b, j)' /\ j # i
  <2>1. j # i
    BY <1>1, <1>11 DEF AckOf
  <2> QED
    BY <2>1, <1>3, <1>4, <1>11 DEF AckOf
<1>12. AckOf(a, i)'
  <2>1. cmds'[i].id = cmds[i].id /\ status # "none"
    BY <1>3 DEF SameOrders, Answers
  <2> QED
    BY <2>1, <1>1, <1>2, <1>3, <1>4, <1>9 DEF AckOf
<1>13. Acks'
  <2>1. ASSUME NEW k \in 1 .. Len(acks'), NEW b, b = acks'[k]
        PROVE  \E j \in 1 .. Latest : AckOf(b, j)'
    <3>1. CASE k \in 1 .. Len(acks)
      <4>1. b = acks[k]
        BY <2>1, <3>1, <1>10
      <4>2. PICK j \in 1 .. Latest : AckOf(b, j)
        BY <4>1, <3>1, <1>5 DEF Acks
      <4> QED
        BY <4>2, <1>11
    <3>2. CASE k = Len(acks) + 1
      <4>1. b = a
        BY <2>1, <3>2, <1>10
      <4> QED
        BY <4>1, <1>2, <1>12
    <3> QED
      BY <3>1, <3>2, <1>10
  <2>2. ASSUME NEW j \in 1 .. Len(acks), acks[j].req = a.req
        PROVE  acks[j].status = "duplicate" \/ a.status = "duplicate"
    <3>1. PICK l \in 1 .. Latest : AckOf(acks[j], l)
      BY <1>5 DEF Acks
    <3>2. l # i /\ cmds[l].id = cmds[i].id /\ (acks[j].status = "duplicate" <=> Repeated(l))
      BY <3>1, <2>2, <1>9, <1>11 DEF AckOf
    <3>3. l < i => Repeated(i)
      BY <3>2, <1>2 DEF Repeated
    <3>4. i < l => Repeated(l)
      BY <3>2, <1>2 DEF Repeated
    <3> QED
      BY <3>2, <3>3, <3>4, <1>1, <1>2, <1>9
  <2>3. \A j, k \in 1 .. Len(acks') :
          j < k /\ acks'[j].req = acks'[k].req =>
            acks'[j].status = "duplicate" \/ acks'[k].status = "duplicate"
    BY SMTT(30), <2>2, <1>5, <1>10 DEF Acks
  <2> QED
    BY <2>1, <2>3, <1>4 DEF Acks
<1>14. ReportedFills'
  <2>1. \A j \in 1 .. Latest : /\ cmds'[j].id = cmds[j].id /\ cmds'[j].class = cmds[j].class
                               /\ cmds'[j].filled <=> cmds[j].filled
    BY <1>3, <1>6 DEF SameOrders, Latest
  <2> QED
    BY <2>1, <1>1, <1>4, <1>5 DEF ReportedFills
<1>15. AnswersRight(strategy.st.phase.name, acks)'
  <2>1. /\ strategy'.st.phase.name = name /\ Unanswered(name)
        /\ \A k \in 1 .. Len(acks) : Refused(name, acks[k])
    BY <1>1, <1>5 DEF AnswersRight
  <2>2. Latest > 0 => Latest \in 1 .. Latest
    BY <1>2
  <2>3. Unanswered(name)'
    <3>1. SUFFICES ASSUME Latest > 0, CanFill(Latest)', cmds'[Latest].answer = "none"
                   PROVE  name \in Waiting
      BY <2>1, <1>4 DEF Unanswered
    <3>2. CanFill(Latest)
      BY <3>1, <2>2, <1>4, <1>6
    <3>3. cmds[Latest].answer = "none"
      BY <3>1, <2>2, <1>1, <1>3
    <3> QED
      BY <3>1, <3>2, <3>3, <2>1 DEF Unanswered
  <2>4. ASSUME NEW b, NEW k \in 1 .. Len(acks), b = acks[k] PROVE Refused(name, b)'
    <3>1. SUFFICES ASSUME b.status \in Hard
                   PROVE  /\ name \in Waiting /\ Latest > 0 /\ cmds'[Latest].id = b.req
                          /\ ~ Repeated(Latest)' /\ cmds'[Latest].answer = b.status
      BY <1>4 DEF Refused
    <3>2. /\ name \in Waiting /\ Latest > 0 /\ cmds[Latest].id = b.req
          /\ ~ Repeated(Latest) /\ cmds[Latest].answer = b.status
      BY <2>1, <2>4, <3>1 DEF Refused
    <3>3. Latest # i
      BY <3>1, <3>2, <1>1 DEF Hard
    <3>4. cmds'[Latest] = cmds[Latest]
      BY <3>2, <3>3, <2>2, <1>3
    <3> QED
      BY <3>2, <3>4, <2>2, <1>4
  <2>5. Refused(name, a)'
    <3>1. SUFFICES ASSUME status \in Hard
                   PROVE  /\ name \in Waiting /\ Latest > 0 /\ cmds'[Latest].id = a.req
                          /\ ~ Repeated(Latest)' /\ cmds'[Latest].answer = status
      BY <1>4, <1>9 DEF Refused
    <3>2. ~ Repeated(i) /\ CanFill(i)
      BY <3>1, <1>1 DEF Hard, Refusals, CanFill
    <3>3. i = Latest
      BY <3>2, <1>2, <1>5 DEF Market
    <3>4. name \in Waiting
      BY <3>2, <3>3, <2>1, <1>1, <1>2 DEF Unanswered
    <3>5. cmds'[i].id = cmds[i].id
      BY <1>3 DEF SameOrders
    <3> QED
      BY <3>2, <3>3, <3>4, <3>5, <1>2, <1>3, <1>4, <1>9
  <2>6. ASSUME NEW k \in 1 .. Len(acks'), NEW b, b = acks'[k] PROVE Refused(name, b)'
    <3>1. b = a \/ (k \in 1 .. Len(acks) /\ b = acks[k])
      BY <2>6, <1>10
    <3> QED
      BY <3>1, <2>4, <2>5
  <2> QED
    BY <2>1, <2>3, <2>6 DEF AnswersRight
<1> QED
  BY <1>8, <1>13, <1>14, <1>15 DEF Core

(* An execution makes the account what the order wanted, and leaves        *)
(* nothing that can be executed.                                           *)
LEMMA FillParts ==
  ASSUME TypeOK, Core, NEW i \in 1 .. Len(cmds), Fill(i)
  PROVE  /\ i = Latest /\ Latest' = Latest /\ i \in 1 .. Latest
         /\ cmds' \in Seq(Commands) /\ SameOrders /\ cmds' # << >>
         /\ cmds[i].answer \notin Refusals /\ ~ Repeated(i) /\ ~ cmds[i].filled
         /\ cmds'[i].filled
         /\ \A j \in 1 .. Latest : /\ j # i => cmds'[j] = cmds[j]
                                   /\ cmds'[j].answer = cmds[j].answer
                                   /\ ~ CanFill(j)' /\ (Repeated(j)' <=> Repeated(j))
         /\ Alive(cmds[i].class)
         /\ account' = account + cmds[i].lots
         /\ \E x : /\ x.qty = account' /\ x.life = restarts
                   /\ positions' = Append(positions, x) /\ positions' # << >>
                   /\ Len(positions') = Len(positions) + 1 /\ positions'[Len(positions) + 1] = x
                   /\ \A k \in 1 .. Len(positions) : positions'[k] = positions[k]
         /\ UNCHANGED <<dawn, acks, orders, strategy, pos, restarts>>
<1>1. /\ CanFill(i) /\ cmds' = [cmds EXCEPT ![i].filled = TRUE]
      /\ account' = account + cmds[i].lots
      /\ positions' = Append(positions, [qty |-> account', ts |-> clock, life |-> restarts])
      /\ UNCHANGED <<clock, dawn, acks, orders, strategy, pos, restarts>>
  BY DEF Fill, runtime
<1>2. /\ cmds \in Seq(Commands) /\ positions \in Seq(Reports) /\ clock \in Nat
      /\ account \in Int /\ restarts \in Nat /\ cmds[i] \in Commands
      /\ Latest \in Nat /\ i \in 1 .. Latest
  BY ElementTypes, LatestParts, ConstantParts DEF TypeOK, Latest
<1>3. /\ cmds' \in Seq(Commands) /\ SameOrders
      /\ cmds'[i].filled /\ cmds'[i].answer = cmds[i].answer
      /\ \A j \in 1 .. Latest : j # i => cmds'[j] = cmds[j]
  BY <1>1, <1>2, FilledParts DEF Latest
<1>4. Latest' = Latest /\ \A j \in 1 .. Latest : Repeated(j)' <=> Repeated(j)
  BY <1>3, SameRepeated, LatestParts
<1>5. i = Latest /\ \A j \in 1 .. Latest : CanFill(j) => j = Latest
  BY <1>1, <1>2 DEF Core, Market
<1>6. \A j \in 1 .. Latest : ~ CanFill(j)'
  BY <1>3, <1>4, <1>5 DEF CanFill
<1>7. cmds[i].answer \notin Refusals /\ ~ Repeated(i) /\ ~ cmds[i].filled
  BY <1>1 DEF CanFill
<1>8. Alive(cmds[i].class)
  BY <1>1, <1>2, <1>5 DEF Alive
<1>9. \E x : /\ x.qty = account' /\ x.life = restarts
             /\ positions' = Append(positions, x) /\ positions' # << >>
             /\ Len(positions') = Len(positions) + 1 /\ positions'[Len(positions) + 1] = x
             /\ \A k \in 1 .. Len(positions) : positions'[k] = positions[k]
  <2>1. PICK x : x = [qty |-> account', ts |-> clock, life |-> restarts]
    OBVIOUS
  <2>2. account' \in Int
    <3>1. cmds[i].lots \in Int
      BY <1>2 DEF Commands
    <3> QED
      BY <3>1, <1>1, <1>2
  <2>3. x \in Reports /\ x.qty = account' /\ x.life = restarts
    BY <2>1, <2>2, <1>2 DEF Reports
  <2>4. positions' = Append(positions, x)
    BY <1>1, <2>1
  <2>5. /\ Len(positions') = Len(positions) + 1 /\ positions'[Len(positions) + 1] = x
        /\ \A k \in 1 .. Len(positions) : positions'[k] = positions[k]
        /\ Len(positions) \in Nat
    BY <1>2, <2>3, <2>4, AppendParts
  <2>6. positions' # << >>
    BY <2>5, EmptySeq
  <2> QED
    BY <2>3, <2>4, <2>5, <2>6
<1>10. cmds' # << >>
  BY <1>2, <1>4, EmptySeq DEF Latest
<1> QED
  BY <1>1, <1>2, <1>3, <1>4, <1>5, <1>6, <1>7, <1>8, <1>9, <1>10

(* An execution keeps it: the report that follows is what explains the     *)
(* phase from then on.                                                     *)
LEMMA CoreFill ==
  ASSUME TypeOK, Core, NEW i \in 1 .. Len(cmds), Fill(i)
  PROVE  Core'
<1>1. /\ i = Latest /\ Latest' = Latest /\ i \in 1 .. Latest
      /\ cmds' \in Seq(Commands) /\ SameOrders /\ cmds' # << >>
      /\ cmds[i].answer \notin Refusals /\ ~ Repeated(i) /\ ~ cmds[i].filled
      /\ cmds'[i].filled
      /\ \A j \in 1 .. Latest : /\ j # i => cmds'[j] = cmds[j]
                                /\ cmds'[j].answer = cmds[j].answer
                                /\ ~ CanFill(j)' /\ (Repeated(j)' <=> Repeated(j))
      /\ Alive(cmds[i].class)
      /\ account' = account + cmds[i].lots
      /\ UNCHANGED <<dawn, acks, orders, strategy, pos, restarts>>
  BY FillParts
<1>2. PICK x : /\ x.qty = account' /\ x.life = restarts
               /\ positions' = Append(positions, x) /\ positions' # << >>
               /\ Len(positions') = Len(positions) + 1 /\ positions'[Len(positions) + 1] = x
               /\ \A k \in 1 .. Len(positions) : positions'[k] = positions[k]
  BY FillParts
<1>3. /\ Queue /\ Market /\ Acks /\ ReportedFills /\ Again /\ Warm /\ Dawn
      /\ PhaseRight(strategy.st.phase) /\ AnswersRight(strategy.st.phase.name, acks)
  BY DEF Core
<1>4. /\ Latest \in Nat /\ Latest > 0 /\ cmds # << >>
      /\ positions \in Seq(Reports) /\ Len(positions) \in Nat
      /\ (positions = << >> => Len(positions) = 0) /\ cmds[i].class \in {"Entry", "Exit"}
  <2>1. cmds[i] \in Commands /\ i > 0
    BY <1>1, ElementTypes, LatestParts
  <2>2. positions \in Seq(Reports) /\ Len(positions) \in Nat
    BY LenProperties DEF TypeOK
  <2> QED
    BY <2>1, <2>2, <1>1, LatestParts, EmptySeq DEF Commands
<1>5. \A j \in 1 .. Latest :
        /\ cmds'[j].id = cmds[j].id /\ cmds'[j].lots = cmds[j].lots
        /\ cmds'[j].class = cmds[j].class /\ cmds'[j].again = cmds[j].again
  BY <1>1 DEF SameOrders, Latest
<1>6. \A class : ~ Alive(class)'
  BY <1>1, <1>4 DEF Alive
<1>7. \/ /\ cmds[i].class = "Entry" /\ account = 0 /\ positions = << >>
         /\ account' = 1 /\ Len(positions') = 1 /\ positions'[1].qty = 1
      \/ /\ cmds[i].class = "Exit" /\ account = 1 /\ Superseded
         /\ account' = 0 /\ strategy.st.phase.name \in Closing
         /\ \/ Len(positions') = 1 /\ positions'[1].qty = 0
            \/ Len(positions') = 2 /\ positions'[1].qty = 1 /\ positions'[2].qty = 0
  <2>1. CASE cmds[i].class = "Entry"
    <3>1. account = 0 /\ positions = << >>
      BY <2>1, <1>1, <1>3 DEF Market
    <3>2. cmds[i].lots = 1
      BY <2>1, <1>1, <1>3 DEF Market
    <3>3. account' = 1
      BY <3>1, <3>2, <1>1
    <3>4. Len(positions) = 0
      BY <3>1, <1>4
    <3> QED
      BY <2>1, <3>1, <3>3, <3>4, <1>2
  <2>2. CASE cmds[i].class = "Exit"
    <3>1. Alive("Exit") /\ account = 1 /\ Superseded /\ strategy.st.phase.name \in Closing
      BY <2>2, <1>1, <1>3 DEF Market, PhaseRight, NameRight
    <3>2. cmds[i].lots = -1
      BY <2>2, <1>1, <1>3 DEF Market
    <3>3. account' = 0
      BY <3>1, <3>2, <1>1
    <3>4. positions # << >> => Len(positions) = 1 /\ positions[1].qty = 1
      BY <3>1, <1>3 DEF Queue
    <3>5. CASE positions = << >>
      BY <2>2, <3>1, <3>3, <3>5, <1>2, <1>4
    <3>6. CASE positions # << >>
      <4>1. 1 \in 1 .. Len(positions) /\ Len(positions) = 1 /\ positions[1].qty = 1
        BY <3>4, <3>6
      <4>2. Len(positions') = 2 /\ positions'[1].qty = 1 /\ positions'[2].qty = 0
        BY <4>1, <3>3, <1>2
      <4> QED
        BY <2>2, <4>2, <3>1, <3>3
    <3> QED
      BY <3>5, <3>6
  <2> QED
    BY <2>1, <2>2, <1>4
<1>8. Queue'
  BY <1>1, <1>2, <1>3, <1>4, <1>7 DEF Queue
<1>9. Superseded /\ cmds[i].class = "Exit" => Superseded'
  BY <1>1, <1>5 DEF Superseded
<1>10. Market'
  <2>1. \A j \in 1 .. Latest' :
          /\ CanFill(j)' => j = Latest'
          /\ cmds'[j].lots = IF cmds'[j].class = "Entry" THEN 1 ELSE -1
          /\ cmds'[j].filled => ~ Repeated(j)' /\ cmds'[j].answer \notin Refusals
    BY <1>1, <1>3, <1>5 DEF Market
  <2>2. account' \in {0, 1} /\ (account' = 0 => Superseded')
    BY <1>7, <1>9
  <2> QED
    BY <2>1, <2>2, <1>1, <1>6 DEF Market
<1>11. Acks'
  <2>1. ASSUME NEW b, NEW j \in 1 .. Latest, AckOf(b, j) PROVE AckOf(b, j)'
    BY <1>1, <1>5, <2>1 DEF AckOf
  <2>2. \A k \in 1 .. Len(acks) : \E j \in 1 .. Latest : AckOf(acks[k], j)'
    <3>1. ASSUME NEW k \in 1 .. Len(acks) PROVE \E j \in 1 .. Latest : AckOf(acks[k], j)'
      <4>1. PICK b : b = acks[k]
        OBVIOUS
      <4>2. PICK j \in 1 .. Latest : AckOf(b, j)
        BY <4>1, <1>3 DEF Acks
      <4>3. AckOf(b, j)' /\ b = acks'[k]
        BY <4>1, <4>2, <2>1, <1>1
      <4> QED
        BY <4>3
    <3> QED
      BY <3>1
  <2> QED
    BY <2>2, <1>1, <1>3 DEF Acks
<1>12. ReportedFills'
  <2>1. \A j \in 1 .. Latest : cmds[j].filled => cmds'[j].filled
    BY <1>1
  <2> QED
    BY SMTT(30), <2>1, <1>1, <1>3, <1>5 DEF ReportedFills
<1>13. Again'
  <2>1. \A j \in 1 .. Latest : j > 1 => j - 1 \in 1 .. Latest
    BY <1>4
  <2> QED
    BY <2>1, <1>1, <1>3, <1>5 DEF Again
<1>14. Warm'
  BY <1>1, <1>3, <1>4 DEF Warm
<1>15. PhaseRight(strategy.st.phase)'
  <2>1. PICK p : p = strategy.st.phase
    OBVIOUS
  <2>2. Terms(p) /\ NameRight(p.name) /\ (p.name \in Entering => p.req = cmds[Latest].id)
        /\ p = strategy'.st.phase
    BY <2>1, <1>1, <1>3 DEF PhaseRight
  <2>3. NoLater => NoLater'
    BY <1>1, <1>5 DEF NoLater
  <2>4. p.name # "EntryDeferred" /\ p.name # "NotWarmed"
    BY <2>2, <1>1, <1>4 DEF NameRight, Refusals
  <2>5. CASE cmds[i].class = "Entry"
    <3>1. account' = 1
      BY <2>5, <1>7
    <3> QED
      BY <2>2, <2>3, <2>4, <2>5, <3>1, <1>1, <1>2, <1>5, <1>6 DEF NameRight, PhaseRight, Terms
  <2>6. CASE cmds[i].class = "Exit"
    <3>1. account' = 0 /\ p.name \in Closing
      BY <2>1, <2>6, <1>7
    <3>2. p.name \notin Entering \cup {"Flat", "EntryDeferred", "NotWarmed"}
      BY <3>1 DEF Closing, Exiting, Entering
    <3> QED
      BY <2>2, <2>3, <3>1, <3>2, <1>1, <1>2, <1>5, <1>6 DEF NameRight, PhaseRight, Terms
  <2> QED
    BY <2>5, <2>6, <1>4
<1>16. AnswersRight(strategy.st.phase.name, acks)'
  <2>1. PICK name : name = strategy.st.phase.name
    OBVIOUS
  <2>2. Unanswered(name)'
    BY <1>1 DEF Unanswered
  <2>3. ASSUME NEW k \in 1 .. Len(acks), NEW b, b = acks[k] PROVE Refused(name, b)'
    <3>1. Refused(name, b)
      BY <2>1, <2>3, <1>3 DEF AnswersRight
    <3> QED
      BY <3>1, <1>1, <1>5 DEF Refused
  <2> QED
    BY <2>1, <2>2, <2>3, <1>1 DEF AnswersRight
<1>17. Dawn'
  <2>1. CanFill(i) /\ i > dawn
    BY <1>1, <1>3 DEF Alive, Dawn
  <2>2. dawn \in Nat /\ i \in dawn + 1 .. Latest
    BY <2>1, <1>1, <1>4 DEF TypeOK
  <2>3. account' = 1 => cmds'[i].class = "Entry"
    BY <1>1, <1>5, <1>7
  <2> QED
    BY <2>2, <2>3, <1>1 DEF Dawn
<1> QED
  BY <1>8, <1>10, <1>11, <1>12, <1>13, <1>14, <1>15, <1>16, <1>17 DEF Core

(* So does every step of the environment.                                  *)
LEMMA CoreEnvironment ==
  ASSUME TypeOK, Core, Environment
  PROVE  Core'
BY CoreClose, CoreFill, CoreExpire, CoreAnswer, CoreReport DEF Environment

-----------------------------------------------------------------------------
(* Handlers that send nothing keep it: what they may do to the phase.      *)

(* No answer is due and none of the unread ones refuses: then every phase  *)
(* goes with them.                                                         *)
LEMMA AnyName ==
  ASSUME Core, NEW p, p = strategy.st.phase,
         p.name \notin Waiting \/ (Latest \in 1 .. Latest /\ cmds[Latest].filled)
  PROVE  \A name : AnswersRight(name, acks)
<1>1. AnswersRight(p.name, acks) /\ Market
  BY DEF Core
<1>2. ~ (Latest > 0 /\ CanFill(Latest) /\ cmds[Latest].answer = "none")
  BY <1>1 DEF AnswersRight, Unanswered, CanFill
<1>3. ASSUME NEW k \in 1 .. Len(acks), acks[k].status \in Hard PROVE FALSE
  <2>1. p.name \in Waiting /\ cmds[Latest].answer = acks[k].status
    BY <1>1, <1>3 DEF AnswersRight, Refused
  <2> QED
    BY <2>1, <1>1, <1>3 DEF Market, Hard, Refusals
<1> QED
  BY <1>2, <1>3 DEF AnswersRight, Unanswered, Refused

(* A phase that waits goes with any answers that another one goes with.    *)
LEMMA WaitingName ==
  ASSUME NEW m, NEW n \in Waiting, NEW s, AnswersRight(m, s)
  PROVE  AnswersRight(n, s)
BY DEF AnswersRight, Unanswered, Refused

(* A phase goes with the answers left when one was read.                   *)
LEMMA TailAnswers ==
  ASSUME TypeOK, acks # << >>, NEW name, AnswersRight(name, acks)
  PROVE  AnswersRight(name, Tail(acks))
<1>1. acks \in Seq(Events) /\ Len(acks) > 0
  BY EmptySeq, LenProperties DEF TypeOK
<1>2. \A k \in 1 .. Len(Tail(acks)) : k + 1 \in 1 .. Len(acks) /\ Tail(acks)[k] = acks[k + 1]
  BY <1>1, TailParts
<1> QED
  BY <1>2 DEF AnswersRight

(* The answer of the last command is its only one.                         *)
LEMMA OneAnswer ==
  ASSUME TypeOK, Core, NEW a, acks # << >>, a = acks[1], a.status # "duplicate",
         Latest > 0, cmds[Latest].id = a.req
  PROVE  \A name : AnswersRight(name, Tail(acks))
<1>1. acks \in Seq(Events) /\ Len(acks) > 0 /\ Len(acks) \in Nat
  BY EmptySeq, LenProperties DEF TypeOK
<1>2. \A k \in 1 .. Len(Tail(acks)) : k + 1 \in 1 .. Len(acks) /\ Tail(acks)[k] = acks[k + 1]
  BY <1>1, TailParts
<1>3. Acks /\ AnswersRight(strategy.st.phase.name, acks)
  BY DEF Core
<1>4. ASSUME NEW k \in 1 .. Len(Tail(acks)), Tail(acks)[k].status \in Hard PROVE FALSE
  <2>1. k + 1 \in 1 .. Len(acks) /\ acks[k + 1].status \in Hard
    BY <1>2, <1>4
  <2>2. cmds[Latest].id = acks[k + 1].req
    BY <2>1, <1>3 DEF AnswersRight, Refused
  <2>3. 1 \in 1 .. Len(acks) /\ 1 < k + 1
    BY <1>1
  <2>4. acks[1].status = "duplicate" \/ acks[k + 1].status = "duplicate"
    BY <2>1, <2>2, <2>3, <1>3 DEF Acks
  <2> QED
    BY <2>1, <2>4 DEF Hard
<1>5. ~ (Latest > 0 /\ CanFill(Latest) /\ cmds[Latest].answer = "none")
  <2>1. PICK i \in 1 .. Latest : AckOf(a, i)
    BY <1>1, <1>3 DEF Acks
  <2>2. cmds[i].id = cmds[Latest].id /\ cmds[i].answer # "none"
    BY <2>1 DEF AckOf
  <2>3. Latest \in Nat
    BY LatestParts
  <2>4. i # Latest => Repeated(Latest)
    BY <2>2, <2>3 DEF Repeated
  <2> QED
    BY <2>2, <2>4 DEF CanFill
<1> QED
  BY <1>4, <1>5 DEF AnswersRight, Unanswered, Refused

(* Phases that look alike are alike for the account.                       *)
LEMMA AlikeRight ==
  ASSUME NEW p, NEW q, PhaseRight(p), Alike(q, p)
  PROVE  PhaseRight(q) /\ q.name = p.name
<1>1. CASE q = p
  BY <1>1
<1>2. CASE p.name \in Entering \cup Exiting /\ q.name = p.name /\ SameTerms(q, p)
  <2>1. q.name \notin {"InPosition", "EntryDeferred", "ExitDeferred", "CloseOnly"}
    BY <1>2 DEF Entering, Exiting
  <2> QED
    BY <2>1, <1>2 DEF PhaseRight, Terms, SameTerms
<1> QED
  BY <1>1, <1>2 DEF Alike

(* A pending entry finds the account flat with nothing to read, or itself  *)
(* executed.                                                               *)
LEMMA EnteringParts ==
  ASSUME TypeOK, Core, NEW p, p = strategy.st.phase, p.name \in Entering
  PROVE  /\ Latest \in 1 .. Latest /\ cmds[Latest].class = "Entry" /\ p.req = cmds[Latest].id
         /\ p.lots = 1 /\ p.baseline = 0 /\ NoLater
         /\ ~ Alive("Exit")
         /\ account = 0 => positions = << >>
         /\ account = 1 => cmds[Latest].filled /\ positions # << >>
         /\ cmds[Latest].answer \in Refusals => account = 0
<1>1. PhaseRight(p) /\ Market
  BY DEF Core
<1>2. NameRight(p.name) /\ Terms(p) /\ p.req = cmds[Latest].id
  BY <1>1 DEF PhaseRight
<1>3. p.name \notin Closing \cup {"Flat", "InPosition", "ExitDeferred"}
  BY DEF Closing, Exiting, Entering
<1>4. Latest \in 1 .. Latest /\ cmds[Latest].class = "Entry" /\ NoLater
      /\ (account = 1 => cmds[Latest].filled /\ positions # << >>)
  BY <1>2, LatestParts DEF NameRight
<1>5. account \in {0, 1} /\ (cmds[Latest].filled => cmds[Latest].answer \notin Refusals)
  BY <1>1, <1>4 DEF Market
<1> QED
  BY <1>2, <1>3, <1>4, <1>5 DEF NameRight, Terms

(* An entry refused may block the strategy.                                *)
LEMMA BlockedRight ==
  ASSUME TypeOK, Core, strategy.st.phase.name = "PendingEntry"
  PROVE  PhaseRight(Blocked) /\ AnswersRight("Blocked", acks)
<1>1. ~ Alive("Exit") /\ (account = 0 => positions = << >>)
  BY EnteringParts DEF Entering
<1>2. PhaseRight(Blocked)
  <2>1. Blocked.name = "Blocked"
    BY DEF Blocked
  <2> QED
    BY <2>1, <1>1
    DEF PhaseRight, Terms, NameRight, Entering, Exiting, Exposed, Closing
<1>3. AnswersRight("PendingEntry", acks) /\ "Blocked" \in Waiting
  BY DEF Core, Waiting
<1> QED
  BY <1>2, <1>3, WaitingName

(* An entry refused for a closed window may be put off.                    *)
LEMMA EntryDeferredRight ==
  ASSUME TypeOK, Core, NEW p, p = strategy.st.phase, p.name \in Entering,
         cmds[Latest].answer = "closed"
  PROVE  PhaseRight(EntryDeferred(p.lots))
<1>1. /\ Latest \in 1 .. Latest /\ cmds[Latest].class = "Entry"
      /\ p.lots = 1 /\ ~ Alive("Exit") /\ account = 0 /\ positions = << >>
  BY EnteringParts DEF Refusals
<1>2. EntryDeferred(p.lots).name = "EntryDeferred" /\ EntryDeferred(p.lots).lots = 1
  BY <1>1 DEF EntryDeferred
<1> HIDE DEF EntryDeferred
<1>3. Latest > 0
  BY <1>1
<1> QED
  BY <1>1, <1>2, <1>3 DEF PhaseRight, Terms, NameRight, Entering, Exiting, Exposed, Closing

(* An exposed phase goes with a position that is there, or with one that   *)
(* is closed and not read.                                                 *)
LEMMA ExposedParts ==
  ASSUME TypeOK, Core, NEW p, p = strategy.st.phase, p.name \in Exposed
  PROVE  /\ p.baseline = 0 /\ account \in {0, 1}
         /\ account = 0 => /\ positions # << >> /\ Latest \in 1 .. Latest /\ cmds[Latest].filled
                           /\ p.name \in Closing \/ Stale
         /\ account = 1 /\ positions = << >> => pos = 1
         /\ Alive("Exit") => p.name \in Closing
<1>1. Terms(p) /\ NameRight(p.name) /\ Queue /\ Market
  BY DEF Core, PhaseRight
<1>2. p.baseline = 0
  BY <1>1 DEF Terms, Exposed
<1>3. account = 0 => positions # << >>
  BY <1>1 DEF NameRight
<1> QED
  BY <1>1, <1>2, <1>3, LatestParts DEF NameRight, Queue, Market

(* An exit refused, or not published, may be put off.                      *)
LEMMA ExitDeferredRight ==
  ASSUME TypeOK, Core, NEW p, p = strategy.st.phase, p.name \in Exposed,
         \/ Latest \in 1 .. Latest /\ cmds[Latest].answer \in Refusals
         \/ p.name \in {"InPosition", "ExitDeferred"}
  PROVE  PhaseRight(ExitDeferred(p.baseline))
<1>1. /\ p.baseline = 0
      /\ account = 0 => /\ positions # << >> /\ Latest \in 1 .. Latest /\ cmds[Latest].filled
                        /\ p.name \in Closing \/ Stale
      /\ Alive("Exit") => p.name \in Closing
  BY ExposedParts
<1>2. ExitDeferred(p.baseline).name = "ExitDeferred" /\ ExitDeferred(p.baseline).baseline = 0
  BY <1>1 DEF ExitDeferred
<1> HIDE DEF ExitDeferred
<1>3. Latest \in 1 .. Latest => (cmds[Latest].filled => cmds[Latest].answer \notin Refusals)
  BY DEF Core, Market
<1>4. ~ Alive("Exit")
  <2>1. CASE cmds[Latest].answer \in Refusals
    BY <2>1 DEF Alive, CanFill
  <2>2. CASE p.name \in {"InPosition", "ExitDeferred"}
    BY <2>2, <1>1 DEF Closing, Exiting
  <2> QED
    BY <2>1, <2>2
<1>5. account = 0 => positions # << >> /\ Stale
  BY <1>1, <1>3 DEF Closing, Exiting
<1> QED
  BY <1>2, <1>4, <1>5 DEF PhaseRight, Terms, NameRight, Entering, Exiting, Exposed, Closing

(* An exit may be verified or left to the operator.                        *)
LEMMA ClosingRight ==
  ASSUME TypeOK, Core, NEW p, p = strategy.st.phase, p.name \in Exiting,
         NEW q, q.name \in {"ExitRecovery", "CloseOnly"}, q.baseline = p.baseline,
         q.name = "ExitRecovery" => q.lots = p.lots
  PROVE  PhaseRight(q)
<1>1. Terms(p) /\ NameRight(p.name)
  BY DEF Core, PhaseRight
<1>2. p.name \in Closing /\ p.name \in Exposed
  BY DEF Closing, Exposed
<1> QED
  BY <1>1, <1>2 DEF PhaseRight, Terms, NameRight, Entering, Exiting, Exposed, Closing

(* The first acknowledgement of a request that the last command bears.     *)
LEMMA FirstAck ==
  ASSUME TypeOK, Core, NEW a, acks # << >>, a = acks[1], NEW p, p = strategy.st.phase
  PROVE  /\ a.status \in Hard =>
              /\ p.name \in Waiting /\ Latest \in 1 .. Latest /\ cmds[Latest].id = a.req
              /\ ~ Repeated(Latest) /\ cmds[Latest].answer = a.status
         /\ AnswersRight(p.name, Tail(acks)) /\ PhaseRight(p)
<1>1. 1 \in 1 .. Len(acks)
  BY EmptySeq, LenProperties DEF TypeOK
<1>2. AnswersRight(p.name, acks) /\ PhaseRight(p)
  BY DEF Core
<1>3. Refused(p.name, a)
  BY <1>1, <1>2 DEF AnswersRight
<1>4. AnswersRight(p.name, Tail(acks))
  BY <1>2, TailAnswers
<1> QED
  BY <1>2, <1>3, <1>4, LatestParts DEF Refused

(* What an answer does to the phase suits the account.                     *)
LEMMA AckRight ==
  ASSUME TypeOK, Core, NEW a, acks # << >>, a = acks[1],
         NEW p, p = strategy.st.phase, p \in Phases, NEW q, AckMoves(p, q, a.req, a.status, NoOrder)
  PROVE  PhaseRight(q) /\ AnswersRight(q.name, Tail(acks))
<1>1. /\ a.status \in Hard =>
           /\ p.name \in Waiting /\ Latest \in 1 .. Latest /\ cmds[Latest].id = a.req
           /\ ~ Repeated(Latest) /\ cmds[Latest].answer = a.status
      /\ AnswersRight(p.name, Tail(acks)) /\ PhaseRight(p)
  BY FirstAck
<1>2. CASE Alike(q, p)
  BY <1>1, <1>2, AlikeRight
<1>3. CASE p.name = "PendingEntry" /\ p.req = a.req
  <2>1. Latest \in 1 .. Latest /\ p.req = cmds[Latest].id /\ p.name \in Entering
    BY <1>3, EnteringParts DEF Entering
  <2>2. a.status # "duplicate" => \A name : AnswersRight(name, Tail(acks))
    BY <2>1, <1>3, OneAnswer
  <2>3. CASE a.status = "closed" /\ q = EntryDeferred(p.lots)
    <3>1. cmds[Latest].answer = "closed"
      BY <2>3, <1>1 DEF Hard
    <3> QED
      BY <2>1, <2>2, <2>3, <3>1, EntryDeferredRight
  <2>4. CASE a.status = "cws_error" /\ q.name = "EntryRecovery" /\ SameTerms(q, p)
    <3>1. PhaseRight(q)
      <4>1. q.name \in Entering /\ q.name \notin Exiting \cup Closing \cup Exposed
        BY <2>4 DEF Entering, Exiting, Closing, Exposed
      <4>2. p.name \notin Closing \cup Exposed
        BY <1>3 DEF Closing, Exiting, Exposed
      <4> QED
        BY <4>1, <4>2, <2>1, <2>4, <1>1, <1>3 DEF PhaseRight, Terms, NameRight, SameTerms
    <3> QED
      BY <2>2, <2>4, <3>1
  <2>5. CASE a.status \notin NoAnswer /\ q = Blocked
    <3>1. PhaseRight(Blocked) /\ AnswersRight("Blocked", acks)
      BY <1>3, BlockedRight
    <3>2. AnswersRight("Blocked", Tail(acks))
      BY <3>1, TailAnswers
    <3> QED
      BY <2>5, <3>1, <3>2 DEF Blocked
  <2>6. \/ Alike(q, p)
        \/ a.status = "closed" /\ q = EntryDeferred(p.lots)
        \/ a.status = "cws_error" /\ q.name = "EntryRecovery" /\ SameTerms(q, p)
        \/ a.status \notin NoAnswer /\ q = Blocked
    BY <1>3 DEF AckMoves, Exiting
  <2> QED
    BY <2>3, <2>4, <2>5, <2>6, <1>2
<1>4. CASE p.name \in Exiting /\ p.req = a.req
  <2>1. p.name \in Exposed /\ p.name # "PendingEntry"
    BY <1>4 DEF Exposed, Exiting
  <2>2. CASE a.status = "closed" /\ q = ExitDeferred(p.baseline)
    <3>1. /\ Latest \in 1 .. Latest /\ cmds[Latest].id = a.req /\ cmds[Latest].answer \in Refusals
      BY <2>2, <1>1 DEF Hard, Refusals
    <3>2. PhaseRight(q)
      BY <2>1, <2>2, <3>1, ExitDeferredRight
    <3>3. \A name : AnswersRight(name, Tail(acks))
      BY <2>2, <3>1, OneAnswer
    <3> QED
      BY <3>2, <3>3
  <2>3. CASE a.status \notin Succeeded \cup {"closed"} /\ q = CloseOnly(p.baseline)
    <3>1. q.name = "CloseOnly" /\ q.baseline = p.baseline
      BY <2>3 DEF CloseOnly
    <3>2. PhaseRight(q)
      BY <3>1, <1>4, ClosingRight
    <3>3. AnswersRight("CloseOnly", Tail(acks))
      BY <1>1, WaitingName DEF Waiting
    <3> QED
      BY <3>1, <3>2, <3>3
  <2>4. \/ Alike(q, p)
        \/ a.status = "closed" /\ q = ExitDeferred(p.baseline)
        \/ a.status \notin Succeeded \cup {"closed"} /\ q = CloseOnly(p.baseline)
    <3>1. NoOrder # [lots |-> p.lots, class |-> "Exit"]
      BY DEF NoOrder
    <3> QED
      BY <2>1, <3>1, <1>4 DEF AckMoves
  <2> QED
    BY <2>2, <2>3, <2>4, <1>2
<1>5. \/ Alike(q, p) \/ (p.name = "PendingEntry" /\ p.req = a.req)
      \/ (p.name \in Exiting /\ p.req = a.req)
  <2>1. NoOrder # [lots |-> p.lots, class |-> "Exit"]
    BY DEF NoOrder
  <2> QED
    BY <2>1 DEF AckMoves
<1> QED
  BY <1>2, <1>3, <1>4, <1>5

(* An exit that the runtime refuses for a closed window is put off.        *)
LEMMA UndoneParts ==
  ASSUME NEW m \in Memories, m.st.phase.name \in Exiting, NEW id, NEW ts \in Int
  PROVE  LET q == OnAck(m, id, "closed", ts).m.st.phase
         IN  /\ Alike(q, m.st.phase) \/ q = ExitDeferred(m.st.phase.baseline)
             /\ m.st.phase.req = id => q = ExitDeferred(m.st.phase.baseline)
<1> DEFINE p == m.st.phase
           k == AckedExit(p, "closed", ts)
           r == OnAck(m, id, "closed", ts)
<1>1. p \in Phases /\ p.baseline \in Int
  <2>1. p \in Phases
    BY DEF Memories, States
  <2> QED
    BY <2>1, PositionTypes DEF Exposed
<1>2. k = ExitDeferred(p.baseline)
  BY DEF AckedExit, Succeeded, RetriesExit
<1>3. k \in Phases
  BY <1>1, <1>2, PhaseTypes
<1>4. p.name # "PendingEntry" /\ p.name \in {"PendingEntry"} \cup Exiting
  BY DEF Exiting
<1>5. r.m = IF p.req = id THEN PersistPhase(m, k) ELSE PersistPhase(m, p)
  BY <1>4 DEF OnAck, Then, Stay
<1>6. PersistPhase(m, k).st.phase = k /\ PersistPhase(m, p).st.phase = p
  BY <1>1, <1>3, PersistPhaseParts
<1> QED
  BY <1>2, <1>5, <1>6 DEF Alike

(* The second try of a refused exit that the runtime does not publish.     *)
LEMMA AckUndone ==
  ASSUME TypeOK, Core, NEW a, acks # << >>, a = acks[1],
         NEW p, p = strategy.st.phase, p.name = "PendingExit", a.status = "recycle", p.req = a.req,
         NEW k, k.name = "ExitRecovery", k.lots = p.lots, k.baseline = p.baseline,
         NEW q, Alike(q, k) \/ q = ExitDeferred(k.baseline)
  PROVE  PhaseRight(q) /\ AnswersRight(q.name, Tail(acks))
<1>1. /\ Latest \in 1 .. Latest /\ cmds[Latest].id = a.req /\ cmds[Latest].answer \in Refusals
      /\ AnswersRight(p.name, Tail(acks)) /\ PhaseRight(p)
  BY FirstAck DEF Hard, Refusals
<1>2. p.name \in Exposed /\ p.name \in Exiting
  BY DEF Exposed, Exiting
<1>3. CASE q = ExitDeferred(k.baseline)
  <2>1. PhaseRight(q)
    BY <1>1, <1>2, <1>3, ExitDeferredRight
  <2>2. \A name : AnswersRight(name, Tail(acks))
    BY <1>1, OneAnswer
  <2> QED
    BY <2>1, <2>2
<1>4. CASE Alike(q, k)
  <2>1. PhaseRight(k)
    BY <1>2, ClosingRight
  <2>2. PhaseRight(q) /\ q.name = k.name
    BY <2>1, <1>4, AlikeRight
  <2>3. AnswersRight("ExitRecovery", Tail(acks))
    BY <1>1, WaitingName DEF Waiting
  <2> QED
    BY <2>2, <2>3
<1> QED
  BY <1>3, <1>4

(* What an order event does to the phase suits the account.                *)
LEMMA OrderRight ==
  ASSUME TypeOK, Core, NEW o, orders # << >>, o = orders[1],
         NEW p, p = strategy.st.phase, NEW q, OrderMoves(p, q, o.req, o.status)
  PROVE  PhaseRight(q) /\ AnswersRight(q.name, acks)
<1>1. PhaseRight(p) /\ AnswersRight(p.name, acks)
  BY DEF Core
<1>2. CASE q = p
  BY <1>1, <1>2
<1>3. CASE p.name = "EntryRecovery" /\ p.req = o.req
  <2>1. p.name \in Entering /\ p.name \notin Waiting /\ p.name \notin Closing \cup Exposed
    BY <1>3 DEF Entering, Waiting, Closing, Exiting, Exposed
  <2>2. \A name : AnswersRight(name, acks)
    BY <2>1, AnyName
  <2>3. /\ Latest \in 1 .. Latest /\ cmds[Latest].class = "Entry" /\ p.req = cmds[Latest].id
        /\ p.lots = 1 /\ p.baseline = 0 /\ NoLater
        /\ ~ Alive("Exit")
        /\ account = 0 => positions = << >>
        /\ account = 1 => cmds[Latest].filled /\ positions # << >>
    BY <2>1, EnteringParts
  <2>4. CASE o.status = "filled" /\ q.name = "InPosition" /\ q.lots = p.lots /\ q.baseline = p.baseline
    <3>1. PICK i \in 1 .. Latest : cmds[i].id = o.req /\ cmds[i].class = "Entry" /\ cmds[i].filled
      <4>1. 1 \in 1 .. Len(orders) /\ ReportedFills
        BY EmptySeq, LenProperties DEF TypeOK, Core
      <4> QED
        BY <4>1, <2>4 DEF ReportedFills
    <3>2. account = 1
      <4>1. SUFFICES ASSUME account = 0 PROVE FALSE
        BY DEF Core, Market
      <4>2. PICK j \in 1 .. Latest : cmds[i].id < cmds[j].id
        BY <3>1, <4>1 DEF Core, Market, Superseded
      <4>3. cmds[j].id <= cmds[i].id
        BY <2>3, <3>1, <1>3 DEF NoLater
      <4>4. cmds[j].id \in Int /\ cmds[i].id \in Int
        BY ElementTypes DEF Latest
      <4> QED
        BY <4>2, <4>3, <4>4
    <3>3. PhaseRight(q)
      BY <2>3, <2>4, <3>2 DEF PhaseRight, Terms, NameRight, Entering, Exiting, Closing
    <3> QED
      BY <2>2, <3>3
  <2>5. CASE o.status = "working" /\ q.name = "PendingEntry" /\ SameTerms(q, p)
    <3>1. q.name \in Entering /\ q.name \notin Exiting \cup Closing \cup Exposed
      BY <2>5 DEF Entering, Exiting, Closing, Exposed
    <3>2. PhaseRight(q)
      BY <3>1, <2>1, <2>3, <2>5, <1>1 DEF PhaseRight, Terms, NameRight, SameTerms
    <3> QED
      BY <2>2, <3>2
  <2> QED
    BY <2>4, <2>5, <1>2, <1>3 DEF OrderMoves
<1> QED
  BY <1>2, <1>3 DEF OrderMoves

(* What a bar without a command does to the phase suits the account.       *)
LEMMA BarEntryRight ==
  ASSUME TypeOK, Core, NEW p, p = strategy.st.phase, p.name \notin Exposed,
         NEW g, cmds # << >> => g.rolls = 2,
         NEW ctx, ctx.pos = pos, NEW q, NEW lots, lots = 0, EntryMoves(g, p, q, lots, ctx)
  PROVE  PhaseRight(q) /\ AnswersRight(q.name, acks)
<1>1. PhaseRight(p) /\ AnswersRight(p.name, acks) /\ Market /\ Queue
  BY DEF Core
<1>2. Terms(p) /\ NameRight(p.name)
  BY <1>1 DEF PhaseRight
<1>3. CASE q = p
  BY <1>1, <1>3
<1>4. CASE p.name = "Flat" /\ ~ Warmed(g) /\ q = NotWarmed
  <2>1. cmds = << >>
    BY <1>4 DEF Warmed
  <2>2. Latest = 0 /\ account = 0 /\ positions = << >>
    BY <2>1, <1>1, LatestParts DEF Market
  <2>3. q.name = "NotWarmed"
    BY <1>4 DEF NotWarmed
  <2>4. PhaseRight(q)
    BY <2>1, <2>2, <2>3
    DEF PhaseRight, Terms, NameRight, Alive, Entering, Exiting, Exposed, Closing
  <2>5. "Flat" \notin Waiting
    BY DEF Waiting
  <2> QED
    BY <2>4, <2>5, <1>4, AnyName
<1>5. CASE p.name \in {"EntryDeferred", "NotWarmed"} /\ q = Flat
  <2>1. account = 0 /\ positions = << >>
    BY <1>1, <1>2, <1>5 DEF NameRight, Market
  <2>2. ~ Alive("Exit")
    BY <1>2, <1>5 DEF NameRight, Closing, Exiting
  <2>3. q.name = "Flat"
    BY <1>5 DEF Flat
  <2>4. PhaseRight(q)
    BY <2>1, <2>2, <2>3 DEF PhaseRight, Terms, NameRight, Entering, Exiting, Exposed, Closing
  <2>5. p.name \notin Waiting
    BY <1>5 DEF Waiting
  <2> QED
    BY <2>4, <2>5, AnyName
<1>6. CASE p.name = "PendingEntry" /\ q = Blocked
  BY <1>6, BlockedRight DEF Blocked
<1>7. CASE /\ p.name = "EntryRecovery"
           /\ \/ ctx.pos # p.baseline /\ Held(q, ctx.pos - p.baseline, p.baseline)
              \/ ctx.pos = p.baseline /\ q = Flat
  <2>1. p.name \in Entering /\ p.name \notin Waiting
    BY <1>7 DEF Entering, Waiting
  <2>2. \A name : AnswersRight(name, acks)
    BY <2>1, AnyName
  <2>3. /\ p.baseline = 0 /\ ~ Alive("Exit")
        /\ account = 0 => positions = << >>
        /\ account = 1 => positions # << >>
    BY <2>1, EnteringParts
  <2>4. account \in {0, 1} /\ pos \in {0, 1} /\ (positions = << >> => pos = account)
    BY <1>1 DEF Market, Queue
  <2>5. CASE ctx.pos # p.baseline /\ Held(q, ctx.pos - p.baseline, p.baseline)
    <3>1. q.name = "InPosition" /\ q.baseline = 0 /\ q.lots = 1 /\ account = 1
      BY <2>3, <2>4, <2>5 DEF Held
    <3>2. PhaseRight(q)
      BY <2>3, <3>1 DEF PhaseRight, Terms, NameRight, Entering, Exiting, Closing
    <3> QED
      BY <2>2, <3>2
  <2>6. CASE q = Flat
    <3>1. q.name = "Flat"
      BY <2>6 DEF Flat
    <3>2. PhaseRight(q)
      BY <2>3, <2>4, <3>1 DEF PhaseRight, Terms, NameRight, Entering, Exiting, Exposed, Closing
    <3> QED
      BY <2>2, <3>2
  <2> QED
    BY <2>5, <2>6, <1>7
<1>8. p.name = "EntryDeferred" => p.lots = 1
  BY <1>2 DEF Terms
<1> QED
  BY <1>3, <1>4, <1>5, <1>6, <1>7, <1>8 DEF EntryMoves

(* The same with a position.                                               *)
LEMMA BarExitRight ==
  ASSUME TypeOK, Core, NEW p, p = strategy.st.phase, p.name \in Exposed,
         NEW ctx, ctx.pos = pos, NEW q, NEW lots, lots = 0, ExitMoves(p, q, lots, ctx)
  PROVE  PhaseRight(q) /\ AnswersRight(q.name, acks)
<1>1. PhaseRight(p) /\ AnswersRight(p.name, acks) /\ Terms(p) /\ Queue
  BY DEF Core, PhaseRight
<1>2. /\ p.baseline = 0 /\ account \in {0, 1}
      /\ account = 0 => /\ positions # << >> /\ Latest \in 1 .. Latest /\ cmds[Latest].filled
                        /\ p.name \in Closing \/ Stale
      /\ account = 1 /\ positions = << >> => pos = 1
      /\ Alive("Exit") => p.name \in Closing
  BY ExposedParts
<1>3. CASE q = p
  BY <1>1, <1>3
<1>4. CASE p.name = "ExitDeferred" /\ ctx.pos = p.baseline /\ q = Flat
  <2>1. p.name \notin Waiting /\ p.name \notin Closing /\ q.name = "Flat"
    BY <1>4 DEF Waiting, Closing, Exiting, Flat
  <2>2. pos = 0
    BY <1>2, <1>4
  <2>3. PhaseRight(q)
    BY <2>1, <2>2, <1>2 DEF PhaseRight, Terms, NameRight, Entering, Exiting, Exposed, Closing
  <2> QED
    BY <2>1, <2>3, AnyName
<1>5. CASE p.name \in Exiting /\ q = CloseOnly(p.baseline)
  <2>1. q.name = "CloseOnly" /\ q.baseline = p.baseline
    BY <1>5 DEF CloseOnly
  <2>2. PhaseRight(q)
    BY <2>1, <1>5, ClosingRight
  <2>3. AnswersRight("CloseOnly", acks)
    BY <1>1, WaitingName DEF Waiting
  <2> QED
    BY <2>1, <2>2, <2>3
<1>6. p.name = "InPosition" => p.lots = 1
  BY <1>1 DEF Terms
<1>7. ctx.pos \in {0, 1}
  BY <1>1 DEF Queue
<1> QED
  BY <1>2, <1>3, <1>4, <1>5, <1>6, <1>7 DEF ExitMoves

(* An exit that a bar wanted and the runtime refuses for a closed window.  *)
LEMMA BarUndone ==
  ASSUME TypeOK, Core, NEW p, p = strategy.st.phase, p.name \in {"InPosition", "ExitDeferred"}
  PROVE  PhaseRight(ExitDeferred(p.baseline)) /\ AnswersRight("ExitDeferred", acks)
<1>1. p.name \in Exposed /\ p.name \notin Waiting
  BY DEF Exposed, Exiting, Waiting
<1> QED
  BY <1>1, ExitDeferredRight, AnyName

(* What was published stays as it was.                                     *)
Lasting ==
  \A i \in 1 .. Latest : i \in 1 .. Latest' /\ cmds'[i] = cmds[i] /\ (Repeated(i)' <=> Repeated(i))

(* Then what is left unread stays right.                                   *)
LEMMA StreamsKeep ==
  ASSUME TypeOK, Core, Taken(acks, acks'), Taken(orders, orders'), Lasting
  PROVE  Acks' /\ ReportedFills'
<1>1. Acks /\ ReportedFills
  BY DEF Core
<1>2. acks \in Seq(Events) /\ orders \in Seq(Events)
  BY DEF TypeOK
<1>3. ASSUME NEW b, NEW i \in 1 .. Latest, AckOf(b, i) PROVE i \in 1 .. Latest' /\ AckOf(b, i)'
  BY <1>3 DEF AckOf, Lasting
<1>4. ASSUME NEW k \in 1 .. Len(acks), NEW b, b = acks[k]
      PROVE  \E i \in 1 .. Latest' : AckOf(b, i)'
  BY <1>1, <1>3, <1>4 DEF Acks
<1>5. Acks'
  <2>1. CASE acks' = acks
    BY <1>1, <1>4, <2>1 DEF Acks
  <2>2. CASE Len(acks) > 0 /\ acks' = Tail(acks)
    <3>1. /\ Len(acks) \in Nat /\ Len(acks') = Len(acks) - 1
          /\ \A k \in 1 .. Len(acks') : k + 1 \in 1 .. Len(acks) /\ acks'[k] = acks[k + 1]
      BY <2>2, <1>2, TailParts
    <3>2. ASSUME NEW k \in 1 .. Len(acks'), NEW b, b = acks'[k]
          PROVE  \E i \in 1 .. Latest' : AckOf(b, i)'
      BY <3>1, <3>2, <1>4
    <3>3. ASSUME NEW j \in 1 .. Len(acks'), NEW k \in 1 .. Len(acks'),
                 j < k, acks'[j].req = acks'[k].req
          PROVE  acks'[j].status = "duplicate" \/ acks'[k].status = "duplicate"
      <4>1. j + 1 \in 1 .. Len(acks) /\ k + 1 \in 1 .. Len(acks) /\ j + 1 < k + 1
        BY <3>1, <3>3
      <4>2. acks[j + 1].req = acks[k + 1].req
        BY <3>1, <3>3
      <4>3. acks[j + 1].status = "duplicate" \/ acks[k + 1].status = "duplicate"
        BY <4>1, <4>2, <1>1 DEF Acks
      <4> QED
        BY <4>3, <3>1
    <3> QED
      BY <3>2, <3>3 DEF Acks
  <2> QED
    BY <2>1, <2>2 DEF Taken
<1>6. ReportedFills'
  <2>1. \A k \in 1 .. Len(orders') : \E l \in 1 .. Len(orders) : orders'[k] = orders[l]
    BY <1>2, TakenElements
  <2> QED
    BY <2>1, <1>1 DEF ReportedFills, Lasting
<1> QED
  BY <1>5, <1>6

(* It does when nothing was published.                                     *)
LEMMA SameLasting ==
  ASSUME cmds' = cmds
  PROVE  Lasting /\ Latest' = Latest /\ (\A i \in 1 .. Latest : CanFill(i)' <=> CanFill(i))
BY DEF Lasting, Latest, Repeated, CanFill

(* It does when a command was published.                                   *)
LEMMA AppendedLasting ==
  ASSUME TypeOK, NEW c \in Commands, cmds' = Append(cmds, c)
  PROVE  Lasting
<1>1. PICK n : n = Len(cmds) + 1
  OBVIOUS
<1>2. cmds \in Seq(Commands)
  BY DEF TypeOK
<1>3. /\ Len(cmds') = n
      /\ \A i : i \in 1 .. n <=> i \in 1 .. Len(cmds) \/ i = n
      /\ \A i \in 1 .. Len(cmds) : cmds'[i] = cmds[i] /\ (Repeated(i)' <=> Repeated(i))
  BY <1>1, <1>2, AppendedParts
<1> QED
  BY <1>3 DEF Lasting, Latest

(* A phase that suits the account does so while nothing but the memory of  *)
(* the strategy changes.                                                   *)
LEMMA StillRight ==
  ASSUME UNCHANGED <<account, positions, cmds, restarts>>,
         NEW q, PhaseRight(q), NEW s, AnswersRight(q.name, s)
  PROVE  PhaseRight(q)' /\ AnswersRight(q.name, s)'
<1>1. Latest' = Latest
  BY DEF Latest
<1>2. /\ NoLater => NoLater'
      /\ Stale => Stale'
      /\ \A class : Alive(class)' => Alive(class)
  BY DEF NoLater, Stale, Alive, Latest, CanFill, Repeated
<1>3. Terms(q)'
  BY DEF PhaseRight, Terms
<1>4. NameRight(q.name)'
  BY <1>1, <1>2 DEF PhaseRight, NameRight
<1>5. AnswersRight(q.name, s)'
  BY <1>1 DEF AnswersRight, Unanswered, Refused, CanFill, Repeated
<1> QED
  BY <1>1, <1>3, <1>4, <1>5 DEF PhaseRight

(* A handler that publishes nothing keeps it, when the phase it leaves is  *)
(* right.                                                                  *)
LEMMA CoreKept ==
  ASSUME TypeOK, Core, UNCHANGED <<account, dawn, positions, cmds, restarts, pos>>,
         Taken(acks, acks'), Taken(orders, orders'), cmds # << >> => strategy'.rolls = 2,
         NEW q, q = strategy'.st.phase, PhaseRight(q),
         NEW s, s = acks', AnswersRight(q.name, s)
  PROVE  Core'
<1>1. /\ Queue /\ Market /\ Again /\ Dawn
  BY DEF Core
<1>2. Latest' = Latest /\ Acks' /\ ReportedFills'
  BY SameLasting, StreamsKeep
<1>3. Queue' /\ Again'
  BY <1>1, <1>2 DEF Queue, Again
<1>4. Market'
  BY <1>1, <1>2 DEF Market, CanFill, Repeated, Alive, Superseded
<1>5. Warm'
  BY DEF Warm
<1>6. PhaseRight(q)' /\ AnswersRight(q.name, s)'
  BY StillRight
<1>7. Dawn'
  BY <1>1, <1>2 DEF Dawn, CanFill, Repeated
<1> QED
  BY <1>2, <1>3, <1>4, <1>5, <1>6, <1>7 DEF Core

(* Handlers that publish a command.                                        *)
LEMMA CorePublished ==
  ASSUME TypeOK, Core, UNCHANGED <<account, dawn, positions, restarts, pos>>,
         Taken(acks, acks'), Taken(orders, orders'), strategy'.rolls = 2,
         NEW c \in Commands, cmds' = Append(cmds, c), c.answer = "none", ~ c.filled,
         c.again => strategy.st.phase.name = "EntryDeferred",
         \A i \in 1 .. Latest : ~ CanFill(i),
         \A k \in 1 .. Len(acks') : acks'[k].status \notin Hard,
         NEW q, q = strategy'.st.phase,
         \/ /\ c.class = "Entry" /\ c.lots = 1 /\ account = 0 /\ positions = << >>
            /\ Sent(q, "PendingEntry", 1, c.id, 0)
            /\ \A i \in 1 .. Latest : cmds[i].id <= c.id
         \/ /\ c.class = "Exit" /\ c.lots = -1 /\ account = 1
            /\ q.name \in Exiting /\ q.lots = -1 /\ q.baseline = 0
            /\ \/ \A i \in 1 .. Latest : cmds[i].id <= c.id
               \/ q.name = "ExitRecovery" /\ Superseded
  PROVE  Core'
<1>1. /\ Queue /\ Market /\ Again /\ Dawn /\ PhaseRight(strategy.st.phase)
  BY DEF Core
<1>2. PICK n : n = Latest + 1
  OBVIOUS
<1>3. /\ cmds' \in Seq(Commands) /\ Latest' = n /\ Latest \in Nat /\ n \in 1 .. n /\ n > 0
      /\ \A i : i \in 1 .. n <=> i \in 1 .. Latest \/ i = n
      /\ \A i \in 1 .. Latest :
           cmds'[i] = cmds[i] /\ (Repeated(i)' <=> Repeated(i)) /\ (CanFill(i)' <=> CanFill(i))
      /\ cmds'[n] = c /\ (Repeated(n)' <=> \E j \in 1 .. Latest : cmds[j].id = c.id)
  <2>1. cmds \in Seq(Commands) /\ n = Len(cmds) + 1
    BY <1>2 DEF TypeOK, Latest
  <2>2. /\ cmds' \in Seq(Commands) /\ Len(cmds') = n /\ Len(cmds) \in Nat
        /\ \A i : i \in 1 .. n <=> i \in 1 .. Len(cmds) \/ i = n
        /\ \A i \in 1 .. Len(cmds) :
             cmds'[i] = cmds[i] /\ (Repeated(i)' <=> Repeated(i)) /\ (CanFill(i)' <=> CanFill(i))
        /\ cmds'[n] = c /\ (Repeated(n)' <=> \E j \in 1 .. Len(cmds) : cmds[j].id = c.id)
    BY <2>1, AppendedParts
  <2>3. n \in 1 .. n /\ n > 0
    BY <2>1, <2>2
  <2> QED
    BY <2>2, <2>3 DEF Latest
<1>4. Acks' /\ ReportedFills'
  BY AppendedLasting, StreamsKeep
<1>5. Queue'
  <2>1. account = 0 => positions = << >>
    OBVIOUS
  <2> QED
    BY <2>1, <1>1 DEF Queue
<1>6. \A i \in 1 .. Latest : cmds[i].id \in Int /\ c.id \in Int
  <2>1. c.id \in Int
    BY DEF Commands
  <2> QED
    BY <2>1, ElementTypes DEF Latest
<1>7. cmds' # << >>
  BY <1>3, EmptySeq DEF Latest
<1>8. Market'
  <2>1. \A i \in 1 .. Latest' :
          /\ CanFill(i)' => i = Latest'
          /\ cmds'[i].lots = IF cmds'[i].class = "Entry" THEN 1 ELSE -1
          /\ cmds'[i].filled => ~ Repeated(i)' /\ cmds'[i].answer \notin Refusals
    <3>1. ASSUME NEW i \in 1 .. Latest
          PROVE  /\ ~ CanFill(i)'
                 /\ cmds'[i].lots = IF cmds'[i].class = "Entry" THEN 1 ELSE -1
                 /\ cmds'[i].filled => ~ Repeated(i)' /\ cmds'[i].answer \notin Refusals
      BY <1>1, <1>3 DEF Market
    <3>2. c.lots = IF c.class = "Entry" THEN 1 ELSE -1
      OBVIOUS
    <3>3. /\ cmds'[n].lots = IF cmds'[n].class = "Entry" THEN 1 ELSE -1
          /\ ~ cmds'[n].filled
      BY <3>2, <1>3
    <3>4. \A i \in 1 .. n : i = n \/ i \in 1 .. Latest
      BY <1>3
    <3> QED
      BY ONLY <3>1, <3>3, <3>4, <1>3
  <2>2. ASSUME \A i \in 1 .. Latest : cmds[i].class = "Entry" /\ cmds[i].filled =>
                 \E j \in 1 .. n : cmds[i].id < cmds'[j].id
        PROVE  Superseded'
    <3>1. ASSUME NEW i \in 1 .. n, cmds'[i].class = "Entry", cmds'[i].filled
          PROVE  \E j \in 1 .. n : cmds'[i].id < cmds'[j].id
      <4>1. i # n
        BY <3>1, <1>3
      <4>2. i \in 1 .. Latest /\ cmds'[i] = cmds[i]
        BY <4>1, <1>3
      <4> QED
        BY <4>2, <3>1, <2>2
    <3> QED
      BY <3>1, <1>3 DEF Superseded
  <2>3. account' = 0 \/ Alive("Exit")' => Superseded'
    <3>1. account = 0 => Superseded
      BY <1>1 DEF Market
    <3>2. ASSUME Superseded PROVE Superseded'
      <4>1. ASSUME NEW i \in 1 .. Latest, cmds[i].class = "Entry", cmds[i].filled
            PROVE  \E j \in 1 .. n : cmds[i].id < cmds'[j].id
        <5>1. PICK j \in 1 .. Latest : cmds[i].id < cmds[j].id
          BY <4>1, <3>2 DEF Superseded
        <5>2. j \in 1 .. n /\ cmds'[j] = cmds[j]
          BY <1>3
        <5> QED
          BY <5>1, <5>2
      <4> QED
        BY <4>1, <2>2
    <3>3. ASSUME Alive("Exit")', \A i \in 1 .. Latest : cmds[i].id <= c.id
          PROVE  Superseded'
      <4>1. ~ Repeated(n)'
        BY <3>3, <1>3 DEF Alive, CanFill
      <4>2. ASSUME NEW i \in 1 .. Latest PROVE cmds[i].id < c.id
        BY <4>1, <3>3, <1>3, <1>6
      <4>3. \A i \in 1 .. Latest : \E j \in 1 .. n : cmds[i].id < cmds'[j].id
        BY <4>2, <1>3
      <4> QED
        BY <4>3, <2>2
    <3> QED
      BY <3>1, <3>2, <3>3
  <2>4. /\ Alive("Entry")' => c.class = "Entry"
        /\ Alive("Exit")' => c.class = "Exit"
    BY <1>3 DEF Alive
  <2>5. account' \in {0, 1}
    OBVIOUS
  <2> QED
    BY <2>1, <2>3, <2>4, <2>5, <1>7 DEF Market
<1>9. Again'
  <2>1. ASSUME NEW j \in 1 .. Latest, cmds'[j].again
        PROVE  j > 1 /\ cmds'[j - 1].class = "Entry" /\ cmds'[j - 1].answer = "closed"
    <3>1. j > 1 /\ cmds[j - 1].class = "Entry" /\ cmds[j - 1].answer = "closed"
      BY <2>1, <1>1, <1>3 DEF Again
    <3>2. j - 1 \in 1 .. Latest
      BY <3>1, <1>3
    <3> QED
      BY <3>1, <3>2, <1>3
  <2>2. ASSUME c.again
        PROVE  n > 1 /\ cmds'[n - 1].class = "Entry" /\ cmds'[n - 1].answer = "closed"
    <3>1. Latest > 0 /\ cmds[Latest].class = "Entry" /\ cmds[Latest].answer = "closed"
      BY <2>2, <1>1 DEF PhaseRight, NameRight
    <3>2. Latest \in 1 .. Latest /\ n - 1 = Latest /\ n > 1
      BY <3>1, <1>2, <1>3
    <3>3. cmds'[n - 1] = cmds[Latest]
      BY <3>2, <1>3
    <3> QED
      BY <3>1, <3>2, <3>3
  <2>3. ASSUME NEW j \in 1 .. n, cmds'[j].again
        PROVE  j > 1 /\ cmds'[j - 1].class = "Entry" /\ cmds'[j - 1].answer = "closed"
    <3>1. CASE j = n
      BY <3>1, <2>2, <2>3, <1>3
    <3>2. CASE j # n
      BY <3>2, <2>1, <2>3, <1>3
    <3> QED
      BY <3>1, <3>2
  <2>4. Latest' = n
    BY <1>3
  <2> QED
    BY ONLY <2>3, <2>4 DEF Again
<1>10. Warm'
  BY DEF Warm
<1>11. (\A i \in 1 .. Latest : cmds[i].id <= c.id) => NoLater'
  <2>1. c.id <= c.id
    BY DEF Commands
  <2> QED
    BY <2>1, <1>3 DEF NoLater
<1>12. PhaseRight(q)'
  <2>1. CASE c.class = "Entry"
    <3>1. q.name = "PendingEntry" /\ q.lots = 1 /\ q.baseline = 0 /\ q.req = c.id
      BY <2>1 DEF Sent
    <3>2. ~ Alive("Exit")'
      BY <2>1, <1>3 DEF Alive
    <3>3. account' = 0 /\ positions' = << >> /\ NoLater'
      BY <2>1, <1>11
    <3> QED
      BY <2>1, <3>1, <3>2, <3>3, <1>3
      DEF PhaseRight, Terms, NameRight, Entering, Exiting, Exposed, Closing
  <2>2. CASE c.class = "Exit"
    <3>1. q.name \in Exiting /\ q.lots = -1 /\ q.baseline = 0 /\ account' = 1
      BY <2>2
    <3>2. q.name = "PendingExit" => NoLater'
      BY <2>2, <1>11
    <3> QED
      BY <3>1, <3>2, <1>3 DEF PhaseRight, Terms, NameRight, Entering, Exiting, Exposed, Closing
  <2> QED
    BY <2>1, <2>2
<1>13. q.name \in Waiting
  BY DEF Sent, Waiting, Exiting
<1>14. PICK s : s = acks'
  OBVIOUS
<1>15. AnswersRight(q.name, s)'
  BY <1>13, <1>14 DEF AnswersRight, Unanswered, Refused
<1>16. Dawn'
  <2>1. dawn \in 0 .. Latest /\ dawn' = dawn /\ Latest \in Nat
    BY <1>3 DEF TypeOK, Latest
  <2>2. \A i \in 1 .. n : CanFill(i)' => i > dawn
    BY <2>1, <1>1, <1>2, <1>3 DEF Dawn
  <2>3. ASSUME NEW i \in dawn + 1 .. Latest
        PROVE  i \in dawn + 1 .. n /\ cmds'[i] = cmds[i]
    <3>1. i \in 1 .. Latest /\ i \in dawn + 1 .. n
      BY ONLY <2>1, <1>2, i \in dawn + 1 .. Latest
    <3> QED
      BY <3>1, <1>3
  <2> QED
    BY <2>1, <2>2, <2>3, <1>1, <1>3 DEF Dawn
<1> QED
  BY <1>4, <1>5, <1>8, <1>9, <1>10, <1>12, <1>14, <1>15, <1>16 DEF Core

(* What becomes of the phase that a callback returned.                     *)
LEMMA AppliedPhase ==
  ASSUME TypeOK, NEW r, r.m \in Memories, NEW id \in Nat,
         NEW open \in BOOLEAN, NEW ready \in BOOLEAN, Apply(r, id, open, ready)
  PROVE  \/ r.order = NoOrder /\ cmds' = cmds /\ strategy'.st.phase = r.m.st.phase
         \/ r.order # NoOrder /\ cmds' = cmds /\ strategy'.st.phase = strategy.st.phase
         \/ /\ r.order.class = "Exit" /\ cmds' = cmds
            /\ strategy'.st.phase = OnAck(r.m, id, "closed", clock).m.st.phase
         \/ /\ r.order # NoOrder /\ cmds' = Append(cmds, NewCommand(r, id))
            /\ strategy'.st.phase = r.m.st.phase
<1>1. cmds \in Seq(Commands) /\ strategy \in Memories
  BY DEF TypeOK
<1>2. Kept(r) \/ Dropped(r) \/ Undone(r, id) \/ Published(r, id)
  BY <1>1, ApplyParts
<1>3. [r.m EXCEPT !.st = strategy.st].st = strategy.st
  BY DEF Memories
<1> QED
  BY <1>2, <1>3 DEF Kept, Dropped, Undone, Published

(* A command is sent with what the history says of it.                     *)
LEMMA SentCertain ==
  ASSUME TypeOK, NEW r, NEW id, NewCommand(r, id) \in Commands,
         cmds' = Append(cmds, NewCommand(r, id)), Sure'
  PROVE  Certain(r.order.class)
<1>1. PICK c \in Commands : c = NewCommand(r, id)
  OBVIOUS
<1>2. PICK n : n = Len(cmds) + 1
  OBVIOUS
<1>3. cmds \in Seq(Commands)
  BY DEF TypeOK
<1>4. n \in 1 .. Len(cmds') /\ cmds'[n] = c
  BY <1>1, <1>2, <1>3, AppendParts
<1>5. c.certain
  BY <1>4 DEF Sure
<1> QED
  BY <1>1, <1>5 DEF NewCommand

(* What a new command is.                                                  *)
LEMMA CommandParts ==
  ASSUME NEW r, NEW id, NEW c, c = NewCommand(r, id)
  PROVE  /\ c.id = id /\ c.lots = r.order.lots /\ c.class = r.order.class
         /\ c.answer = "none" /\ ~ c.filled
         /\ c.again => strategy.st.phase.name = "EntryDeferred"
BY DEF NewCommand

(* No report is unread that the account does not agree with, if a command  *)
(* is sent for sure.                                                       *)
LEMMA CertainParts ==
  ASSUME TypeOK, Core, NEW class, Certain(class), NEW p, p = strategy.st.phase, p.name \in Exposed,
         p.name \notin Closing \/ (Latest \in 1 .. Latest /\ ~ cmds[Latest].filled)
  PROVE  account = 1
<1>1. /\ account \in {0, 1}
      /\ account = 0 => /\ positions # << >> /\ Latest \in 1 .. Latest /\ cmds[Latest].filled
                        /\ p.name \in Closing \/ Stale
  BY ExposedParts
<1>2. SUFFICES ASSUME account = 0 PROVE FALSE
  BY <1>1
<1>3. Stale /\ 1 \in 1 .. Len(positions)
  BY <1>1, <1>2, EmptySeq, LenProperties DEF TypeOK
<1>4. positions[1].life < restarts /\ positions[1].life = restarts /\ positions[1].life \in Int
  BY <1>3, ElementTypes DEF Stale, Certain
<1> QED
  BY <1>4

(* An answer keeps it.                                                     *)
LEMMA CoreAck ==
  ASSUME TypeOK, Core, Sure', NEW open \in BOOLEAN, NEW ready \in BOOLEAN, HandleAck(open, ready)
  PROVE  Core'
<1>1. PICK a : a = Head(acks)
  OBVIOUS
<1>2. PICK r : r = OnAck(strategy, a.req, a.status, a.ts)
  OBVIOUS
<1>3. PICK id : id = Normalized(a.ts)
  OBVIOUS
<1>4. PICK p : p = strategy.st.phase
  OBVIOUS
<1>5. PICK k : k = r.m.st.phase
  OBVIOUS
<1>6. PICK q : q = strategy'.st.phase
  OBVIOUS
<1>7. /\ acks # << >> /\ Len(acks) > 0 /\ a = acks[1] /\ a \in Events
      /\ acks' = Tail(acks) /\ r.m \in Memories /\ SameSessionState(r.m, strategy)
      /\ AckMoves(p, k, a.req, a.status, r.order)
      /\ r.order = NoOrder \/ (r.order \in Wanted /\ r.order.class = "Exit")
      /\ Apply(r, id, open, ready)
      /\ UNCHANGED <<env, orders, positions, read, pos, restarts>>
  BY <1>1, <1>2, <1>3, <1>4, <1>5, HandleAckParts
<1>8. /\ strategy \in Memories /\ p \in Phases /\ clock \in Int /\ cmds \in Seq(Commands)
      /\ now \in Nat /\ a.ts \in Nat
  BY SMTT(30), <1>4, <1>7 DEF TypeOK, Memories, States, Events
<1>9. id \in Nat
  BY <1>3, <1>8, NormalizedParts
<1>10. /\ SameSessionState(strategy', r.m)
       /\ cmds' = cmds \/ (r.order \in Wanted /\ NewCommand(r, id) \in Commands)
  BY <1>7, <1>9, Applied
<1>11. strategy'.rolls = strategy.rolls
  BY <1>7, <1>10 DEF SameSessionState
<1>12. UNCHANGED <<account, dawn, positions, restarts, pos>> /\ Taken(acks, acks') /\ Taken(orders, orders')
  BY <1>7 DEF env, Taken
<1>13. Warm
  BY DEF Core
<1>14. ASSUME cmds' = cmds, PhaseRight(q), AnswersRight(q.name, Tail(acks)) PROVE Core'
  <2>1. cmds # << >> => strategy'.rolls = 2
    BY <1>11, <1>13 DEF Warm
  <2>2. PICK s : s = Tail(acks)
    OBVIOUS
  <2>3. AnswersRight(q.name, s) /\ s = acks'
    BY <2>2, <1>7, <1>14
  <2> QED
    BY <2>1, <2>3, <1>6, <1>12, <1>14, CoreKept
<1>15. CASE r.order = NoOrder /\ cmds' = cmds /\ q = k
  <2>1. AckMoves(p, q, a.req, a.status, NoOrder)
    BY <1>7, <1>15
  <2>2. PhaseRight(q) /\ AnswersRight(q.name, Tail(acks))
    BY <2>1, <1>4, <1>7, <1>8, AckRight
  <2> QED
    BY <2>2, <1>14, <1>15
<1>16. CASE cmds' = cmds /\ q = p
  <2>1. PhaseRight(p) /\ AnswersRight(p.name, Tail(acks))
    BY <1>4, <1>7, FirstAck
  <2> QED
    BY <2>1, <1>14, <1>16
<1>17. r.order # NoOrder =>
         /\ p.name = "PendingExit" /\ p.req = a.req /\ a.status = "recycle"
         /\ k.name = "ExitRecovery" /\ k.lots = p.lots /\ k.baseline = p.baseline
         /\ r.order.lots = p.lots /\ r.order.class = "Exit"
  BY <1>7 DEF AckMoves
<1>18. CASE r.order.class = "Exit" /\ cmds' = cmds /\ q = OnAck(r.m, id, "closed", clock).m.st.phase
  <2>1. r.order # NoOrder
    BY <1>18 DEF NoOrder
  <2>2. k.name \in Exiting
    BY <2>1, <1>17 DEF Exiting
  <2>3. Alike(q, k) \/ q = ExitDeferred(k.baseline)
    BY <2>2, <1>5, <1>7, <1>8, <1>18, UndoneParts
  <2>4. PhaseRight(q) /\ AnswersRight(q.name, Tail(acks))
    BY <2>1, <2>3, <1>4, <1>7, <1>17, AckUndone
  <2> QED
    BY <2>4, <1>14, <1>18
<1>19. CASE r.order # NoOrder /\ cmds' = Append(cmds, NewCommand(r, id)) /\ q = k
  <2>1. PICK c : c = NewCommand(r, id)
    OBVIOUS
  <2>2. r.order \in Wanted /\ c \in Commands
    BY SMTT(30), <2>1, <1>7, <1>9, <1>19, CommandType, ConstantParts DEF TypeOK
  <2>3. /\ c.lots = p.lots /\ c.class = "Exit" /\ c.answer = "none" /\ ~ c.filled
        /\ c.again => strategy.st.phase.name = "EntryDeferred"
    BY <2>1, <1>17, <1>19, CommandParts
  <2>4. Certain("Exit")
    BY <2>1, <2>2, <1>17, <1>19, SentCertain
  <2>5. /\ Latest \in 1 .. Latest /\ cmds[Latest].id = a.req /\ ~ Repeated(Latest)
        /\ cmds[Latest].answer = "recycle" /\ PhaseRight(p)
    BY <1>4, <1>7, <1>17, <1>19, FirstAck DEF Hard
  <2>6. Market
    BY DEF Core
  <2>7. ~ cmds[Latest].filled /\ \A i \in 1 .. Latest : ~ CanFill(i)
    BY <2>5, <2>6 DEF Market, CanFill, Refusals
  <2>8. account = 1
    BY <2>4, <2>5, <2>7, <1>4, <1>17, <1>19, CertainParts DEF Exposed, Exiting
  <2>9. p.lots = -1 /\ p.baseline = 0 /\ NoLater
    BY <2>5, <1>17, <1>19 DEF PhaseRight, Terms, NameRight, Exiting
  <2>10. Superseded
    <3>1. ASSUME NEW i \in 1 .. Latest, cmds[i].filled PROVE cmds[i].id < cmds[Latest].id
      <4>1. i < Latest
        BY <2>5, <2>7, <3>1
      <4>2. cmds[i].id # cmds[Latest].id /\ cmds[i].id <= cmds[Latest].id
        BY <4>1, <2>5, <2>9 DEF Repeated, NoLater
      <4>3. cmds[i].id \in Int /\ cmds[Latest].id \in Int
        BY <2>5, ElementTypes DEF Latest
      <4> QED
        BY <4>2, <4>3
    <3> QED
      BY <3>1, <2>5 DEF Superseded
  <2>11. \A j \in 1 .. Len(acks') : acks'[j].status \notin Hard
    <3>1. AnswersRight("Flat", Tail(acks))
      BY <2>5, <1>7, <1>17, <1>19, OneAnswer
    <3> QED
      BY <3>1, <1>7 DEF AnswersRight, Refused, Waiting
  <2>12. strategy'.rolls = 2
    BY <2>5, <1>11, <1>13, EmptySeq DEF Warm, Latest
  <2>13. q.name = "ExitRecovery" /\ q.name \in Exiting /\ q.lots = -1 /\ q.baseline = 0 /\ c.lots = -1
    BY <2>3, <2>9, <1>17, <1>19 DEF Exiting
  <2>14. cmds' = Append(cmds, c)
    BY <2>1, <1>19
  <2> QED
    BY <2>2, <2>3, <2>7, <2>8, <2>10, <2>11, <2>12, <2>13, <2>14, <1>6, <1>12, CorePublished
<1>20. \/ r.order = NoOrder /\ cmds' = cmds /\ q = k
       \/ cmds' = cmds /\ q = p
       \/ r.order.class = "Exit" /\ cmds' = cmds /\ q = OnAck(r.m, id, "closed", clock).m.st.phase
       \/ r.order # NoOrder /\ cmds' = Append(cmds, NewCommand(r, id)) /\ q = k
  BY <1>4, <1>5, <1>6, <1>7, <1>9, AppliedPhase
<1> QED
  BY <1>15, <1>16, <1>18, <1>19, <1>20

(* An order event handled keeps it.                                        *)
LEMMA CoreOrder ==
  ASSUME TypeOK, Core, HandleOrder
  PROVE  Core'
<1>1. PICK o : o = Head(orders)
  OBVIOUS
<1>2. PICK r : r = Stay(OnOrder(strategy, o.req, o.status, o.ts))
  OBVIOUS
<1>3. PICK id : id = Normalized(o.ts)
  OBVIOUS
<1>4. PICK p : p = strategy.st.phase
  OBVIOUS
<1>5. PICK q : q = strategy'.st.phase
  OBVIOUS
<1>6. /\ orders # << >> /\ Len(orders) > 0 /\ o = orders[1] /\ o \in Events
      /\ orders' = Tail(orders) /\ r.m \in Memories /\ SameSessionState(r.m, strategy)
      /\ OrderMoves(p, r.m.st.phase, o.req, o.status)
      /\ r.order = NoOrder /\ Apply(r, id, TRUE, TRUE)
      /\ UNCHANGED <<env, acks, positions, read, pos, restarts>>
  BY <1>1, <1>2, <1>3, <1>4, HandleOrderParts
<1>7. now \in Nat /\ o.ts \in Nat
  BY <1>6 DEF TypeOK, Events
<1>8. id \in Nat
  BY <1>3, <1>7, NormalizedParts
<1>9. SameSessionState(strategy', r.m)
  BY <1>6, <1>8, Applied
<1>10. NoOrder.class # "Exit"
  BY DEF NoOrder
<1>11. cmds' = cmds /\ q = r.m.st.phase
  BY <1>5, <1>6, <1>8, <1>10, AppliedPhase
<1>12. UNCHANGED <<account, dawn, positions, restarts, pos, cmds>> /\ Taken(acks, acks') /\ Taken(orders, orders')
  BY <1>6, <1>11 DEF env, Taken
<1>13. cmds # << >> => strategy'.rolls = 2
  BY <1>6, <1>9 DEF Core, Warm, SameSessionState
<1>14. PhaseRight(q) /\ AnswersRight(q.name, acks)
  BY <1>4, <1>6, <1>11, OrderRight
<1>15. PICK s : s = acks
  OBVIOUS
<1>16. AnswersRight(q.name, s) /\ s = acks'
  BY <1>6, <1>14, <1>15
<1> QED
  BY <1>5, <1>12, <1>13, <1>14, <1>16, CoreKept

(* A report of the position suits what the strategy does with it.          *)
LEMMA PositionRight ==
  ASSUME TypeOK, Core, NEW e, positions # << >>, e = positions[1],
         NEW p, p = strategy.st.phase, NEW q, PositionMoves(p, q, e.qty)
  PROVE  /\ \/ account = 1 /\ e.qty = 1 /\ Len(positions) = 1
            \/ account = 0 /\ e.qty = 0 /\ Len(positions) = 1 /\ q.name = "Flat"
            \/ /\ account = 0 /\ e.qty = 1 /\ Len(positions) = 2 /\ positions[2].qty = 0
               /\ q.name \in Closing \/ (q.name \in {"InPosition", "ExitDeferred"} /\ Stale)
         /\ account = 1 =>
              q.name \notin Entering \cup {"Flat", "EntryDeferred", "NotWarmed"}
         /\ account = 0 => Latest \in 1 .. Latest /\ cmds[Latest].filled
         /\ Terms(q) /\ (q.name # "InPosition" => q = p \/ q.name = "Flat")
         /\ Alive("Exit") => q.name \in Closing
         /\ AnswersRight(q.name, acks)
<1>1. Queue /\ Market /\ Terms(p) /\ NameRight(p.name) /\ AnswersRight(p.name, acks)
  BY DEF Core, PhaseRight
<1>2. p.name \in Exposed \cup Entering => p.baseline = 0
  BY <1>1 DEF Terms, Exposed
<1>3. account \in {0, 1} /\ (Alive("Exit") => account = 1 /\ p.name \in Closing)
  BY <1>1 DEF Market, NameRight
<1>4. CASE account = 1
  <2>1. e.qty = 1 /\ Len(positions) = 1
    BY <1>1, <1>4 DEF Queue
  <2>2. ~ Closed(p, e.qty)
    BY <2>1, <1>2 DEF Closed
  <2>3. p.name \in Entering => Opened(p, e.qty)
    BY <2>1, <1>2 DEF Opened
  <2>4. p.name \notin {"EntryDeferred", "NotWarmed"}
    BY <1>1, <1>4 DEF NameRight, Market
  <2>5. CASE Opened(p, e.qty) /\ Held(q, e.qty - p.baseline, p.baseline)
    <3>1. p.name \in Entering /\ p.baseline = 0 /\ q.name = "InPosition" /\ q.lots = 1 /\ q.baseline = 0
      BY <2>1, <2>5, <1>2 DEF Opened, Held
    <3>2. Latest \in 1 .. Latest /\ cmds[Latest].filled
      BY <3>1, <1>4, EnteringParts
    <3>3. AnswersRight(q.name, acks)
      BY <3>2, AnyName
    <3>4. p.name \notin Closing
      BY <3>1 DEF Entering, Closing, Exiting
    <3> QED
      BY <2>1, <3>1, <3>3, <3>4, <1>3, <1>4 DEF Terms, Entering, Exiting
  <2>6. CASE p.name = "Flat" /\ e.qty # 0 /\ Held(q, e.qty, 0)
    <3>1. q.name = "InPosition" /\ q.lots = 1 /\ q.baseline = 0
      BY <2>1, <2>6 DEF Held
    <3>2. p.name \notin Closing \cup Waiting
      BY <2>6 DEF Closing, Exiting, Waiting
    <3>3. AnswersRight(q.name, acks)
      BY <3>2, AnyName
    <3> QED
      BY <2>1, <3>1, <3>2, <3>3, <1>3, <1>4 DEF Terms, Entering, Exiting
  <2>7. CASE q = p /\ ~ Opened(p, e.qty) /\ (p.name = "Flat" => e.qty = 0)
    BY <2>1, <2>3, <2>4, <2>7, <1>1, <1>3, <1>4
  <2> QED
    BY <2>2, <2>5, <2>6, <2>7 DEF PositionMoves
<1>5. CASE account = 0
  <2>1. /\ Latest \in 1 .. Latest /\ cmds[Latest].filled
        /\ \/ Len(positions) = 1 /\ e.qty = 0
           \/ Len(positions) = 2 /\ e.qty = 1 /\ positions[2].qty = 0
    BY <1>1, <1>5, LatestParts DEF Queue
  <2>2. p.name \in Closing \/ (p.name \in {"Flat", "InPosition", "ExitDeferred"} /\ Stale)
    BY <1>1, <1>5 DEF NameRight
  <2>3. \A name : AnswersRight(name, acks)
    BY <2>1, AnyName
  <2>4. ~ Alive("Exit") /\ p.name \notin Entering
    BY <2>2, <1>3, <1>5 DEF Closing, Exiting, Entering
  <2>5. p.name \in Exposed \/ p.name = "Flat"
    BY <2>2 DEF Closing, Exposed
  <2>6. CASE Len(positions) = 1 /\ e.qty = 0
    <3>1. p.name \in Exposed => Closed(p, e.qty)
      BY <2>6, <1>2 DEF Closed
    <3>2. q.name = "Flat"
      BY <3>1, <2>4, <2>5, <2>6 DEF PositionMoves, Opened, Flat
    <3>3. Terms(q)
      BY <3>2 DEF Terms, Entering, Exiting
    <3> QED
      BY <2>1, <2>3, <2>4, <2>6, <3>2, <3>3, <1>5
  <2>7. CASE Len(positions) = 2 /\ e.qty = 1 /\ positions[2].qty = 0
    <3>1. ~ Closed(p, e.qty)
      BY <2>7, <1>2 DEF Closed
    <3>2. \/ p.name = "Flat" /\ Held(q, 1, 0)
          \/ q = p /\ p.name # "Flat"
      BY <3>1, <2>4, <2>7 DEF PositionMoves, Opened
    <3>3. Terms(q) /\ (q.name # "InPosition" => q = p)
      BY <3>2, <1>1 DEF Terms, Held, Entering, Exiting
    <3>4. q.name \in Closing \/ (q.name \in {"InPosition", "ExitDeferred"} /\ Stale)
      BY <3>2, <2>2 DEF Held, Closing, Exiting
    <3> QED
      BY <2>1, <2>3, <2>4, <2>7, <3>3, <3>4, <1>5
  <2> QED
    BY <2>1, <2>6, <2>7
<1> QED
  BY <1>3, <1>4, <1>5

(* A report of the position handled keeps it.                              *)
LEMMA CorePosition ==
  ASSUME TypeOK, Core, HandlePosition
  PROVE  Core'
<1>1. PICK e : e = Head(positions)
  OBVIOUS
<1>2. PICK p : p = strategy.st.phase
  OBVIOUS
<1>3. PICK q : q = strategy'.st.phase
  OBVIOUS
<1>4. /\ positions # << >> /\ Len(positions) > 0 /\ e = positions[1] /\ e \in Reports
      /\ positions' = Tail(positions) /\ pos' = e.qty
      /\ UNCHANGED <<env, acks, orders, read, restarts>>
      /\ \E r : /\ r.m \in Memories /\ SameSessionState(r.m, strategy)
                /\ PositionMoves(p, r.m.st.phase, e.qty)
                /\ r.order = NoOrder
                /\ Apply(r, Normalized(e.ts), TRUE, TRUE)
  BY <1>1, <1>2, HandlePositionParts
<1>5. PICK r : /\ r.m \in Memories /\ SameSessionState(r.m, strategy)
               /\ PositionMoves(p, r.m.st.phase, e.qty)
               /\ r.order = NoOrder
               /\ Apply(r, Normalized(e.ts), TRUE, TRUE)
  BY <1>4
<1>6. Normalized(e.ts) \in Nat
  BY <1>4, NormalizedParts DEF TypeOK, Reports
<1>7. NoOrder.class # "Exit"
  BY DEF NoOrder
<1>8. cmds' = cmds /\ q = r.m.st.phase
  BY <1>3, <1>5, <1>6, <1>7, AppliedPhase
<1>9. SameSessionState(strategy', r.m)
  BY <1>5, <1>6, Applied
<1>10. UNCHANGED <<account, dawn, acks, orders, restarts, cmds>>
  BY <1>4, <1>8 DEF env
<1>11. /\ \/ account = 1 /\ e.qty = 1 /\ Len(positions) = 1
          \/ account = 0 /\ e.qty = 0 /\ Len(positions) = 1 /\ q.name = "Flat"
          \/ /\ account = 0 /\ e.qty = 1 /\ Len(positions) = 2 /\ positions[2].qty = 0
             /\ q.name \in Closing \/ (q.name \in {"InPosition", "ExitDeferred"} /\ Stale)
       /\ account = 1 => q.name \notin Entering \cup {"Flat", "EntryDeferred", "NotWarmed"}
       /\ account = 0 => Latest \in 1 .. Latest /\ cmds[Latest].filled
       /\ Terms(q) /\ (q.name # "InPosition" => q = p \/ q.name = "Flat")
       /\ Alive("Exit") => q.name \in Closing
       /\ AnswersRight(q.name, acks)
  BY <1>2, <1>4, <1>5, <1>8, PositionRight
<1>12. /\ Len(positions') = Len(positions) - 1 /\ positions' \in Seq(Reports)
       /\ \A k \in 1 .. Len(positions') : k + 1 \in 1 .. Len(positions) /\ positions'[k] = positions[k + 1]
  BY <1>4, TailParts DEF TypeOK
<1>13. /\ Len(positions) = 1 => positions' = << >>
       /\ Len(positions) = 2 => /\ Len(positions') = 1 /\ positions'[1] = positions[2]
                                /\ positions' # << >>
  <2>1. Len(positions) = 1 => positions' = << >>
    BY <1>12, EmptySeq
  <2>2. Len(positions) = 2 => Len(positions') = 1 /\ 1 \in 1 .. Len(positions')
    BY <1>12
  <2>3. Len(positions) = 2 => positions'[1] = positions[2] /\ positions' # << >>
    BY <2>2, <1>12, EmptySeq
  <2> QED
    BY <2>1, <2>2, <2>3
<1>14. Latest' = Latest /\ Acks' /\ ReportedFills'
  BY <1>10, SameLasting, StreamsKeep DEF Taken
<1>15. Market /\ Again /\ Warm /\ PhaseRight(p)
  BY <1>2 DEF Core
<1>16. Queue'
  BY <1>4, <1>10, <1>11, <1>13, <1>14 DEF Queue
<1>17. Market'
  BY <1>4, <1>10, <1>14, <1>15 DEF Market, CanFill, Repeated, Alive, Superseded
<1>18. Again' /\ Warm'
  BY <1>5, <1>9, <1>10, <1>14, <1>15 DEF Again, Warm, SameSessionState
<1>19. /\ NoLater => NoLater'
       /\ \A class : Alive(class)' => Alive(class)
  BY <1>10 DEF NoLater, Alive, Latest, CanFill, Repeated
<1>20. Stale => Stale'
  BY <1>10, <1>12 DEF Stale
<1>21. Terms(q)'
  BY <1>11 DEF Terms
<1>22. NameRight(q.name)'
  <2>1. q.name = "PendingExit" => Latest > 0 /\ NoLater
    BY <1>11, <1>15 DEF PhaseRight, NameRight
  <2>2. CASE account = 1
    BY <2>1, <2>2, <1>10, <1>11, <1>14, <1>19 DEF NameRight, Entering
  <2>3. CASE account = 0 /\ q.name = "Flat" /\ Len(positions) = 1
    BY <2>3, <1>10, <1>11, <1>13, <1>19
    DEF NameRight, Entering, Exposed, Exiting, Closing
  <2>4. CASE account = 0 /\ Len(positions) = 2
             /\ (q.name \in Closing \/ (q.name \in {"InPosition", "ExitDeferred"} /\ Stale))
    BY <2>1, <2>4, <1>10, <1>11, <1>13, <1>14, <1>19, <1>20
    DEF NameRight, Entering, Exposed, Exiting, Closing
  <2> QED
    BY <2>2, <2>3, <2>4, <1>11
<1>23. q.name \notin Entering
  BY <1>11 DEF Entering, Closing, Exiting
<1>24. PICK s : s = acks
  OBVIOUS
<1>25. AnswersRight(q.name, s)' /\ s = acks'
  BY <1>10, <1>11, <1>24
  DEF AnswersRight, Unanswered, Refused, CanFill, Repeated, Latest
<1>26. Dawn'
  <2>1. Dawn /\ ~ (account = 1 /\ positions' # << >>)
    BY <1>11, <1>13 DEF Core
  <2> QED
    BY <2>1, <1>10, <1>14 DEF Dawn, CanFill, Repeated
<1> QED
  BY <1>3, <1>14, <1>16, <1>17, <1>18, <1>21, <1>22, <1>23, <1>25, <1>26 DEF Core, PhaseRight

(* What a bar wants, by the phase it finds.                                *)
LEMMA BarWants ==
  ASSUME NEW p \in Phases, NEW k \in Phases, NEW order, order # NoOrder, NEW g \in Memories,
         NEW ctx \in Contexts, BarMoves(g, p, k, order, ctx)
  PROVE  \/ /\ order.class = "Entry" /\ p.name \in {"Flat", "EntryDeferred"}
            /\ p.name = "Flat" => Warmed(g) /\ order.lots = 1
            /\ p.name = "EntryDeferred" => order.lots = p.lots
            /\ Sent(k, "PendingEntry", order.lots, ctx.event, ctx.pos)
         \/ /\ order.class = "Exit" /\ p.name \in {"InPosition", "ExitDeferred"}
            /\ p.name = "InPosition" => order.lots = - p.lots
            /\ p.name = "ExitDeferred" => order.lots = p.baseline - ctx.pos /\ ctx.pos # p.baseline
            /\ Sent(k, "PendingExit", order.lots, ctx.event, p.baseline)
<1>1. order \in Wanted /\ (order.class = "Exit" <=> p.name \in Exposed)
  BY OrderType
<1>2. CASE order.class = "Entry"
  BY <1>1, <1>2, EntrySent
<1>3. CASE order.class = "Exit"
  <2>1. PICK lots \in Int : order = BarOrder(p, lots) /\ ExitMoves(p, k, lots, ctx)
    BY <1>1, <1>3 DEF BarMoves
  <2>2. lots # 0
    BY <2>1 DEF BarOrder
  <2>3. order.lots = lots
    BY <2>1, <2>2 DEF BarOrder
  <2> QED
    BY <2>1, <2>2, <2>3, <1>3 DEF ExitMoves
<1> QED
  BY <1>1, <1>2, <1>3 DEF Wanted

(* An entry of a bar finds the account flat and nothing under way.  One of *)
(* an earlier day cannot be executed any more, and after one of this day   *)
(* that was not refused for a closed window nothing is sent but with       *)
(* certainty.                                                              *)
LEMMA EntryAlone ==
  ASSUME TypeOK, Core, Certain("Entry"), NEW p, p = strategy.st.phase,
         p.name \in {"Flat", "EntryDeferred"}
  PROVE  account = 0 /\ \A i \in 1 .. Latest : ~ CanFill(i)
<1>1. /\ Market /\ Dawn /\ NameRight(p.name)
  BY DEF Core, PhaseRight
<1>2. dawn \in 0 .. Latest /\ Latest \in Nat
  BY LatestParts DEF TypeOK, Latest
<1>3. (\E i \in dawn + 1 .. Latest : cmds[i].class = "Entry" /\ cmds[i].answer # "closed")
        => account = 0 /\ \A i \in 1 .. Latest : ~ CanFill(i)
  BY DEF Certain, Latest
<1>4. ASSUME NEW i \in 1 .. Latest, CanFill(i)
      PROVE  /\ i = Latest /\ i \in dawn + 1 .. Latest
             /\ cmds[i].class = "Entry" /\ cmds[i].answer # "closed"
  <2>1. i = Latest /\ i > dawn
    BY <1>1, <1>4 DEF Market, Dawn
  <2>2. cmds[i].class \in {"Entry", "Exit"}
    BY ElementTypes DEF Latest, Commands
  <2>3. ~ Alive("Exit")
    BY <1>1 DEF NameRight, Closing, Exiting
  <2>4. cmds[i].class # "Exit"
    BY <2>1, <2>3, <1>2, <1>4 DEF Alive
  <2>5. cmds[i].answer # "closed"
    BY <1>4 DEF CanFill, Refusals
  <2> QED
    BY <2>1, <2>2, <2>4, <2>5, <1>2
<1>5. ASSUME account # 0
      PROVE  \E i \in dawn + 1 .. Latest : cmds[i].class = "Entry" /\ cmds[i].answer # "closed"
  <2>1. account = 1
    BY <1>1, <1>5 DEF Market
  <2>2. positions # << >>
    BY <2>1, <1>1 DEF NameRight
  <2>3. PICK i \in dawn + 1 .. Latest : cmds[i].class = "Entry" /\ cmds[i].filled
    BY <2>1, <2>2, <1>1 DEF Dawn
  <2>4. i \in 1 .. Latest
    BY <1>2
  <2>5. cmds[i].answer # "closed"
    BY <2>3, <2>4, <1>1 DEF Market, Refusals
  <2> QED
    BY <2>3, <2>5
<1> QED
  BY <1>3, <1>4, <1>5

(* A bar handled keeps it: an entry finds the account flat with nothing    *)
(* under way, an exit one lot and no exit that may still be executed.      *)
LEMMA CoreBar ==
  ASSUME TypeOK, Reading, Timely, Core, Sure', NEW open \in BOOLEAN, NEW ready \in BOOLEAN,
         NEW signal \in BOOLEAN, NEW hit \in BOOLEAN, NEW blocked \in BOOLEAN,
         HandleBar(signal, hit, blocked, open, ready)
  PROVE  Core'
<1>1. PICK t \in Nat, id \in Nat, ctx \in Contexts : \E r : BarHandled(t, id, r, ctx, open, ready)
  BY HandleBarParts
<1>2. PICK r : BarHandled(t, id, r, ctx, open, ready)
  BY <1>1
<1>3. PICK p : p = strategy.st.phase
  OBVIOUS
<1>4. PICK k : k = r.m.st.phase
  OBVIOUS
<1>5. PICK q : q = strategy'.st.phase
  OBVIOUS
<1>6. /\ read < published /\ read + 1 \in 1 .. Len(Bars) /\ t = Bars[read + 1]
      /\ id = Normalized(t) /\ ctx.pos = pos /\ ctx.event = id
      /\ UNCHANGED <<env, streams, pos, restarts>>
      /\ r.m \in Memories /\ r.m.rolls = IF NewSession(strategy, t) /\ strategy.rolls # 2
                                         THEN strategy.rolls + 1 ELSE strategy.rolls
      /\ r.order = NoOrder \/ r.order \in Wanted
      /\ Apply(r, id, open, ready)
      /\ \/ r.order = NoOrder /\ k = p
         \/ \E g \in Memories : g.rolls = r.m.rolls /\ BarMoves(g, p, k, r.order, ctx)
  BY <1>2, <1>3, <1>4 DEF BarHandled, BarSession
<1>7. strategy \in Memories /\ p \in Phases /\ k \in Phases /\ clock \in Int /\ now \in Nat
      /\ cmds \in Seq(Commands)
  <2>1. /\ strategy \in Memories /\ clock \in Int /\ now \in Nat /\ cmds \in Seq(Commands)
    BY DEF TypeOK
  <2>2. r.m \in Memories
    BY <1>6
  <2>3. strategy.st.phase \in Phases /\ r.m.st.phase \in Phases
    BY <2>1, <2>2 DEF Memories, States
  <2> QED
    BY <2>1, <2>3, <1>3, <1>4
<1>8. SameSessionState(strategy', r.m)
  BY <1>6, Applied
<1>9. cmds # << >> => strategy.rolls = 2 /\ r.m.rolls = 2
  BY <1>6 DEF Core, Warm
<1>10. strategy'.rolls = r.m.rolls
  BY <1>8 DEF SameSessionState
<1>11. UNCHANGED <<account, dawn, positions, restarts, pos, acks>> /\ Taken(acks, acks') /\ Taken(orders, orders')
  BY <1>6 DEF env, streams, Taken
<1>12. PICK s : s = acks
  OBVIOUS
<1>13. ASSUME cmds' = cmds, PhaseRight(q), AnswersRight(q.name, acks) PROVE Core'
  <2>1. AnswersRight(q.name, s) /\ s = acks'
    BY <1>11, <1>12, <1>13
  <2> QED
    BY <2>1, <1>5, <1>9, <1>10, <1>11, <1>13, CoreKept
<1>14. CASE cmds' = cmds /\ q = p
  <2>1. PhaseRight(p) /\ AnswersRight(p.name, acks)
    BY <1>3 DEF Core
  <2> QED
    BY <2>1, <1>13, <1>14
<1>15. CASE r.order = NoOrder /\ cmds' = cmds /\ q = k
  <2>1. CASE k = p
    BY <2>1, <1>14, <1>15
  <2>2. CASE \E g \in Memories : g.rolls = r.m.rolls /\ BarMoves(g, p, k, r.order, ctx)
    <3>1. PICK g \in Memories : g.rolls = r.m.rolls /\ BarMoves(g, p, k, r.order, ctx)
      BY <2>2
    <3>2. PICK lots \in Int :
            /\ r.order = BarOrder(p, lots)
            /\ \/ p.name \notin Exposed /\ EntryMoves(g, p, k, lots, ctx)
               \/ p.name \in Exposed /\ ExitMoves(p, k, lots, ctx)
      BY <3>1 DEF BarMoves
    <3>3. lots = 0
      BY <3>2, <1>15 DEF BarOrder, NoOrder
    <3>4. PhaseRight(k) /\ AnswersRight(k.name, acks)
      BY <3>1, <3>2, <3>3, <1>3, <1>6, <1>9, BarEntryRight, BarExitRight
    <3> QED
      BY <3>4, <1>13, <1>15
  <2> QED
    BY <2>1, <2>2, <1>6
<1>16. r.order # NoOrder =>
         \E g \in Memories : g.rolls = r.m.rolls /\ BarMoves(g, p, k, r.order, ctx)
  BY <1>6
<1>17. r.order # NoOrder =>
         \/ /\ r.order.class = "Entry" /\ p.name \in {"Flat", "EntryDeferred"}
            /\ p.name = "Flat" => r.m.rolls = 2 /\ r.order.lots = 1
            /\ p.name = "EntryDeferred" => r.order.lots = p.lots
            /\ Sent(k, "PendingEntry", r.order.lots, id, pos)
         \/ /\ r.order.class = "Exit" /\ p.name \in {"InPosition", "ExitDeferred"}
            /\ p.name = "InPosition" => r.order.lots = - p.lots
            /\ p.name = "ExitDeferred" => r.order.lots = p.baseline - pos /\ pos # p.baseline
            /\ Sent(k, "PendingExit", r.order.lots, id, p.baseline)
  <2>1. SUFFICES ASSUME r.order # NoOrder
                 PROVE  \/ /\ r.order.class = "Entry" /\ p.name \in {"Flat", "EntryDeferred"}
                           /\ p.name = "Flat" => r.m.rolls = 2 /\ r.order.lots = 1
                           /\ p.name = "EntryDeferred" => r.order.lots = p.lots
                           /\ Sent(k, "PendingEntry", r.order.lots, id, pos)
                        \/ /\ r.order.class = "Exit" /\ p.name \in {"InPosition", "ExitDeferred"}
                           /\ p.name = "InPosition" => r.order.lots = - p.lots
                           /\ p.name = "ExitDeferred" =>
                                r.order.lots = p.baseline - pos /\ pos # p.baseline
                           /\ Sent(k, "PendingExit", r.order.lots, id, p.baseline)
    OBVIOUS
  <2>2. PICK g \in Memories : g.rolls = r.m.rolls /\ BarMoves(g, p, k, r.order, ctx)
    BY <2>1, <1>16
  <2>3. Warmed(g) => r.m.rolls = 2
    BY <2>2 DEF Warmed
  <2> QED
    BY <2>1, <2>2, <2>3, <1>6, <1>7, BarWants
<1>18. CASE r.order.class = "Exit" /\ cmds' = cmds /\ q = OnAck(r.m, id, "closed", clock).m.st.phase
  <2>1. r.order # NoOrder
    BY <1>18 DEF NoOrder
  <2>2. /\ p.name \in {"InPosition", "ExitDeferred"}
        /\ Sent(k, "PendingExit", r.order.lots, id, p.baseline)
    BY <2>1, <1>17, <1>18
  <2>3. k.name \in Exiting /\ k.req = id /\ k.baseline = p.baseline
    BY <2>2 DEF Exiting, Sent
  <2>4. q = ExitDeferred(p.baseline)
    BY <2>3, <1>4, <1>6, <1>7, <1>18, UndoneParts
  <2>5. PhaseRight(q) /\ AnswersRight("ExitDeferred", acks)
    BY <2>2, <2>4, <1>3, BarUndone
  <2>6. q.name = "ExitDeferred"
    BY <2>4 DEF ExitDeferred
  <2> QED
    BY <2>5, <2>6, <1>13, <1>18
<1>19. CASE r.order # NoOrder /\ cmds' = Append(cmds, NewCommand(r, id)) /\ q = k
  <2>1. PICK c : c = NewCommand(r, id)
    OBVIOUS
  <2>2. r.order \in Wanted /\ c \in Commands /\ cmds' = Append(cmds, c)
    <3>1. r.order \in Wanted /\ r.m \in Memories
      BY <1>6, <1>19
    <3>2. restarts \in Nat /\ id \in Int
      BY ConstantParts DEF TypeOK
    <3>3. NewCommand(r, id) \in Commands
      BY <3>1, <3>2, CommandType
    <3> QED
      BY <3>1, <3>3, <2>1, <1>19
  <2>3. /\ c.id = id /\ c.lots = r.order.lots /\ c.class = r.order.class
        /\ c.answer = "none" /\ ~ c.filled
        /\ c.again => strategy.st.phase.name = "EntryDeferred"
    BY <2>1, CommandParts
  <2>4. Certain(r.order.class)
    BY <2>1, <2>2, SentCertain
  <2>5. \A i \in 1 .. Latest : cmds[i].id <= id
    <3>1. ASSUME NEW i \in 1 .. Latest PROVE cmds[i].id <= id
      <4>1. read < Len(Bars) /\ i \in 1 .. Len(cmds)
        <5>1. read < published /\ read \in Nat /\ published \in 0 .. Len(Bars) /\ Len(Bars) \in Nat
          BY <1>6, ConstantParts DEF TypeOK
        <5> QED
          BY <5>1 DEF Latest
      <4>2. cmds[i].id <= now \/ cmds[i].id <= t
        BY <4>1, <1>6 DEF Timely
      <4>3. id >= now /\ id >= t
        BY <1>6, <1>7, NormalizedParts
      <4>4. cmds[i].id \in Int
        BY <4>1, ElementTypes
      <4> QED
        BY <4>2, <4>3, <4>4, <1>7
    <3> QED
      BY <3>1
  <2>6. p.name \notin Waiting /\ p.name \notin Closing
    BY <1>17, <1>19 DEF Waiting, Closing, Exiting
  <2>7. \A j \in 1 .. Len(acks') : acks'[j].status \notin Hard
    <3>1. AnswersRight("Flat", acks)
      BY <2>6, <1>3, AnyName
    <3> QED
      BY <3>1, <1>11 DEF AnswersRight, Refused, Waiting
  <2>8. /\ Market /\ Queue /\ Dawn /\ Terms(p) /\ NameRight(p.name)
    BY <1>3 DEF Core, PhaseRight
  <2>9. CASE r.order.class = "Entry"
    <3>1. account = 0 /\ \A i \in 1 .. Latest : ~ CanFill(i)
      BY <2>6, <2>9, <1>3, <1>17, <1>19, <2>4, EntryAlone
    <3>2. /\ p.name \in {"Flat", "EntryDeferred"}
          /\ p.name = "Flat" => r.m.rolls = 2 /\ r.order.lots = 1
          /\ p.name = "EntryDeferred" => r.order.lots = p.lots
          /\ Sent(k, "PendingEntry", r.order.lots, id, pos)
      BY <2>9, <1>17, <1>19
    <3>3. positions = << >>
      <4>1. SUFFICES ASSUME positions # << >> PROVE FALSE
        OBVIOUS
      <4>2. Stale
        BY <4>1, <3>1, <3>2, <2>6, <2>8 DEF NameRight
      <4>3. 1 \in 1 .. Len(positions)
        BY <4>1, EmptySeq, LenProperties DEF TypeOK
      <4>4. positions[1].life < restarts /\ positions[1].life = restarts /\ positions[1].life \in Int
        BY <4>2, <4>3, <2>4, ElementTypes DEF Stale, Certain
      <4> QED
        BY <4>4
    <3>4. pos = 0
      BY <3>1, <3>3, <2>8 DEF Queue
    <3>5. r.order.lots = 1
      BY <3>2, <2>8 DEF Terms
    <3>6. strategy'.rolls = 2
      <4>1. CASE p.name = "Flat"
        BY <4>1, <3>2, <1>10
      <4>2. CASE p.name = "EntryDeferred"
        <5>1. cmds # << >>
          BY <4>2, <2>8, LatestParts DEF NameRight
        <5> QED
          BY <5>1, <1>9, <1>10
      <4> QED
        BY <4>1, <4>2, <3>2
    <3>7. Sent(q, "PendingEntry", 1, c.id, 0)
      BY <3>2, <3>4, <3>5, <2>3, <1>19
    <3> QED
      BY <3>1, <3>3, <3>5, <3>6, <3>7, <2>2, <2>3, <2>5, <2>7, <2>9, <1>5, <1>11, CorePublished
  <2>10. CASE r.order.class = "Exit"
    <3>1. /\ p.name \in {"InPosition", "ExitDeferred"}
          /\ p.name = "InPosition" => r.order.lots = - p.lots
          /\ p.name = "ExitDeferred" => r.order.lots = p.baseline - pos /\ pos # p.baseline
          /\ Sent(k, "PendingExit", r.order.lots, id, p.baseline)
      BY <2>10, <1>17, <1>19
    <3>2. p.name \in Exposed
      BY <3>1 DEF Exposed
    <3>3. account = 1
      BY <3>2, <2>4, <2>6, <1>3, CertainParts
    <3>4. \A i \in 1 .. Latest : ~ CanFill(i)
      <4>1. SUFFICES ASSUME NEW i \in 1 .. Latest, CanFill(i) PROVE FALSE
        OBVIOUS
      <4>2. i = Latest /\ Latest > 0
        BY <4>1, <2>8, LatestParts DEF Market
      <4>3. cmds[i] \in Commands
        BY ElementTypes DEF Latest
      <4>4. Alive("Entry") \/ Alive("Exit")
        BY <4>1, <4>2, <4>3 DEF Alive, Commands
      <4> QED
        BY <4>4, <3>3, <2>6, <2>8 DEF Market, NameRight
    <3>5. p.baseline = 0 /\ pos \in {0, 1} /\ (p.name = "InPosition" => p.lots = 1)
      BY <3>1, <2>8 DEF Terms, Queue
    <3>6. r.order.lots = -1
      BY <3>1, <3>5
    <3>7. strategy'.rolls = 2
      <4>1. cmds # << >>
        BY <3>3, <2>8 DEF Market
      <4> QED
        BY <4>1, <1>9, <1>10
    <3>8. q.name \in Exiting /\ q.lots = -1 /\ q.baseline = 0
      BY <3>1, <3>5, <3>6, <1>19 DEF Sent, Exiting
    <3> QED
      BY <3>3, <3>4, <3>6, <3>7, <3>8, <2>2, <2>3, <2>5, <2>7, <2>10, <1>5, <1>11, CorePublished
  <2> QED
    BY <2>2, <2>9, <2>10 DEF Wanted
<1>20. \/ r.order = NoOrder /\ cmds' = cmds /\ q = k
       \/ cmds' = cmds /\ q = p
       \/ r.order.class = "Exit" /\ cmds' = cmds /\ q = OnAck(r.m, id, "closed", clock).m.st.phase
       \/ r.order # NoOrder /\ cmds' = Append(cmds, NewCommand(r, id)) /\ q = k
  BY <1>3, <1>4, <1>5, <1>6, AppliedPhase
<1> QED
  BY <1>14, <1>15, <1>18, <1>19, <1>20

(* A start finds the account in the snapshot and the phase in the state.   *)
LEMMA BootRight ==
  ASSUME TypeOK, Core, NEW p, p = strategy.st.phase, NEW q, BootMoves(p, q, account)
  PROVE  /\ Terms(q) /\ AnswersRight(q.name, acks)
         /\ \/ q = p
            \/ account = 1 /\ q.name = "InPosition" /\ ~ Alive("Exit")
            \/ account = 0 /\ q.name = "Flat" /\ ~ Alive("Exit")
<1>1. Market /\ Terms(p) /\ NameRight(p.name) /\ AnswersRight(p.name, acks)
  BY DEF Core, PhaseRight
<1>2. account \in {0, 1} /\ (Alive("Exit") => account = 1 /\ p.name \in Closing)
  BY <1>1 DEF Market, NameRight
<1>3. CASE q = p
  BY <1>1, <1>3
<1>4. CASE Opened(p, account) /\ Held(q, p.lots, p.baseline)
  <2>1. p.name \in Entering /\ p.baseline = 0 /\ p.lots = 1
    BY <1>1, <1>4 DEF Opened, Terms
  <2>2. account = 1
    BY <2>1, <1>2, <1>4 DEF Opened
  <2>3. Latest \in 1 .. Latest /\ cmds[Latest].filled /\ ~ Alive("Exit")
    BY <2>1, <2>2, EnteringParts
  <2>4. AnswersRight(q.name, acks)
    BY <2>3, AnyName
  <2>5. q.name = "InPosition" /\ Terms(q)
    BY <2>1, <1>4 DEF Held, Terms, Entering, Exiting
  <2> QED
    BY <2>2, <2>3, <2>4, <2>5
<1>5. CASE p.name = "EntryRecovery" /\ account = p.baseline /\ q = Flat
  <2>1. p.name \in Entering /\ p.name \notin Waiting \cup Closing
    BY <1>5 DEF Entering, Waiting, Closing, Exiting
  <2>2. account = 0 /\ ~ Alive("Exit")
    BY <2>1, <1>1, <1>2, <1>5 DEF Terms
  <2>3. AnswersRight(q.name, acks)
    BY <2>1, AnyName
  <2>4. q.name = "Flat" /\ Terms(q)
    BY <1>5 DEF Flat, Terms, Entering, Exiting
  <2> QED
    BY <2>2, <2>3, <2>4
<1>6. CASE Closed(p, account) /\ q = Flat
  <2>1. p.name \in Exposed /\ account = p.baseline
    BY <1>6 DEF Closed
  <2>2. account = 0
    BY <2>1, ExposedParts
  <2>3. Latest \in 1 .. Latest /\ cmds[Latest].filled
    BY <2>1, <2>2, ExposedParts
  <2>4. AnswersRight(q.name, acks)
    BY <2>3, AnyName
  <2>5. q.name = "Flat" /\ Terms(q)
    BY <1>6 DEF Flat, Terms, Entering, Exiting
  <2> QED
    BY <2>2, <2>4, <2>5, <1>2
<1>7. CASE p.name = "NotWarmed" /\ q = Flat
  <2>1. account = 0 /\ p.name \notin Waiting \cup Closing
    BY <1>1, <1>7 DEF NameRight, Market, Waiting, Closing, Exiting
  <2>2. AnswersRight(q.name, acks)
    BY <2>1, AnyName
  <2>3. q.name = "Flat" /\ Terms(q)
    BY <1>7 DEF Flat, Terms, Entering, Exiting
  <2> QED
    BY <2>1, <2>2, <2>3, <1>2
<1> QED
  BY <1>3, <1>4, <1>5, <1>6, <1>7 DEF BootMoves, SnapshotMoves

(* A start keeps it: the reports unread are of an earlier life now.        *)
LEMMA CoreRestart ==
  ASSUME TypeOK, Reading, ReportLives, Core, RestartStep
  PROVE  Core'
<1>1. PICK p : p = strategy.st.phase
  OBVIOUS
<1>2. PICK q : q = strategy'.st.phase
  OBVIOUS
<1>3. /\ restarts' = restarts + 1 /\ UNCHANGED <<account, dawn, positions, acks, orders, cmds>>
      /\ pos' = account /\ strategy'.rolls = Rolls(published) /\ BootMoves(p, q, account)
  BY <1>1, <1>2 DEF RestartStep, env, streams
<1>4. /\ Terms(q) /\ AnswersRight(q.name, acks)
      /\ \/ q = p
         \/ account = 1 /\ q.name = "InPosition" /\ ~ Alive("Exit")
         \/ account = 0 /\ q.name = "Flat" /\ ~ Alive("Exit")
  BY <1>1, <1>3, BootRight
<1>5. Latest' = Latest /\ Acks' /\ ReportedFills'
  BY <1>3, SameLasting, StreamsKeep DEF Taken
<1>6. Queue /\ Market /\ Again /\ Warm /\ Dawn /\ PhaseRight(p)
  BY <1>1 DEF Core
<1>7. Queue'
  BY <1>3, <1>5, <1>6 DEF Queue, Market
<1>8. Market' /\ Again' /\ Dawn'
  BY <1>3, <1>5, <1>6 DEF Market, Again, Dawn, CanFill, Repeated, Alive, Superseded
<1>9. Warm'
  <2>1. SUFFICES ASSUME cmds # << >> PROVE Rolls(published) = 2
    BY <1>3 DEF Warm
  <2>2. Rolls(read) = 2
    BY <2>1, <1>6 DEF Warm, Reading
  <2>3. read \in Nat /\ published \in Nat /\ read <= published /\ past \in 0 .. 2
    BY ConstantParts DEF TypeOK
  <2>4. /\ Cardinality(FirstBars(read)) <= Cardinality(FirstBars(published))
        /\ Cardinality(FirstBars(read)) \in Nat /\ Cardinality(FirstBars(published)) \in Nat
    BY <2>3, FirstBarsMore, FirstBarsFinite
  <2> QED
    BY <2>2, <2>3, <2>4 DEF Rolls
<1>10. Stale'
  <2>1. \A k \in 1 .. Len(positions) : positions[k].life <= restarts /\ positions[k].life \in Int
    BY ElementTypes DEF ReportLives
  <2>2. restarts \in Nat
    BY ConstantParts DEF TypeOK
  <2> QED
    BY <2>1, <2>2, <1>3 DEF Stale
<1>11. /\ NoLater => NoLater'
       /\ \A class : Alive(class)' => Alive(class)
  BY <1>3 DEF NoLater, Alive, Latest, CanFill, Repeated
<1>12. Terms(q)'
  BY <1>4 DEF Terms
<1>13. PhaseRight(q)'
  <2>1. CASE q = p
    <3>1. NameRight(p.name)
      BY <1>6 DEF PhaseRight
    <3>2. NameRight(q.name)'
      BY <2>1, <3>1, <1>3, <1>5, <1>10, <1>11 DEF NameRight
    <3> QED
      BY <2>1, <3>2, <1>3, <1>5, <1>6, <1>12 DEF PhaseRight
  <2>2. CASE account = 1 /\ q.name = "InPosition" /\ ~ Alive("Exit")
    BY <2>2, <1>3, <1>11, <1>12 DEF PhaseRight, NameRight, Entering, Exiting, Closing
  <2>3. CASE account = 0 /\ q.name = "Flat" /\ ~ Alive("Exit")
    BY <2>3, <1>3, <1>10, <1>11, <1>12 DEF PhaseRight, NameRight, Entering, Exiting, Exposed, Closing
  <2> QED
    BY <2>1, <2>2, <2>3, <1>4
<1>14. PICK s : s = acks
  OBVIOUS
<1>15. AnswersRight(q.name, s)' /\ s = acks'
  BY <1>3, <1>4, <1>14 DEF AnswersRight, Unanswered, Refused, CanFill, Repeated, Latest
<1> QED
  BY <1>2, <1>5, <1>7, <1>8, <1>9, <1>13, <1>15 DEF Core

-----------------------------------------------------------------------------
(* The invariant, and what it says of the properties.                      *)

(* It holds at the beginning.                                              *)
LEMMA CoreInit ==
  ASSUME Init
  PROVE  Core
<1>1. /\ account = 0 /\ dawn = 0 /\ pos = 0 /\ cmds = << >> /\ acks = << >> /\ orders = << >>
      /\ positions = << >> /\ restarts = 0
  BY DEF Init
<1>2. PICK p : p = strategy.st.phase
  OBVIOUS
<1>3. p = Flat /\ p.name = "Flat"
  BY <1>2, InitParts DEF Flat
<1>4. Latest = 0
  BY <1>1 DEF Latest
<1>5. ~ Alive("Entry") /\ ~ Alive("Exit")
  BY <1>4 DEF Alive
<1>6. Queue /\ Acks /\ ReportedFills /\ Again /\ Warm /\ Dawn
  BY <1>1, <1>4 DEF Queue, Acks, ReportedFills, Again, Warm, Dawn
<1>7. Market
  BY <1>1, <1>4, <1>5 DEF Market, Superseded
<1>8. PhaseRight(p)
  BY <1>1, <1>3, <1>5 DEF PhaseRight, Terms, NameRight, Entering, Exiting, Exposed, Closing
<1>9. AnswersRight(p.name, acks)
  BY <1>1, <1>4 DEF AnswersRight, Unanswered
<1> QED
  BY <1>2, <1>6, <1>7, <1>8, <1>9 DEF Core

(* What was sent with certainty stays so.                                  *)
LEMMA SureBefore ==
  ASSUME TypeOK, Reading, [Next]_vars, Sure'
  PROVE  Sure
<1>1. cmds \in Seq(Commands)
  BY DEF TypeOK
<1>2. ASSUME NEW c \in Commands, cmds' = Append(cmds, c) PROVE Sure
  <2>1. \A i \in 1 .. Len(cmds) : i \in 1 .. Len(cmds') /\ cmds'[i] = cmds[i]
    BY <1>1, <1>2, AppendParts
  <2> QED
    BY <2>1 DEF Sure
<1>3. CASE cmds' = cmds
  BY <1>3 DEF Sure
<1>4. CASE EnvironmentStep
  BY <1>4 DEF EnvironmentStep, SameOrders, Sure
<1>5. CASE EventStep
  BY <1>2, <1>3, <1>5 DEF EventStep
<1>6. ASSUME NEW t, BarStep(t) PROVE Sure
  BY <1>2, <1>3, <1>6 DEF BarStep, BarCommand
<1>7. CASE RestartStep
  BY <1>3, <1>7 DEF RestartStep
<1>8. CASE UNCHANGED vars
  BY <1>3, <1>8 DEF vars
<1> QED
  BY <1>4, <1>5, <1>6, <1>7, <1>8, Steps

(* Every step keeps it, if what was sent was sent with certainty.          *)
LEMMA CoreStep ==
  ASSUME Base, Core, [Next]_vars, Sure'
  PROVE  Core'
<1>1. TypeOK /\ Reading /\ Timely /\ ReportLives
  BY DEF Base
<1>2. CASE Environment
  BY <1>1, <1>2, CoreEnvironment
<1>3. CASE Handle
  BY <1>1, <1>3, CoreAck, CoreBar, CoreOrder, CorePosition DEF Handle
<1>4. CASE \E working \in BOOLEAN : Restart(working)
  BY <1>1, <1>4, RestartParts, CoreRestart
<1>5. CASE UNCHANGED vars
  <2>1. Core
    OBVIOUS
  <2>2. UNCHANGED <<account, dawn, positions, acks, orders, strategy, pos, restarts, cmds>>
    BY <1>5 DEF vars, env, streams, runtime
  <2> QED
    BY <2>1, <2>2
    DEF Core, Queue, Market, Acks, ReportedFills, Again, Warm, Dawn, PhaseRight, AnswersRight, Latest,
        Superseded, AckOf, Alive, CanFill, Repeated, Terms, NameRight, NoLater, Stale, Unanswered,
        Refused
<1> QED
  BY <1>2, <1>3, <1>4, <1>5 DEF Next

(* The inductive invariant: Base always, Core as long as every command was *)
(* sent with certainty.                                                    *)
Inv == Base /\ (Sure => Core)

(* The invariant holds at the beginning.                                   *)
LEMMA InvInit ==
  ASSUME Init
  PROVE  Inv
BY BaseInit, CoreInit DEF Inv

(* Every step keeps the invariant.                                         *)
LEMMA InvStep ==
  ASSUME Inv, [Next]_vars
  PROVE  Inv'
<1>1. Base /\ (Sure => Core)
  BY DEF Inv
<1>2. Base'
  BY <1>1, BaseStep
<1>3. Sure' => Core'
  BY <1>1, SureBefore, CoreStep DEF Base
<1> QED
  BY <1>2, <1>3 DEF Inv

THEOREM Invariance ==
  Spec => []Inv
<1>1. Init => Inv
  BY InvInit
<1>2. Inv /\ [Next]_vars => Inv'
  BY InvStep
<1> QED
  BY <1>1, <1>2, PTL DEF Spec

(* The variables hold values of their types, and an entry that is pending  *)
(* to be sent counts as the one of its session (maybe_generate_signal).    *)
THEOREM TypeCorrect ==
  Spec => []TypeOK
<1>1. Inv => TypeOK
  BY DEF Inv, Base
<1> QED
  BY <1>1, Invariance, PTL

(* A position is never reversed and never doubled: an exit is executed     *)
(* once, for a position that was opened, although it may be sent again     *)
(* (session_gap_standalone.rs:1562, 1926), and an entry from a flat        *)
(* account.                                                                *)
THEOREM PositionNeverReversed ==
  Spec => []NeverReversed
<1>1. Inv => NeverReversed
  BY DEF Inv, NeverReversed, Core, Market
<1> QED
  BY <1>1, Invariance, PTL

(* A session has one entry of its own in the life of a process             *)
(* (traded_session), and beside it only one that was refused for a closed  *)
(* window and is sent again.                                               *)
THEOREM OneEntryForALife ==
  Spec => []OneEntryPerLife
<1>1. Inv => OneEntryPerLife
  <2>1. Latest = Len(cmds)
    BY DEF Latest
  <2>2. Inv => OneEach /\ (Sure => Again)
    BY DEF Inv, Base, Core
  <2> QED
    BY <2>1, <2>2 DEF OneEntryPerLife, OneEach, Again
<1> QED
  BY <1>1, Invariance, PTL

(* A strategy that takes itself for flat, with nothing under way, is flat: *)
(* an entry that was given up and executed late is adopted (on_position).  *)
THEOREM FlatHoldsNothing ==
  Spec => []FlatIsFlat
<1>1. Inv => FlatIsFlat
  <2>1. SUFFICES ASSUME Core, Quiet, strategy.st.phase = Flat PROVE account = 0
    BY DEF Inv, FlatIsFlat
  <2>2. positions = << >> /\ account \in {0, 1}
    BY <2>1 DEF Quiet, Core, Market
  <2>3. strategy.st.phase.name = "Flat"
    BY <2>1 DEF Flat
  <2> QED
    BY <2>1, <2>2, <2>3 DEF Core, PhaseRight, NameRight
<1> QED
  BY <1>1, Invariance, PTL
=============================================================================
