------------------------ MODULE RuntimeDispatchProofs ------------------------
(***************************************************************************)
(* The saved state knows the commands, no bar handled again in recovery    *)
(* gives an order, and the account is never exposed twice or the other way *)
(* round, for any number of bars, repeated bars, position events and       *)
(* crashes, either trigger, any order style, timeouts and silence period.  *)
(*                                                                         *)
(* The theorems about commands need that nobody else holds a position in   *)
(* the portfolio, which the strategy would take for its own, and that a    *)
(* restart comes when the entries of before can be claimed.                *)
(***************************************************************************)
EXTENDS RuntimeDispatch, FiniteSetTheorems, SequenceTheorems, TLAPS

(* What a process knows: the state it saved, the entries it has to handle, *)
(* and a position of 0 until a command was published.                      *)
MemoryRight ==
  up # "down" =>
    /\ mem.strat = saved.strat
    /\ hand = pending
    /\ cmds = << >> => mem.pos = 0

(* An entry and then an exit were published, and the portfolio holds what  *)
(* was executed of them; the exit was published for executed lots.         *)
CommandsRight ==
  /\ Len(cmds) <= 2
  /\ cmds = << >> => position = 0
  /\ Len(cmds) >= 1 => cmds[1].side = "buy"
  /\ Len(cmds) = 1 => position = cmds[1].filled
  /\ Len(cmds) = 2 => /\ cmds[2].side = "sell" /\ cmds[1].filled > 0
                      /\ position = cmds[1].filled - cmds[2].filled

(* Until the exit, the reports of the position go up to what it is now.    *)
ReportsRight ==
  Len(cmds) <= 1 =>
    \A j \in DOMAIN log.positions :
      /\ log.positions[j].qty \in 0 .. position
      /\ \A k \in 1 .. j : log.positions[k].qty <= log.positions[j].qty

(* The reports that the runtime has still to handle.                       *)
Ahead(j) == j > cursor["positions"] \/ j \in pending["positions"]

(* The baseline is the empty portfolio.  A strategy that knows of its      *)
(* position is told of none but lots that are there.                       *)
PhaseRight ==
  LET s == saved.strat
  IN  /\ s.phase \in {"PendingEntry", "InPosition", "PendingExit"} => s.baseline = 0
      /\ (s.phase \in {"InPosition", "PendingExit"} /\ Len(cmds) = 1) =>
           /\ position > 0
           /\ \A j \in DOMAIN log.positions : Ahead(j) => log.positions[j].qty > 0

(* The inductive invariant.                                                *)
IInv ==
  /\ TypeOK
  /\ MemoryRight
  /\ CommandsRight
  /\ ReportsRight
  /\ SavedStateKnowsCommands
  /\ PhaseRight

-----------------------------------------------------------------------------
(* The callbacks of the strategy.                                          *)

Contexts ==
  [lastBar : Nat \cup {NoBar}, pos : Int, event : Nat, now : Nat, trigger : CloseTriggers]

(* A callback keeps the types.                                             *)
LEMMA OnAckType ==
  ASSUME NEW s \in StrategyStates, NEW req, NEW status
  PROVE  OnAck(s, req, status) \in StrategyStates
  BY DEF OnAck, StrategyStates, Waiting, Blocked, Idle, Done, InPosition

LEMMA SendTypes ==
  ASSUME NEW ctx \in Contexts, NEW s, s.baseline \in Int
  PROVE  /\ SendEntry(ctx).state \in StrategyStates /\ SendEntry(ctx).order = "buy"
         /\ SendEntry(ctx).state.phase = "PendingEntry"
         /\ SendEntry(ctx).state.baseline = ctx.pos
         /\ SendExit(s, ctx).state \in StrategyStates /\ SendExit(s, ctx).order = "sell"
         /\ SendExit(s, ctx).state.phase = "PendingExit"
         /\ SendExit(s, ctx).state.baseline = s.baseline
         /\ SendExit(s, ctx).state.req = LiveRequestId(ctx.event, "sell")
<1>1. \A side \in Sides : LiveRequestId(ctx.event, side) \in RequestIds
  BY DEF LiveRequestId, RequestIds, Sides, Contexts
<1> QED
  BY <1>1 DEF SendEntry, SendExit, Then, AwaitAck, StrategyStates, Waiting, Sides, Contexts

(* What a callback may return: no order, and a phase it may go to, or the  *)
(* entry of an idle strategy, or the exit of one with a position.          *)
Entering(s, ctx, r) ==
  /\ s.phase = "Idle" /\ r.order = "buy"
  /\ r.state \in StrategyStates /\ r.state.phase = "PendingEntry" /\ r.state.baseline = ctx.pos

Leaving(s, ctx, r) ==
  /\ s.phase = "InPosition" /\ r.order = "sell"
  /\ r.state \in StrategyStates /\ r.state.phase = "PendingExit"
  /\ r.state.baseline = s.baseline /\ r.state.req = LiveRequestId(ctx.event, "sell")

LEMMA OnBarEffect ==
  ASSUME NEW s \in StrategyStates, NEW mark, NEW ctx \in Contexts, NEW ts
  PROVE  LET r == OnBar(s, mark, ctx, ts)
         IN  \/ r.order = "none" /\ r.state \in {s, Blocked}
             \/ Entering(s, ctx, r)
             \/ Leaving(s, ctx, r) /\ ctx.trigger = "next_bar"
<1>1. s.phase = "InPosition" => s.baseline \in Int
  BY DEF StrategyStates, Waiting, Idle, Blocked, Done
<1>2. CASE mark # NoBar /\ ts <= mark
  BY <1>2 DEF OnBar, Stay, Then
<1>3. CASE ~ (mark # NoBar /\ ts <= mark) /\ TimedOut(s, ctx.now)
  BY <1>3 DEF OnBar, Stay, Then, TimedOut, Waiting
<1>4. CASE ~ (mark # NoBar /\ ts <= mark) /\ ~ TimedOut(s, ctx.now)
           /\ s.phase = "Idle" /\ ctx.lastBar # NoBar
  <2>1. OnBar(s, mark, ctx, ts) = SendEntry(ctx)
    BY <1>4 DEF OnBar
  <2>2. [baseline |-> 0].baseline \in Int
    OBVIOUS
  <2> QED
    BY <1>4, <2>1, <2>2, SendTypes DEF Entering
<1>5. CASE ~ (mark # NoBar /\ ts <= mark) /\ ~ TimedOut(s, ctx.now)
           /\ s.phase = "InPosition" /\ ctx.trigger = "next_bar" /\ ts > s.opened
  <2>1. OnBar(s, mark, ctx, ts) = SendExit(s, ctx)
    BY <1>5 DEF OnBar
  <2> QED
    BY <1>1, <1>5, <2>1, SendTypes DEF Leaving
<1> QED
  BY <1>2, <1>3, <1>4, <1>5 DEF OnBar, Stay, Then

(* On a position event an entry is confirmed, an exit is sent or over, or  *)
(* the strategy takes the position of the broker for its own.              *)
Corrected(s, qty, t) ==
  \/ s.phase = "PendingEntry" /\ qty # s.baseline /\ t.phase = "InPosition" /\ t.baseline = s.baseline
  \/ s.phase = "InPosition" /\ qty = s.baseline /\ t = Idle
  \/ s.phase = "PendingExit" /\ qty = s.baseline /\ t = Done
  \/ s.phase = "Idle" /\ qty # 0 /\ t.phase = "InPosition" /\ t.baseline = 0

LEMMA OnPositionEffect ==
  ASSUME NEW s \in StrategyStates, NEW ctx \in Contexts, NEW qty \in Int, NEW ts \in Nat
  PROVE  LET r == OnPosition(s, ctx, qty, ts)
         IN  \/ r.order = "none" /\ r.state \in StrategyStates
                /\ (r.state = s \/ Corrected(s, qty, r.state))
             \/ Leaving(s, ctx, r) /\ ctx.trigger = "position_update" /\ qty # s.baseline
<1> DEFINE at == IF ctx.lastBar = NoBar THEN ts ELSE ctx.lastBar
           r == OnPosition(s, ctx, qty, ts)
<1>1. s.phase \in {"PendingEntry", "InPosition", "PendingExit"} => s.baseline \in Int
  BY DEF StrategyStates, Waiting, Idle, Blocked, Done
<1>2. \A b \in Int : /\ InPosition(b, at) \in StrategyStates
                     /\ InPosition(b, at).phase = "InPosition" /\ InPosition(b, at).baseline = b
  BY DEF InPosition, StrategyStates, Contexts
<1>3. {Idle, Done} \subseteq StrategyStates
  BY DEF StrategyStates
<1>4. CASE s.phase = "PendingEntry" /\ qty # s.baseline
  <2>1. r = Stay(InPosition(s.baseline, at))
    BY <1>4 DEF OnPosition
  <2> QED
    BY <1>1, <1>2, <1>4, <2>1 DEF Stay, Then, Corrected
<1>5. CASE s.phase = "InPosition" /\ qty = s.baseline
  <2>1. r = Stay(Idle)
    BY <1>5 DEF OnPosition
  <2> QED
    BY <1>3, <1>5, <2>1 DEF Stay, Then, Corrected
<1>6. CASE s.phase = "InPosition" /\ qty # s.baseline /\ ctx.trigger = "position_update"
  <2>1. r = SendExit(s, ctx)
    BY <1>6 DEF OnPosition
  <2> QED
    BY <1>1, <1>6, <2>1, SendTypes DEF Leaving
<1>7. CASE s.phase = "PendingExit" /\ qty = s.baseline
  <2>1. r = Stay(Done)
    BY <1>7 DEF OnPosition
  <2> QED
    BY <1>3, <1>7, <2>1 DEF Stay, Then, Corrected
<1>8. CASE s.phase = "Idle" /\ qty # 0
  <2>1. r = Stay(InPosition(0, at))
    BY <1>8 DEF OnPosition
  <2> QED
    BY <1>2, <1>8, <2>1 DEF Stay, Then, Corrected
<1>9. CASE \/ s.phase \notin {"PendingEntry", "InPosition", "PendingExit", "Idle"}
           \/ s.phase = "PendingEntry" /\ qty = s.baseline
           \/ s.phase = "InPosition" /\ qty # s.baseline /\ ctx.trigger # "position_update"
           \/ s.phase = "PendingExit" /\ qty # s.baseline
           \/ s.phase = "Idle" /\ qty = 0
  <2>1. r = Stay(s)
    BY <1>9 DEF OnPosition
  <2> QED
    BY <2>1 DEF Stay, Then
<1> QED
  BY <1>4, <1>5, <1>6, <1>7, <1>8, <1>9

(* An acknowledgement is noted, or blocks a strategy that waits for it.    *)
LEMMA OnAckEffect ==
  ASSUME NEW s \in StrategyStates, NEW req, NEW status
  PROVE  LET t == OnAck(s, req, status)
         IN  /\ t = Blocked \/ t = s \/ (s.phase \in Waiting /\ t = [s EXCEPT !.acked = TRUE])
             /\ t = Blocked \/ (t.phase = s.phase /\ (s.phase \in Waiting \cup {"InPosition"} => t.baseline = s.baseline))
             /\ (s.phase \in Waiting /\ s.req = req /\ status = "Rejected") => t = Blocked
<1>1. s.phase \in Waiting => s \in [phase : Waiting, req : RequestIds, baseline : Int, sent : Nat, acked : BOOLEAN]
  BY DEF StrategyStates, Waiting, Idle, Blocked, Done
<1>2. s.phase \in Waiting => /\ [s EXCEPT !.acked = TRUE].phase = s.phase
                             /\ [s EXCEPT !.acked = TRUE].baseline = s.baseline
  BY <1>1
<1> QED
  BY <1>2 DEF OnAck

-----------------------------------------------------------------------------
(* From a callback to the command and the saved state.                     *)

Results == [state : StrategyStates, order : Sides \cup {"none"}]

NewCommand(created, side) ==
  [req |-> CommandId(created, side), side |-> side, filled |-> 0, answer |-> "none"]

(* apply_intents publishes the command, or drops it, and then the state is *)
(* that of before, or that of a refused exit.                              *)
LEMMA ApplyEffect ==
  ASSUME NEW s \in StrategyStates, NEW r, r.state \in StrategyStates, r.order \in Sides \cup {"none"},
         NEW created, NEW lastBar, NEW open, NEW ready,
         NEW a, a = ApplyIntents(s, r, created, lastBar, open, ready)
  PROVE  \/ r.order = "none" /\ a.strat = r.state /\ a.new = << >>
         \/ r.order \in Sides /\ a.strat = s /\ a.new = << >>
         \/ /\ r.order \in Sides /\ IntentClass(r.order, mem.pos) = "Exit"
            /\ a.strat = OnAck(r.state, CommandId(created, r.order), "Rejected") /\ a.new = << >>
         \/ r.order \in Sides /\ a.strat = r.state /\ a.new = <<NewCommand(created, r.order)>>
  BY DEF ApplyIntents, NewCommand, Sides

AtMostOne(new) == new = << >> \/ \E c \in Commands : new = <<c>>

LEMMA ApplyTypes ==
  ASSUME NEW s \in StrategyStates, NEW r, r.state \in StrategyStates, r.order \in Sides \cup {"none"},
         NEW created \in Nat, NEW lastBar, NEW open, NEW ready,
         NEW a, a = ApplyIntents(s, r, created, lastBar, open, ready)
  PROVE  /\ a.strat \in StrategyStates
         /\ AtMostOne(a.new)
         /\ r.order = "none" => a.new = << >>
<1>1. \A side \in Sides : NewCommand(created, side) \in Commands /\ NewCommand(created, side).side = side
  BY StrategyAssumption
     DEF NewCommand, Commands, CommandId, LiveRequestId, RequestIds, Sides, Statuses
<1>2. \A req, status : OnAck(r.state, req, status) \in StrategyStates
  BY OnAckType
<1>3. "none" \notin Sides
  BY DEF Sides
<1>4. r.order \in Sides \cup {"none"}
  OBVIOUS
<1>5. \/ r.order = "none" /\ a.strat = r.state /\ a.new = << >>
      \/ r.order \in Sides /\ a.strat = s /\ a.new = << >>
      \/ /\ r.order \in Sides
         /\ a.strat = OnAck(r.state, CommandId(created, r.order), "Rejected") /\ a.new = << >>
      \/ r.order \in Sides /\ a.strat = r.state /\ a.new = <<NewCommand(created, r.order)>>
  BY ONLY <1>4, ApplyEffect, a = ApplyIntents(s, r, created, lastBar, open, ready), s \in StrategyStates, r.state \in StrategyStates
<1>6. a.strat \in StrategyStates
  BY <1>2, <1>5
<1>7. AtMostOne(a.new)
  <2>1. CASE a.new = << >>
    BY <2>1 DEF AtMostOne
  <2>2. CASE r.order \in Sides /\ a.new = <<NewCommand(created, r.order)>>
    <3>1. NewCommand(created, r.order) \in Commands
      BY <1>1, <2>2
    <3> QED
      BY <2>2, <3>1 DEF AtMostOne
  <2> QED
    BY <1>5, <2>1, <2>2
<1>8. r.order = "none" => a.new = << >>
  BY <1>3, <1>5
<1> QED
  BY <1>6, <1>7, <1>8

(* The context of a callback and the time of an event have their types.    *)
LEMMA MemoryTypes ==
  ASSUME TypeOK
  PROVE  /\ clock \in Nat /\ mem \in Memories /\ mem.strat \in StrategyStates
         /\ mem.lastBar \in Nat \cup {NoBar} /\ mem.mark \in Nat \cup {NoBar}
         /\ mem.pos \in Int /\ mem.now \in Nat /\ mem.hasBars \in BOOLEAN
         /\ \A ts \in Nat : Normalized(ts) \in Nat /\ Context(ts) \in Contexts
<1>1. /\ clock \in Nat /\ trigger \in CloseTriggers /\ mem \in Memories
  BY DispatchAssumption DEF TypeOK
<1>2. /\ mem.strat \in StrategyStates
      /\ mem.lastBar \in Nat \cup {NoBar} /\ mem.mark \in Nat \cup {NoBar}
      /\ mem.pos \in Int /\ mem.now \in Nat /\ mem.hasBars \in BOOLEAN
  BY <1>1 DEF Memories
<1> QED
  BY <1>1, <1>2 DEF Normalized, Context, Contexts

LEMMA BlockedType == Blocked \in StrategyStates /\ Idle \in StrategyStates
  BY DEF StrategyStates

(* What a handler does to the saved state, the commands and the memory: it *)
(* saves the state s, publishes the commands new and handles a bar or not. *)
Handled(s, new) ==
  /\ s \in StrategyStates
  /\ saved' = [strat |-> s, lastBar |-> mem.lastBar]
  /\ cmds' = cmds \o new /\ AtMostOne(new)
  /\ mem' \in Memories /\ mem'.strat = s
  /\ handled' = TRUE /\ ~ handled /\ up # "down" /\ hand # Nothing
  /\ UNCHANGED <<log, cursor, pending, broker, up, hand, next, deaths, trigger>>

LEMMA EntryTypes ==
  ASSUME TypeOK, NEW stream \in Streams, NEW i, IsFirst(stream, i)
  PROVE  /\ i \in DOMAIN log[stream] /\ i \in pending[stream] /\ i \in Nat /\ hand # Nothing
         /\ stream = "acks" => log.acks[i] \in Acks
         /\ stream = "positions" => log.positions[i] \in Positions
         /\ stream = "bars" => log.bars[i] \in Nat
<1>1. /\ i \in hand[stream] /\ hand[stream] \subseteq pending[stream]
      /\ pending[stream] \subseteq 1 .. cursor[stream] /\ cursor[stream] \in 0 .. Len(log[stream])
  BY DEF TypeOK, IsFirst
<1>2. Len(log[stream]) \in Nat /\ DOMAIN log[stream] = 1 .. Len(log[stream])
  <2>1. log.acks \in Seq(Acks) /\ log.positions \in Seq(Positions) /\ log.bars \in Seq(Nat)
    BY DEF TypeOK
  <2>2. CASE stream = "acks"
    BY <2>1, <2>2, LenProperties
  <2>3. CASE stream = "positions"
    BY <2>1, <2>3, LenProperties
  <2>4. CASE stream = "bars"
    BY <2>1, <2>4, LenProperties
  <2> QED
    BY <2>2, <2>3, <2>4 DEF Streams
<1>3. i \in 1 .. Len(log[stream])
  BY <1>1, <1>2
<1>4. hand # Nothing
  BY <1>1 DEF Nothing
<1>5. log.acks \in Seq(Acks) /\ log.positions \in Seq(Positions) /\ log.bars \in Seq(Nat)
  BY DEF TypeOK
<1>6. CASE stream = "acks"
  BY <1>1, <1>2, <1>3, <1>4, <1>5, <1>6, ElementOfSeq
<1>7. CASE stream = "positions"
  BY <1>1, <1>2, <1>3, <1>4, <1>5, <1>7, ElementOfSeq
<1>8. CASE stream = "bars"
  BY <1>1, <1>2, <1>3, <1>4, <1>5, <1>8, ElementOfSeq
<1> QED
  BY <1>6, <1>7, <1>8 DEF Streams

(* The results of the callbacks.                                           *)
LEMMA BarResult ==
  ASSUME TypeOK, NEW ts \in Nat, NEW blocked \in BOOLEAN
  PROVE  LET created == Normalized(ts)
             r == IF blocked THEN Stay(mem.strat) ELSE OnBar(mem.strat, mem.mark, Context(created), ts)
         IN  /\ r.state \in StrategyStates /\ r.order \in Sides \cup {"none"}
             /\ blocked => r.order = "none"
<1> DEFINE created == Normalized(ts)
           b == OnBar(mem.strat, mem.mark, Context(created), ts)
<1>1. mem.strat \in StrategyStates /\ Context(created) \in Contexts
  BY MemoryTypes
<1>2. \/ b.order = "none" /\ b.state \in {mem.strat, Blocked}
      \/ Entering(mem.strat, Context(created), b)
      \/ Leaving(mem.strat, Context(created), b) /\ Context(created).trigger = "next_bar"
  BY <1>1, OnBarEffect
<1>3. b.state \in StrategyStates /\ b.order \in Sides \cup {"none"}
  BY <1>1, <1>2, BlockedType DEF Entering, Leaving, Sides
<1> QED
  BY <1>1, <1>3 DEF Stay, Then

LEMMA PositionResult ==
  ASSUME TypeOK, NEW e \in Positions
  PROVE  LET r == OnPosition(mem.strat, Context(e.ts), e.qty, e.ts)
         IN  r.state \in StrategyStates /\ r.order \in Sides \cup {"none"}
<1> DEFINE b == OnPosition(mem.strat, Context(e.ts), e.qty, e.ts)
<1>1. mem.strat \in StrategyStates /\ Context(e.ts) \in Contexts /\ e.ts \in Nat /\ e.qty \in Int
  BY MemoryTypes DEF Positions
<1>2. \/ b.order = "none" /\ b.state \in StrategyStates
      \/ Leaving(mem.strat, Context(e.ts), b)
  BY <1>1, OnPositionEffect
<1> QED
  BY <1>2 DEF Leaving, Sides

LEMMA AckHandled ==
  ASSUME TypeOK, NEW i, HandleAck(i)
  PROVE  /\ Handled(OnAck(mem.strat, log.acks[i].req, log.acks[i].status), << >>)
         /\ mem'.pos = mem.pos
<1> DEFINE s == OnAck(mem.strat, log.acks[i].req, log.acks[i].status)
<1>1. log.acks[i].ts \in Nat /\ hand # Nothing
  <2>1. IsFirst("acks", i)
    BY DEF HandleAck, InHand
  <2>2. log.acks[i] \in Acks /\ hand # Nothing
    BY <2>1, EntryTypes DEF Streams
  <2> QED
    BY <2>2 DEF Acks
<1>2. s \in StrategyStates
  BY MemoryTypes, OnAckType
<1>3. mem' = [mem EXCEPT !.strat = s, !.now = Normalized(log.acks[i].ts)]
  BY DEF HandleAck
<1>4. mem' \in Memories /\ mem'.strat = s /\ mem'.pos = mem.pos
  BY <1>1, <1>2, <1>3, MemoryTypes DEF Memories
<1>5. /\ saved' = [strat |-> s, lastBar |-> mem.lastBar] /\ cmds' = cmds \o << >>
      /\ handled' = TRUE /\ ~ handled /\ up # "down"
      /\ UNCHANGED <<log, cursor, pending, broker, up, hand, next, deaths, trigger>>
  BY DEF HandleAck, Persist, InHand
<1>6. AtMostOne(<< >>)
  BY DEF AtMostOne
<1> QED
  BY <1>1, <1>2, <1>4, <1>5, <1>6 DEF Handled

LEMMA PositionHandled ==
  ASSUME TypeOK, NEW i, NEW open, NEW ready, HandlePosition(i, open, ready)
  PROVE  \E e \in Positions, created \in Nat : \E r, a :
           /\ e = log.positions[i]
           /\ r = OnPosition(mem.strat, Context(e.ts), e.qty, e.ts)
           /\ a = ApplyIntents(mem.strat, r, created, mem.lastBar, open, ready)
           /\ Handled(a.strat, a.new) /\ mem'.pos = e.qty
<1>0. IsFirst("positions", i)
  BY DEF HandlePosition, InHand
<1>1. log.positions[i] \in Positions /\ hand # Nothing
  BY <1>0, EntryTypes DEF Streams
<1>2. PICK e \in Positions : e = log.positions[i]
  BY <1>1
<1>3. e.ts \in Nat /\ e.qty \in Int /\ Normalized(e.ts) \in Nat
  BY MemoryTypes DEF Positions
<1>4. PICK r : r = OnPosition(mem.strat, Context(e.ts), e.qty, e.ts)
  OBVIOUS
<1>5. r.state \in StrategyStates /\ r.order \in Sides \cup {"none"}
  BY <1>4, PositionResult
<1>6. PICK a : a = ApplyIntents(mem.strat, r, Normalized(e.ts), mem.lastBar, open, ready)
  OBVIOUS
<1>7. a.strat \in StrategyStates /\ AtMostOne(a.new)
  <2>1. mem.strat \in StrategyStates
    BY MemoryTypes
  <2> QED
    BY ONLY <1>3, <1>5, <1>6, <2>1, ApplyTypes
<1>8. mem' = [mem EXCEPT !.strat = a.strat, !.now = Normalized(e.ts), !.pos = e.qty]
  BY <1>2, <1>4, <1>6 DEF HandlePosition
<1>9. mem' \in Memories /\ mem'.strat = a.strat /\ mem'.pos = e.qty
  BY <1>3, <1>7, <1>8, MemoryTypes DEF Memories
<1>10. /\ saved' = [strat |-> a.strat, lastBar |-> mem.lastBar] /\ cmds' = cmds \o a.new
       /\ handled' = TRUE /\ ~ handled /\ up # "down"
       /\ UNCHANGED <<log, cursor, pending, broker, up, hand, next, deaths, trigger>>
  BY <1>2, <1>4, <1>6 DEF HandlePosition, Persist, InHand
<1>11. Handled(a.strat, a.new)
  BY <1>1, <1>7, <1>9, <1>10 DEF Handled
<1> QED
  BY <1>2, <1>3, <1>4, <1>6, <1>9, <1>11

LEMMA BarHandled ==
  ASSUME TypeOK, NEW i, NEW blocked \in BOOLEAN, NEW open \in BOOLEAN, NEW ready \in BOOLEAN,
         HandleBar(i, blocked, open, ready)
  PROVE  \E ts, created \in Nat : \E r, a :
           /\ r = IF blocked THEN Stay(mem.strat) ELSE OnBar(mem.strat, mem.mark, Context(created), ts)
           /\ a = ApplyIntents(mem.strat, r, created, ts, open, ready)
           /\ Handled(a.strat, a.new) /\ mem'.pos = mem.pos
           /\ blocked => a.new = << >>
<1>0. IsFirst("bars", i)
  BY DEF HandleBar, InHand
<1>1. log.bars[i] \in Nat /\ hand # Nothing
  BY <1>0, EntryTypes DEF Streams
<1>2. PICK ts \in Nat : ts = log.bars[i]
  BY <1>1
<1>3. PICK created \in Nat : created = Normalized(ts)
  BY MemoryTypes
<1>4. PICK r : r = IF blocked THEN Stay(mem.strat) ELSE OnBar(mem.strat, mem.mark, Context(created), ts)
  OBVIOUS
<1>5. /\ r.state \in StrategyStates /\ r.order \in Sides \cup {"none"}
      /\ blocked => r.order = "none"
  BY <1>3, <1>4, BarResult
<1>6. PICK a : a = ApplyIntents(mem.strat, r, created, ts, open, ready)
  OBVIOUS
<1>7. /\ a.strat \in StrategyStates /\ AtMostOne(a.new)
      /\ blocked => a.new = << >>
  <2>1. mem.strat \in StrategyStates
    BY MemoryTypes
  <2>2. /\ a.strat \in StrategyStates /\ AtMostOne(a.new)
        /\ r.order = "none" => a.new = << >>
    BY ONLY <1>3, <1>5, <1>6, <2>1, ApplyTypes
  <2> QED
    BY <1>5, <2>2
<1>8. PICK mark : /\ mem' = [mem EXCEPT !.strat = a.strat, !.now = created, !.lastBar = ts,
                                        !.mark = mark]
                  /\ mark \in {mem.mark, ts}
  BY <1>2, <1>3, <1>4, <1>6 DEF HandleBar
<1>9. mem' \in Memories /\ mem'.strat = a.strat /\ mem'.pos = mem.pos
  BY <1>7, <1>8, MemoryTypes DEF Memories
<1>10. /\ saved' = [strat |-> a.strat, lastBar |-> mem.lastBar] /\ cmds' = cmds \o a.new
       /\ handled' = TRUE /\ ~ handled /\ up # "down"
       /\ UNCHANGED <<log, cursor, pending, broker, up, hand, next, deaths, trigger>>
  BY <1>2, <1>3, <1>4, <1>6 DEF HandleBar, Persist, InHand
<1>11. Handled(a.strat, a.new)
  BY <1>1, <1>7, <1>9, <1>10 DEF Handled
<1> QED
  BY <1>4, <1>6, <1>7, <1>9, <1>11

-----------------------------------------------------------------------------
(* The types.                                                              *)

LogsRight ==
  /\ DOMAIN log = Streams /\ DOMAIN cursor = Streams
  /\ DOMAIN pending = Streams /\ DOMAIN hand = Streams
  /\ log.acks \in Seq(Acks) /\ log.positions \in Seq(Positions) /\ log.bars \in Seq(Nat)
  /\ \A s \in Streams :
       cursor[s] \in 0 .. Len(log[s]) /\ pending[s] \subseteq 1 .. cursor[s] /\ hand[s] \subseteq pending[s]

StateRight ==
  /\ cmds \in Seq(Commands)
  /\ saved \in Snapshots /\ mem \in Memories
  /\ position \in Int /\ filledAt \in 0 .. clock /\ clock \in 0 .. MaxTime

ProcessRight ==
  /\ up \in {"down", "recovering", "running"} /\ next \in Streams \cup {"timer"}
  /\ (handled => hand # Nothing) /\ (up = "down" => hand = Nothing)
  /\ deaths \in 0 .. MaxDeaths /\ trigger \in CloseTriggers

LEMMA TypeParts == TypeOK <=> LogsRight /\ StateRight /\ ProcessRight
  BY DEF TypeOK, LogsRight, StateRight, ProcessRight

LEMMA StreamValues ==
  "acks" \in Streams /\ "positions" \in Streams /\ "bars" \in Streams /\ "timer" \notin Streams
  BY DEF Streams

LEMMA LogLengths ==
  ASSUME LogsRight
  PROVE  \A s \in Streams : Len(log[s]) \in Nat
<1>1. Len(log.acks) \in Nat /\ Len(log.positions) \in Nat /\ Len(log.bars) \in Nat
  BY LenProperties DEF LogsRight
<1> QED
  BY <1>1 DEF Streams

(* A longer log is still a log.                                            *)
LEMMA LogsGrow ==
  ASSUME LogsRight, UNCHANGED <<cursor, pending, hand>>,
         DOMAIN log' = Streams,
         log'.acks \in Seq(Acks), log'.positions \in Seq(Positions), log'.bars \in Seq(Nat),
         \A s \in Streams : Len(log[s]) <= Len(log'[s])
  PROVE  LogsRight'
<1>1. \A s \in Streams : Len(log[s]) \in Nat
  BY LogLengths
<1>2. Len(log'.acks) \in Nat /\ Len(log'.positions) \in Nat /\ Len(log'.bars) \in Nat
  BY LenProperties
<1>3. \A s \in Streams : Len(log'[s]) \in Nat
  BY <1>2 DEF Streams
<1> QED
  BY <1>1, <1>3 DEF LogsRight

LEMMA CloseBarType ==
  ASSUME TypeOK, CloseBar
  PROVE  TypeOK'
<1> USE TypeParts
<1>1. clock \in Nat /\ clock + 1 \in 0 .. MaxTime /\ MaxTime \in Nat /\ clock + 1 \in Nat
  BY DispatchAssumption DEF CloseBar, StateRight
<1>2. /\ DOMAIN log' = Streams /\ log'.acks = log.acks /\ log'.positions = log.positions
      /\ log'.bars = Append(log.bars, clock + 1)
  BY DEF CloseBar, LogsRight, Streams
<1>3. log'.bars \in Seq(Nat) /\ Len(log'.bars) = Len(log.bars) + 1 /\ Len(log.bars) \in Nat
  BY <1>1, <1>2, AppendProperties, LenProperties DEF LogsRight
<1>4. \A s \in Streams : Len(log[s]) <= Len(log'[s])
  BY <1>2, <1>3, LogLengths DEF Streams
<1>5. LogsRight'
  <2>1. log'.acks \in Seq(Acks) /\ log'.positions \in Seq(Positions)
    BY <1>2 DEF LogsRight
  <2>2. UNCHANGED <<cursor, pending, hand>>
    BY DEF CloseBar, process
  <2> QED
    BY <1>2, <1>3, <1>4, <2>1, <2>2, LogsGrow
<1>6. StateRight' /\ ProcessRight'
  BY <1>1 DEF CloseBar, StateRight, ProcessRight, process, broker
<1>7. (LogsRight /\ StateRight /\ ProcessRight)'
  BY <1>5, <1>6
<1> QED
  BY <1>7 DEF TypeOK, LogsRight, StateRight, ProcessRight

LEMMA RepeatBarsType ==
  ASSUME TypeOK, NEW b \in 1 .. clock, RepeatBars(b)
  PROVE  TypeOK'
<1> USE TypeParts
<1>1. clock \in Nat
  BY DispatchAssumption DEF StateRight
<1> DEFINE again == [k \in 1 .. clock - b + 1 |-> b + k - 1]
<1>2. again \in Seq(Nat)
  <2>1. clock - b + 1 \in Nat
    BY <1>1
  <2>2. again \in [1 .. clock - b + 1 -> Nat]
    BY <1>1
  <2> QED
    BY <2>1, <2>2, SeqDef
<1>3. /\ DOMAIN log' = Streams /\ log'.acks = log.acks /\ log'.positions = log.positions
      /\ log'.bars = log.bars \o again
  BY DEF RepeatBars, LogsRight, Streams
<1>4. log'.bars \in Seq(Nat) /\ Len(log'.bars) = Len(log.bars) + Len(again)
      /\ Len(log.bars) \in Nat /\ Len(again) \in Nat
  <2> HIDE DEF again
  <2> QED
    BY <1>2, <1>3, ConcatProperties, LenProperties DEF LogsRight
<1>5. \A s \in Streams : Len(log[s]) <= Len(log'[s])
  <2> HIDE DEF again
  <2> QED
    BY <1>3, <1>4, LogLengths DEF Streams
<1>6. LogsRight'
  <2>1. log'.acks \in Seq(Acks) /\ log'.positions \in Seq(Positions)
    BY <1>3 DEF LogsRight
  <2>2. UNCHANGED <<cursor, pending, hand>>
    BY DEF RepeatBars, process
  <2> QED
    BY <1>3, <1>4, <1>5, <2>1, <2>2, LogsGrow
<1>7. StateRight' /\ ProcessRight'
  BY DEF RepeatBars, StateRight, ProcessRight, process, broker
<1> QED
  BY <1>6, <1>7 DEF TypeOK, LogsRight, StateRight, ProcessRight

LEMMA ExecuteType ==
  ASSUME TypeOK, NEW i \in 1 .. Len(cmds), Execute(i)
  PROVE  TypeOK'
<1>1. LogsRight /\ StateRight /\ ProcessRight
  BY TypeParts
<1>2. Len(cmds) \in Nat /\ DOMAIN cmds = 1 .. Len(cmds) /\ clock \in Nat /\ cmds[i] \in Commands
  BY <1>1, LenProperties, ElementOfSeq, DispatchAssumption DEF StateRight
<1>3. cmds' \in Seq(Commands)
  <2>1. cmds[i].filled + 1 \in 0 .. Qty
    BY <1>2, StrategyAssumption DEF Execute, Commands
  <2>2. [cmds[i] EXCEPT !.filled = cmds[i].filled + 1] \in Commands
    BY <1>2, <2>1 DEF Commands
  <2>3. cmds' = [cmds EXCEPT ![i] = [cmds[i] EXCEPT !.filled = cmds[i].filled + 1]]
    BY DEF Execute
  <2> QED
    BY <1>1, <1>2, <2>2, <2>3, ExceptSeq DEF StateRight
<1>4. position' \in Int /\ filledAt' \in 0 .. clock'
  BY <1>1, <1>2 DEF Execute, StateRight
<1> QED
  BY <1>1, <1>3, <1>4
     DEF Execute, TypeOK, LogsRight, StateRight, ProcessRight, process, redis

LEMMA AnswerType ==
  ASSUME TypeOK, NEW i \in 1 .. Len(cmds), NEW status \in Statuses, Answer(i, status)
  PROVE  TypeOK'
<1>1. LogsRight /\ StateRight /\ ProcessRight
  BY TypeParts
<1>2. Len(cmds) \in Nat /\ DOMAIN cmds = 1 .. Len(cmds) /\ clock \in Nat /\ cmds[i] \in Commands
  BY <1>1, LenProperties, ElementOfSeq, DispatchAssumption DEF StateRight
<1>3. cmds' \in Seq(Commands)
  <2>1. [cmds[i] EXCEPT !.answer = status] \in Commands
    BY <1>2 DEF Commands
  <2>2. cmds' = [cmds EXCEPT ![i] = [cmds[i] EXCEPT !.answer = status]]
    BY DEF Answer
  <2> QED
    BY <1>1, <1>2, <2>1, <2>2, ExceptSeq DEF StateRight
<1>4. PICK ack \in Acks : log' = [log EXCEPT !.acks = Append(@, ack)]
  <2>1. [req |-> cmds[i].req, status |-> status, ts |-> clock] \in Acks
    BY <1>2 DEF Acks, Commands
  <2> QED
    BY <2>1 DEF Answer
<1>5. /\ DOMAIN log' = Streams /\ log'.bars = log.bars /\ log'.positions = log.positions
      /\ log'.acks = Append(log.acks, ack)
  BY <1>1, <1>4 DEF LogsRight, Streams
<1>6. log'.acks \in Seq(Acks) /\ Len(log'.acks) = Len(log.acks) + 1 /\ Len(log.acks) \in Nat
  BY <1>1, <1>5, AppendProperties, LenProperties DEF LogsRight
<1>7. \A s \in Streams : Len(log[s]) <= Len(log'[s])
  BY <1>1, <1>5, <1>6, LogLengths DEF Streams
<1>8. LogsRight'
  <2>1. log'.bars \in Seq(Nat) /\ log'.positions \in Seq(Positions)
    BY <1>1, <1>5 DEF LogsRight
  <2>2. UNCHANGED <<cursor, pending, hand>>
    BY DEF Answer, process
  <2> QED
    BY <1>1, <1>5, <1>6, <1>7, <2>1, <2>2, LogsGrow
<1> QED
  BY <1>1, <1>3, <1>8 DEF Answer, TypeOK, LogsRight, StateRight, ProcessRight, process, broker

LEMMA ReportType ==
  ASSUME TypeOK, NEW ts, Report(ts)
  PROVE  TypeOK'
<1>1. LogsRight /\ StateRight /\ ProcessRight
  BY TypeParts
<1>2. PICK e \in Positions : log' = [log EXCEPT !.positions = Append(@, e)]
  <2>1. [qty |-> position, ts |-> ts] \in Positions
    BY <1>1, DispatchAssumption DEF Report, Positions, StateRight
  <2> QED
    BY <2>1 DEF Report
<1>3. /\ DOMAIN log' = Streams /\ log'.bars = log.bars /\ log'.acks = log.acks
      /\ log'.positions = Append(log.positions, e)
  BY <1>1, <1>2 DEF LogsRight, Streams
<1>4. /\ log'.positions \in Seq(Positions) /\ Len(log'.positions) = Len(log.positions) + 1
      /\ Len(log.positions) \in Nat
  BY <1>1, <1>3, AppendProperties, LenProperties DEF LogsRight
<1>5. \A s \in Streams : Len(log[s]) <= Len(log'[s])
  BY <1>1, <1>3, <1>4, LogLengths DEF Streams
<1>6. LogsRight'
  <2>1. log'.bars \in Seq(Nat) /\ log'.acks \in Seq(Acks)
    BY <1>1, <1>3 DEF LogsRight
  <2>2. UNCHANGED <<cursor, pending, hand>>
    BY DEF Report, process
  <2> QED
    BY <1>1, <1>3, <1>4, <1>5, <2>1, <2>2, LogsGrow
<1> QED
  BY <1>1, <1>6 DEF Report, TypeOK, LogsRight, StateRight, ProcessRight, process, broker

(* A read takes the next entries of a stream, all of them if they are few. *)
LEMMA ReadEffect ==
  ASSUME TypeOK, Read
  PROVE  /\ next \in Streams /\ up = "running" /\ hand = Nothing
         /\ UNCHANGED <<log, saved, cmds, broker, up, handled, deaths, trigger>>
         /\ next' \in Streams \cup {"timer"}
         /\ \/ UNCHANGED <<cursor, pending, hand, mem>>
            \/ \E last \in cursor[next] + 1 .. Len(log[next]) :
                 /\ cursor' = [cursor EXCEPT ![next] = last]
                 /\ pending' = [pending EXCEPT ![next] = @ \cup (cursor[next] + 1 .. last)]
                 /\ hand' = [hand EXCEPT ![next] = cursor[next] + 1 .. last]
                 /\ mem' = [mem EXCEPT !.hasBars = @ \/ next = "bars"]
<1>1. next \in Streams
  BY DEF Read
<1>2. Len(log[next]) \in Nat /\ cursor[next] \in 0 .. Len(log[next]) /\ Count[next] \in Nat \ {0}
  BY <1>1, TypeParts, LogLengths, DispatchAssumption DEF LogsRight
<1>3. ASSUME Len(log[next]) - cursor[next] > 0
      PROVE  cursor[next] + (IF Len(log[next]) - cursor[next] < Count[next]
                             THEN Len(log[next]) - cursor[next] ELSE Count[next])
             \in cursor[next] + 1 .. Len(log[next])
  BY <1>2, <1>3
<1>4. After[next] \in Streams \cup {"timer"}
  BY <1>1 DEF After, Streams
<1> QED
  BY <1>1, <1>3, <1>4 DEF Read

LEMMA ReadType ==
  ASSUME TypeOK, Read
  PROVE  TypeOK'
<1>1. LogsRight /\ StateRight /\ ProcessRight
  BY TypeParts
<1>2. CASE UNCHANGED <<cursor, pending, hand, mem>>
  BY <1>1, <1>2, ReadEffect DEF TypeOK, LogsRight, StateRight, ProcessRight, broker
<1>3. ASSUME NEW last \in cursor[next] + 1 .. Len(log[next]),
             cursor' = [cursor EXCEPT ![next] = last],
             pending' = [pending EXCEPT ![next] = @ \cup (cursor[next] + 1 .. last)],
             hand' = [hand EXCEPT ![next] = cursor[next] + 1 .. last],
             mem' = [mem EXCEPT !.hasBars = @ \/ next = "bars"]
      PROVE  TypeOK'
  <2>1. next \in Streams /\ Len(log[next]) \in Nat
    BY <1>1, ReadEffect, LogLengths
  <2>2. \A s \in Streams :
          cursor'[s] \in 0 .. Len(log[s]) /\ pending'[s] \subseteq 1 .. cursor'[s]
          /\ hand'[s] \subseteq pending'[s]
    <3> SUFFICES ASSUME NEW s \in Streams
                 PROVE  cursor'[s] \in 0 .. Len(log[s]) /\ pending'[s] \subseteq 1 .. cursor'[s]
                        /\ hand'[s] \subseteq pending'[s]
      OBVIOUS
    <3>1. CASE s # next
      BY <1>1, <1>3, <3>1 DEF LogsRight
    <3>2. CASE s = next
      <4>1. /\ cursor'[s] = last /\ hand'[s] = cursor[s] + 1 .. last
            /\ pending'[s] = pending[s] \cup (cursor[s] + 1 .. last)
        BY <1>1, <1>3, <3>2 DEF LogsRight
      <4>2. cursor[s] \in 0 .. Len(log[s]) /\ pending[s] \subseteq 1 .. cursor[s]
        BY <1>1 DEF LogsRight
      <4> QED
        BY <1>3, <2>1, <3>2, <4>1, <4>2
    <3> QED
      BY <3>1, <3>2
  <2>3. mem' \in Memories
    <3>1. mem' = [mem EXCEPT !.hasBars = TRUE] \/ mem' = mem
      BY <1>3, MemoryTypes DEF Memories
    <3> QED
      BY <3>1, MemoryTypes DEF Memories
  <2> QED
    BY <1>1, <2>2, <2>3, ReadEffect DEF TypeOK, LogsRight, StateRight, ProcessRight, broker
<1> QED
  BY <1>2, <1>3, ReadEffect

(* A handler publishes at most one command of the right type.              *)
LEMMA HandledType ==
  ASSUME TypeOK, NEW s, NEW new, Handled(s, new)
  PROVE  TypeOK'
<1>1. LogsRight /\ StateRight /\ ProcessRight
  BY TypeParts
<1>2. cmds' \in Seq(Commands)
  <2>1. CASE new = << >>
    BY <1>1, <2>1, ConcatEmptySeq DEF StateRight, Handled
  <2>2. ASSUME NEW c \in Commands, new = <<c>>
        PROVE  cmds' \in Seq(Commands)
    <3>1. <<c>> \in Seq(Commands)
      OBVIOUS
    <3> QED
      BY <1>1, <2>2, <3>1, ConcatProperties DEF StateRight, Handled
  <2> QED
    BY <2>1, <2>2 DEF Handled, AtMostOne
<1>3. saved' \in Snapshots
  BY MemoryTypes DEF Handled, Snapshots
<1> QED
  BY <1>1, <1>2, <1>3
     DEF Handled, TypeOK, LogsRight, StateRight, ProcessRight, broker

LEMMA SkipType ==
  ASSUME TypeOK, NEW i, SkipBar(i)
  PROVE  TypeOK'
<1>1. IsFirst("bars", i)
  BY DEF SkipBar, InHand
<1>2. hand # Nothing
  BY <1>1, EntryTypes, StreamValues
<1> QED
  BY <1>2 DEF SkipBar, TypeOK, redis, broker

LEMMA XackType ==
  ASSUME TypeOK, NEW stream \in Streams, NEW i, Xack(stream, i)
  PROVE  TypeOK'
<1>1. LogsRight /\ StateRight /\ ProcessRight
  BY TypeParts
<1>2. \A s \in Streams :
        pending'[s] \subseteq pending[s] /\ hand'[s] \subseteq pending'[s]
  BY <1>1 DEF Xack, LogsRight
<1> QED
  BY <1>1, <1>2 DEF Xack, TypeOK, LogsRight, StateRight, ProcessRight, broker

LEMMA TimerType ==
  ASSUME TypeOK, Timer
  PROVE  /\ TypeOK'
         /\ saved' = [strat |-> mem.strat, lastBar |-> mem.lastBar] /\ cmds' = cmds
<1>1. LogsRight /\ StateRight /\ ProcessRight
  BY TypeParts
<1>2. saved' = [strat |-> mem.strat, lastBar |-> mem.lastBar] /\ cmds' = cmds
  BY <1>1, ConcatEmptySeq DEF Timer, Persist, StateRight
<1>3. saved' \in Snapshots
  BY <1>2, MemoryTypes DEF Snapshots
<1>4. next' \in Streams
  BY DEF Timer, After, Streams
<1> QED
  BY <1>1, <1>2, <1>3, <1>4 DEF Timer, TypeOK, LogsRight, StateRight, ProcessRight, broker

LEMMA LoadedType ==
  ASSUME NEW s \in Snapshots, NEW p \in Int
  PROVE  Loaded(s, p) \in Memories /\ Fresh \in Snapshots
  BY BlockedType DEF Loaded, Snapshots, Memories, Fresh

LEMMA NothingType == DOMAIN Nothing = Streams /\ \A s \in Streams : Nothing[s] = {}
  BY DEF Nothing

LEMMA HeldType == Held \in Int /\ Held \in Nat
  BY DispatchAssumption

LEMMA DieType ==
  ASSUME TypeOK, Die
  PROVE  TypeOK'
<1>1. LogsRight /\ StateRight /\ ProcessRight
  BY TypeParts
<1>2. mem' \in Memories
  <2>1. Fresh \in Snapshots
    BY BlockedType DEF Fresh, Snapshots
  <2> QED
    BY <2>1, LoadedType, HeldType DEF Die
<1>3. hand' = Nothing
  BY DEF Die
<1>4. DOMAIN hand' = Streams /\ \A s \in Streams : hand'[s] = {}
  BY <1>3, NothingType
<1>5. next' \in Streams /\ deaths' \in 0 .. MaxDeaths
  BY <1>1, StreamValues, DispatchAssumption DEF Die, ProcessRight
<1> QED
  BY <1>1, <1>2, <1>4, <1>5 DEF Die, TypeOK, LogsRight, StateRight, ProcessRight, redis, broker

LEMMA StartType ==
  ASSUME TypeOK, NEW p \in {LastReported, position}, NEW claimed \in Claims, Start(p, claimed)
  PROVE  TypeOK'
<1>1. LogsRight /\ StateRight /\ ProcessRight
  BY TypeParts
<1>2. LastReported \in Int
  <2>1. CASE log.positions = << >>
    BY <2>1, HeldType DEF LastReported
  <2>2. CASE log.positions # << >>
    <3>1. Len(log.positions) \in 1 .. Len(log.positions)
      BY <1>1, <2>2, EmptySeq, LenProperties DEF LogsRight
    <3>2. log.positions[Len(log.positions)] \in Positions
      BY <1>1, <3>1, ElementOfSeq DEF LogsRight
    <3> QED
      BY <2>2, <3>2 DEF LastReported, Positions
  <2> QED
    BY <2>1, <2>2
<1>3. mem' \in Memories
  BY <1>1, <1>2, LoadedType DEF Start, StateRight
<1>4. DOMAIN hand' = Streams /\ \A s \in Streams : hand'[s] \subseteq pending[s]
  <2>1. claimed = pending \/ claimed = Nothing
    BY DEF Claims
  <2> QED
    BY <1>1, <2>1, NothingType DEF Start, LogsRight
<1>5. ~ handled
  BY <1>1 DEF Start, ProcessRight
<1>6. TypeOK'
  BY <1>1, <1>3, <1>4, <1>5 DEF Start, TypeOK, LogsRight, StateRight, ProcessRight, redis, broker
<1> QED
  BY <1>6

LEMMA BeginType ==
  ASSUME TypeOK, BeginPolling
  PROVE  TypeOK'
  BY DEF BeginPolling, TypeOK, redis, broker

LEMMA InitType ==
  ASSUME Init
  PROVE  TypeOK
<1>1. LogsRight
  <2>1. Len(<< >>) = 0 /\ << >> \in Seq(Acks) /\ << >> \in Seq(Positions) /\ << >> \in Seq(Nat)
    OBVIOUS
  <2>2. /\ DOMAIN log = Streams /\ log.acks = << >> /\ log.positions = << >> /\ log.bars = << >>
    BY DEF Init, Streams
  <2>3. \A s \in Streams : log[s] = << >>
    BY <2>2 DEF Streams
  <2>4. /\ DOMAIN cursor = Streams /\ \A s \in Streams : cursor[s] = 0
        /\ DOMAIN pending = Streams /\ \A s \in Streams : pending[s] = {}
        /\ DOMAIN hand = Streams /\ \A s \in Streams : hand[s] = {}
    BY NothingType DEF Init
  <2> QED
    BY <2>1, <2>2, <2>3, <2>4 DEF LogsRight
<1>2. StateRight
  <2>1. Fresh \in Snapshots
    BY BlockedType DEF Fresh, Snapshots
  <2>2. mem \in Memories
    BY <2>1, LoadedType, HeldType DEF Init
  <2>3. cmds \in Seq(Commands)
    BY DEF Init
  <2> QED
    BY <2>1, <2>2, <2>3, HeldType, DispatchAssumption DEF Init, StateRight
<1>3. ProcessRight
  BY DispatchAssumption, StreamValues DEF Init, ProcessRight
<1> QED
  BY <1>1, <1>2, <1>3, TypeParts

(* Every step of a handler is a step of Handled, or of SkipBar.            *)
LEMMA HandleParts ==
  ASSUME TypeOK, Handle
  PROVE  (\E s, new : Handled(s, new)) \/ (\E i \in hand.bars : SkipBar(i))
<1>1. ASSUME NEW i, HandleAck(i)
      PROVE  \E s, new : Handled(s, new)
  BY <1>1, AckHandled
<1>2. ASSUME NEW i, NEW open \in BOOLEAN, NEW ready \in BOOLEAN, HandlePosition(i, open, ready)
      PROVE  \E s, new : Handled(s, new)
  BY <1>2, PositionHandled
<1>3. ASSUME NEW i, NEW blocked \in BOOLEAN, NEW open \in BOOLEAN, NEW ready \in BOOLEAN,
             HandleBar(i, blocked, open, ready)
      PROVE  \E s, new : Handled(s, new)
  BY <1>3, BarHandled
<1> QED
  BY <1>1, <1>2, <1>3 DEF Handle

LEMMA NextType ==
  ASSUME TypeOK, [Next]_vars
  PROVE  TypeOK'
<1>1. CASE Environment
  BY <1>1, CloseBarType, RepeatBarsType, ExecuteType, AnswerType, ReportType DEF Environment
<1>2. CASE Read
  BY <1>2, ReadType
<1>3. CASE Handle
  BY <1>3, HandleParts, HandledType, SkipType
<1>4. CASE Acknowledge
  BY <1>4, XackType DEF Acknowledge
<1>5. CASE Timer
  BY <1>5, TimerType
<1>6. CASE Die
  BY <1>6, DieType
<1>7. CASE Restart
  BY <1>7, StartType DEF Restart
<1>8. CASE BeginPolling
  BY <1>8, BeginType
<1>9. CASE UNCHANGED vars
  BY <1>9 DEF vars, redis, broker, process, TypeOK
<1> QED
  BY <1>1, <1>2, <1>3, <1>4, <1>5, <1>6, <1>7, <1>8, <1>9 DEF Next

(* The streams, the pending lists, the commands, the saved state and the   *)
(* memory of the runtime are what the code says they are, and what is in   *)
(* hand is pending.                                                        *)
THEOREM DispatchTypeOK == Spec => []TypeOK
<1>1. Init => TypeOK
  BY InitType
<1>2. TypeOK /\ [Next]_vars => TypeOK'
  BY NextType
<1> QED
  BY <1>1, <1>2, PTL DEF Spec

-----------------------------------------------------------------------------
(* Recovery.                                                               *)

(* Only a handler publishes commands.                                      *)
LEMMA OnlyHandlersPublish ==
  ASSUME TypeOK, [Next]_vars, ~ Handle
  PROVE  Len(cmds') = Len(cmds)
<1>0. cmds \in Seq(Commands)
  BY DEF TypeOK
<1>1. ASSUME NEW i \in 1 .. Len(cmds), Execute(i) \/ \E status \in Statuses : Answer(i, status)
      PROVE  Len(cmds') = Len(cmds)
  <2>1. \E c : cmds' = [cmds EXCEPT ![i] = c]
    BY <1>1 DEF Execute, Answer
  <2> QED
    BY <1>0, <2>1, LenProperties
<1>2. CASE Environment
  BY <1>1, <1>2 DEF Environment, CloseBar, RepeatBars, Report
<1>3. CASE Timer
  BY <1>3, TimerType
<1>4. CASE Read \/ Acknowledge \/ Die \/ Restart \/ BeginPolling \/ UNCHANGED vars
  BY <1>4 DEF Read, Acknowledge, Xack, Die, Restart, Start, BeginPolling, vars
<1> QED
  BY <1>2, <1>3, <1>4 DEF Next

LEMMA RecoveryStep ==
  ASSUME TypeOK, [Next]_vars, up = "recovering", Len(cmds') > Len(cmds)
  PROVE  hand.acks = {} /\ hand.positions # {}
<1>0. cmds \in Seq(Commands) /\ Len(cmds) \in Nat /\ cmds \o << >> = cmds
  BY LenProperties, ConcatEmptySeq DEF TypeOK
<1>1. Handle
  BY <1>0, OnlyHandlersPublish
<1>2. ASSUME NEW i, HandleAck(i)
      PROVE  FALSE
  BY <1>0, <1>2 DEF HandleAck, Persist
<1>3. ASSUME NEW i, NEW open \in BOOLEAN, NEW ready \in BOOLEAN, HandlePosition(i, open, ready)
      PROVE  hand.acks = {} /\ hand.positions # {}
  BY <1>3 DEF HandlePosition, InHand, IsFirst, Before
<1>4. ASSUME NEW i, NEW blocked \in BOOLEAN, NEW open \in BOOLEAN, NEW ready \in BOOLEAN,
             HandleBar(i, blocked, open, ready)
      PROVE  FALSE
  <2>1. blocked
    BY <1>4 DEF HandleBar
  <2>2. PICK a : Handled(a.strat, a.new) /\ (blocked => a.new = << >>)
    BY <1>4, BarHandled
  <2> QED
    BY <1>0, <2>1, <2>2 DEF Handled
<1>5. ASSUME NEW i, SkipBar(i)
      PROVE  FALSE
  BY <1>0, <1>5 DEF SkipBar
<1> QED
  BY <1>1, <1>2, <1>3, <1>4, <1>5 DEF Handle

(* Bars handled again in the recovery phase publish no command.            *)
THEOREM DispatchRecovery == Spec => NoOrderFromRecoveredBar
<1>1. TypeOK /\ [Next]_vars =>
        [up = "recovering" /\ Len(cmds') > Len(cmds) => hand.acks = {} /\ hand.positions # {}]_vars
  BY RecoveryStep
<1> QED
  BY <1>1, DispatchTypeOK, PTL DEF Spec, NoOrderFromRecoveredBar

-----------------------------------------------------------------------------
(* The invariant: steps that do not call the strategy.                     *)

TheRest == CommandsRight /\ ReportsRight /\ SavedStateKnowsCommands /\ PhaseRight

LEMMA Parts == IInv <=> TypeOK /\ MemoryRight /\ TheRest
  BY DEF IInv, TheRest

(* What the commands and their number say of the portfolio.                *)
LEMMA PortfolioFacts ==
  ASSUME TypeOK, CommandsRight
  PROVE  /\ Len(cmds) \in {0, 1, 2} /\ (cmds = << >> <=> Len(cmds) = 0)
         /\ DOMAIN cmds = 1 .. Len(cmds)
         /\ \A i \in 1 .. Len(cmds) : cmds[i].filled \in 0 .. Qty /\ cmds[i].filled \in Nat
         /\ position \in Int /\ (Len(cmds) <= 1 => position >= 0)
<1>1. cmds \in Seq(Commands) /\ Len(cmds) \in Nat /\ DOMAIN cmds = 1 .. Len(cmds) /\ position \in Int
  BY LenProperties DEF TypeOK
<1>2. Len(cmds) \in {0, 1, 2} /\ (cmds = << >> <=> Len(cmds) = 0)
  BY <1>1, EmptySeq DEF CommandsRight
<1>3. \A i \in 1 .. Len(cmds) : cmds[i].filled \in 0 .. Qty /\ cmds[i].filled \in Nat
  <2>1. ASSUME NEW i \in 1 .. Len(cmds)
        PROVE  cmds[i] \in Commands
    BY <1>1, ElementOfSeq
  <2>2. \A c \in Commands : c.filled \in 0 .. Qty /\ c.filled \in Nat
    BY StrategyAssumption DEF Commands
  <2> QED
    BY <2>1, <2>2
<1>4. Len(cmds) <= 1 => position >= 0
  BY <1>2, <1>3 DEF CommandsRight
<1> QED
  BY <1>1, <1>2, <1>3, <1>4

(* The reports ahead become fewer as the process reads and acknowledges.   *)
LEMMA Unaffected ==
  ASSUME TypeOK, TheRest, UNCHANGED <<cmds, position, trigger>>,
         saved'.strat = saved.strat, log'["positions"] = log["positions"],
         \A j \in DOMAIN log.positions : Ahead(j)' => Ahead(j)
  PROVE  TheRest'
<1>1. CommandsRight'
  BY DEF TheRest, CommandsRight
<1>2. ReportsRight'
  BY DEF TheRest, ReportsRight
<1>3. SavedStateKnowsCommands'
  BY DEF TheRest, SavedStateKnowsCommands
<1>4. PhaseRight'
  BY DEF TheRest, PhaseRight
<1> QED
  BY <1>1, <1>2, <1>3, <1>4 DEF TheRest

LEMMA InitRight ==
  ASSUME Init, Held = 0
  PROVE  IInv
<1>1. TypeOK
  BY InitType
<1>2. /\ cmds = << >> /\ Len(cmds) = 0 /\ position = 0 /\ log.positions = << >>
      /\ saved.strat = Idle /\ mem.strat = Idle /\ mem.pos = 0
  BY DEF Init, Loaded, Fresh
<1>3. MemoryRight
  BY <1>2 DEF MemoryRight, Init
<1>4. CommandsRight /\ ReportsRight
  BY <1>2 DEF CommandsRight, ReportsRight
<1>5. SavedStateKnowsCommands /\ PhaseRight
  BY <1>2 DEF SavedStateKnowsCommands, PhaseRight, Idle
<1> QED
  BY <1>1, <1>3, <1>4, <1>5 DEF IInv

LEMMA BarsRight ==
  ASSUME IInv, TypeOK', CloseBar \/ \E b \in 1 .. clock : RepeatBars(b)
  PROVE  IInv'
<1>1. PICK bars : log' = [log EXCEPT !.bars = bars]
  BY DEF CloseBar, RepeatBars
<1>2. /\ UNCHANGED <<cursor, pending, saved, cmds, position, trigger>>
      /\ UNCHANGED <<up, hand, mem>>
  BY DEF CloseBar, RepeatBars, broker, process
<1>3. log'["positions"] = log["positions"]
  BY <1>1, StreamValues DEF IInv, TypeOK
<1>4. TheRest'
  BY <1>2, <1>3, Unaffected, Parts DEF Ahead
<1>5. MemoryRight'
  BY <1>2 DEF IInv, MemoryRight
<1> QED
  BY <1>4, <1>5, Parts DEF IInv, TheRest

LEMMA ReadRight ==
  ASSUME IInv, TypeOK', Read
  PROVE  IInv'
<1>1. TypeOK /\ MemoryRight /\ TheRest
  BY Parts
<1>2. /\ UNCHANGED <<log, saved, cmds, position, up, trigger>> /\ up # "down" /\ hand = Nothing
      /\ next \in Streams
  BY <1>1, ReadEffect DEF broker
<1>3. pending = Nothing
  BY <1>1, <1>2 DEF MemoryRight
<1>4. mem'.strat = mem.strat /\ mem'.pos = mem.pos /\ hand' = pending'
      /\ \A j \in DOMAIN log.positions : Ahead(j)' => Ahead(j)
  <2>1. CASE UNCHANGED <<cursor, pending, hand, mem>>
    BY <1>2, <1>3, <2>1 DEF Ahead
  <2>2. ASSUME NEW last \in cursor[next] + 1 .. Len(log[next]),
               cursor' = [cursor EXCEPT ![next] = last],
               pending' = [pending EXCEPT ![next] = @ \cup (cursor[next] + 1 .. last)],
               hand' = [hand EXCEPT ![next] = cursor[next] + 1 .. last],
               mem' = [mem EXCEPT !.hasBars = @ \/ next = "bars"]
        PROVE  mem'.strat = mem.strat /\ mem'.pos = mem.pos /\ hand' = pending'
               /\ \A j \in DOMAIN log.positions : Ahead(j)' => Ahead(j)
    <3>1. mem'.strat = mem.strat /\ mem'.pos = mem.pos
      BY <1>1, <2>2, MemoryTypes DEF Memories
    <3>2. hand' = pending'
      BY <1>2, <1>3, <2>2, NothingType
    <3>3. /\ \A s \in Streams : cursor[s] \in Nat /\ Len(log[s]) \in Nat /\ DOMAIN cursor = Streams
          /\ DOMAIN pending = Streams
      BY <1>1, TypeParts, LogLengths DEF LogsRight
    <3>4. \A j \in DOMAIN log.positions : j \in Nat
      <4>1. log.positions \in Seq(Positions)
        BY <1>1 DEF TypeOK
      <4>2. DOMAIN log.positions = 1 .. Len(log.positions)
        BY <4>1, LenProperties
      <4> QED
        BY <4>2
    <3>5. CASE next = "positions"
      <4>1. /\ cursor'["positions"] = last /\ last > cursor["positions"] /\ last \in Nat
            /\ pending'["positions"] = pending["positions"] \cup (cursor["positions"] + 1 .. last)
        BY <1>2, <2>2, <3>3, <3>5
      <4> QED
        BY <3>1, <3>2, <3>3, <3>4, <4>1, StreamValues DEF Ahead
    <3>6. CASE next # "positions"
      <4>1. cursor'["positions"] = cursor["positions"] /\ pending'["positions"] = pending["positions"]
        BY <2>2, <3>3, <3>6, StreamValues
      <4> QED
        BY <3>1, <3>2, <4>1 DEF Ahead
    <3> QED
      BY <3>5, <3>6
  <2> QED
    BY <1>1, <2>1, <2>2, ReadEffect
<1>5. TheRest'
  BY <1>1, <1>2, <1>4, Unaffected
<1>6. MemoryRight'
  BY <1>1, <1>2, <1>4 DEF MemoryRight
<1> QED
  BY <1>5, <1>6 DEF IInv, TheRest

(* The end of a handler, and the steps between the polls.                  *)
LEMMA LoopRight ==
  ASSUME IInv, TypeOK', Acknowledge \/ Timer \/ BeginPolling \/ (\E i : SkipBar(i)) \/ UNCHANGED vars
  PROVE  IInv'
<1>1. TypeOK /\ MemoryRight /\ TheRest
  BY Parts
<1>2. CASE Acknowledge
  <2>1. PICK stream \in Streams : \E i : Xack(stream, i)
    BY <1>2 DEF Acknowledge
  <2>2. PICK i : /\ UNCHANGED <<log, cursor, saved, cmds, position, up, mem, trigger>>
                 /\ up # "down"
                 /\ pending' = [pending EXCEPT ![stream] = @ \ {i}]
                 /\ hand' = [hand EXCEPT ![stream] = @ \ {i}]
    BY <2>1 DEF Xack, broker
  <2>3. \A j : Ahead(j)' => Ahead(j)
    BY <1>1, <2>2, StreamValues DEF Ahead, TypeOK
  <2>4. TheRest'
    BY <1>1, <2>2, <2>3, Unaffected
  <2>5. MemoryRight'
    BY <1>1, <2>2 DEF MemoryRight
  <2> QED
    BY <2>4, <2>5 DEF IInv, TheRest
<1>3. CASE Timer
  <2>1. /\ saved'.strat = mem.strat /\ UNCHANGED <<cmds, log, cursor, pending, position, up, hand, mem, trigger>>
        /\ up # "down"
    BY <1>1, <1>3, TimerType DEF Timer, broker
  <2>2. saved'.strat = saved.strat
    BY <1>1, <2>1 DEF MemoryRight
  <2>3. TheRest'
    BY <1>1, <2>1, <2>2, Unaffected DEF Ahead
  <2>4. MemoryRight'
    BY <1>1, <2>1, <2>2 DEF MemoryRight
  <2> QED
    BY <2>3, <2>4 DEF IInv, TheRest
<1>4. CASE BeginPolling \/ (\E i : SkipBar(i)) \/ UNCHANGED vars
  <2>1. /\ UNCHANGED <<log, cursor, pending, saved, cmds, position, hand, mem, trigger>>
        /\ up' # "down" => up # "down"
    BY <1>4 DEF BeginPolling, SkipBar, vars, redis, broker, process
  <2>2. TheRest'
    BY <1>1, <2>1, Unaffected DEF Ahead
  <2>3. MemoryRight'
    BY <1>1, <2>1 DEF MemoryRight
  <2> QED
    BY <2>2, <2>3 DEF IInv, TheRest
<1> QED
  BY <1>2, <1>3, <1>4

-----------------------------------------------------------------------------
(* The invariant: broker and gateway.                                      *)

(* A lot is bought before the exit is published, and sold after it.        *)
LEMMA ExecuteRight ==
  ASSUME IInv, TypeOK', NEW i \in 1 .. Len(cmds), Execute(i)
  PROVE  IInv'
<1>1. TypeOK /\ MemoryRight /\ TheRest
  BY Parts
<1>2. /\ Len(cmds) \in {1, 2} /\ DOMAIN cmds = 1 .. Len(cmds) /\ cmds # << >>
      /\ \A k \in 1 .. Len(cmds) : cmds[k].filled \in Nat /\ cmds[k] \in Commands
      /\ position \in Int /\ (Len(cmds) <= 1 => position >= 0)
  <2>1. cmds \in Seq(Commands)
    BY <1>1 DEF TypeOK
  <2>2. \A k \in 1 .. Len(cmds) : cmds[k] \in Commands
    BY <2>1, ElementOfSeq
  <2> QED
    BY <1>1, <2>2, PortfolioFacts DEF TheRest
<1>3. /\ UNCHANGED <<log, cursor, pending, saved, up, hand, mem, trigger>>
      /\ cmds' = [cmds EXCEPT ![i] = [cmds[i] EXCEPT !.filled = cmds[i].filled + 1]]
      /\ position' = IF cmds[i].side = "buy" THEN position + 1 ELSE position - 1
  BY DEF Execute, redis, process
<1>4. /\ Len(cmds') = Len(cmds) /\ cmds' # << >> /\ DOMAIN cmds' = DOMAIN cmds
  BY <1>2, <1>3, <1>1, LenProperties DEF TypeOK
<1>5. /\ cmds'[i].filled = cmds[i].filled + 1 /\ cmds'[i].side = cmds[i].side
      /\ \A k \in 1 .. Len(cmds) : k # i => cmds'[k] = cmds[k]
  <2>1. cmds'[i] = [cmds[i] EXCEPT !.filled = cmds[i].filled + 1]
    BY <1>2, <1>3
  <2> QED
    BY <1>2, <1>3, <2>1 DEF Commands
<1>6. MemoryRight'
  BY <1>1, <1>2, <1>3, <1>4 DEF MemoryRight
<1>7. CASE Len(cmds) = 1
  <2>1. i = 1 /\ cmds[1].side = "buy" /\ position = cmds[1].filled
    BY <1>1, <1>7 DEF TheRest, CommandsRight
  <2>2. position' = position + 1
    BY <1>3, <2>1
  <2>3. CommandsRight'
    BY <1>2, <1>4, <1>5, <1>7, <2>1, <2>2 DEF CommandsRight
  <2>4. ReportsRight'
    <3>1. \A q \in 0 .. position : q \in 0 .. position + 1
      BY <1>2
    <3> QED
      BY <1>1, <1>3, <1>7, <2>2, <3>1 DEF TheRest, ReportsRight
  <2>5. SavedStateKnowsCommands'
    BY <1>1, <1>3, <1>4, <1>2 DEF TheRest, SavedStateKnowsCommands
  <2>6. PhaseRight'
    BY <1>1, <1>2, <1>3, <1>4, <1>7, <2>2 DEF TheRest, PhaseRight, Ahead
  <2> QED
    BY <1>6, <2>3, <2>4, <2>5, <2>6 DEF IInv
<1>8. CASE Len(cmds) = 2
  <2>1. /\ cmds[1].side = "buy" /\ cmds[2].side = "sell" /\ cmds[1].filled > 0
        /\ position = cmds[1].filled - cmds[2].filled
    BY <1>1, <1>8 DEF TheRest, CommandsRight
  <2>2. i = 1 \/ i = 2
    BY <1>8
  <2>3. CommandsRight'
    <3>1. CASE i = 1
      <4>1. /\ position' = position + 1 /\ cmds'[1].filled = cmds[1].filled + 1
            /\ cmds'[1].side = "buy" /\ cmds'[2] = cmds[2]
        BY <1>3, <1>5, <1>8, <2>1, <3>1
      <4>2. cmds[1].filled \in Nat /\ cmds[2].filled \in Nat
        BY <1>2, <1>8
      <4> QED
        BY <1>4, <1>8, <2>1, <4>1, <4>2 DEF CommandsRight
    <3>2. CASE i = 2
      <4>1. /\ position' = position - 1 /\ cmds'[2].filled = cmds[2].filled + 1
            /\ cmds'[2].side = "sell" /\ cmds'[1] = cmds[1]
        BY <1>3, <1>5, <1>8, <2>1, <3>2
      <4>2. cmds[1].filled \in Nat /\ cmds[2].filled \in Nat
        BY <1>2, <1>8
      <4> QED
        BY <1>4, <1>8, <2>1, <4>1, <4>2 DEF CommandsRight
    <3> QED
      BY <2>2, <3>1, <3>2
  <2>4. ReportsRight'
    BY <1>4, <1>8 DEF ReportsRight
  <2>5. SavedStateKnowsCommands'
    BY <1>1, <1>3, <1>4, <1>2 DEF TheRest, SavedStateKnowsCommands
  <2>6. PhaseRight'
    BY <1>1, <1>3, <1>4, <1>8 DEF TheRest, PhaseRight
  <2> QED
    BY <1>6, <2>3, <2>4, <2>5, <2>6 DEF IInv
<1> QED
  BY <1>2, <1>7, <1>8

LEMMA AnswerRight ==
  ASSUME IInv, TypeOK', NEW i \in 1 .. Len(cmds), NEW status \in Statuses, Answer(i, status)
  PROVE  IInv'
<1>1. TypeOK /\ MemoryRight /\ TheRest
  BY Parts
<1>2. cmds \in Seq(Commands) /\ Len(cmds) \in Nat /\ DOMAIN cmds = 1 .. Len(cmds)
  BY <1>1, LenProperties DEF TypeOK
<1>3. /\ UNCHANGED <<cursor, pending, saved, position, up, hand, mem, trigger>>
      /\ cmds' = [cmds EXCEPT ![i] = [cmds[i] EXCEPT !.answer = status]]
      /\ log'["positions"] = log["positions"]
  BY <1>1, StreamValues DEF Answer, broker, process, TypeOK
<1>4. Len(cmds') = Len(cmds) /\ (cmds' = << >> <=> cmds = << >>)
  BY <1>2, <1>3, LenProperties, EmptySeq DEF TypeOK
<1>5. \A k \in 1 .. Len(cmds) : cmds'[k].filled = cmds[k].filled /\ cmds'[k].side = cmds[k].side
  <2> SUFFICES ASSUME NEW k \in 1 .. Len(cmds)
               PROVE  cmds'[k].filled = cmds[k].filled /\ cmds'[k].side = cmds[k].side
    OBVIOUS
  <2>1. cmds[k] \in Commands
    BY <1>2, ElementOfSeq
  <2>2. cmds'[k] = cmds[k] \/ cmds'[k] = [cmds[k] EXCEPT !.answer = status]
    BY <1>2, <1>3
  <2> QED
    BY <2>1, <2>2 DEF Commands
<1>6. CommandsRight'
  BY <1>1, <1>2, <1>3, <1>4, <1>5 DEF TheRest, CommandsRight
<1>7. ReportsRight' /\ SavedStateKnowsCommands' /\ PhaseRight' /\ MemoryRight'
  <2>1. ReportsRight'
    BY <1>1, <1>3, <1>4 DEF TheRest, ReportsRight
  <2>2. SavedStateKnowsCommands'
    BY <1>1, <1>3, <1>4 DEF TheRest, SavedStateKnowsCommands
  <2>3. PhaseRight'
    BY <1>1, <1>3, <1>4 DEF TheRest, PhaseRight, Ahead
  <2>4. MemoryRight'
    BY <1>1, <1>3, <1>4 DEF MemoryRight
  <2> QED
    BY <2>1, <2>2, <2>3, <2>4
<1> QED
  BY <1>6, <1>7 DEF IInv

(* A report of now is the last one, and not behind any other.              *)
LEMMA ReportRight ==
  ASSUME IInv, TypeOK', NEW ts, Report(ts)
  PROVE  IInv'
<1>1. TypeOK /\ MemoryRight /\ TheRest
  BY Parts
<1>2. PICK n \in Nat : n = Len(log.positions)
  BY <1>1, LenProperties DEF TypeOK
<1>3. /\ UNCHANGED <<cursor, pending, saved, cmds, position, up, hand, mem, trigger>>
      /\ log'.positions = Append(log.positions, [qty |-> position, ts |-> ts])
  BY <1>1, StreamValues DEF Report, broker, process, TypeOK
<1>4. /\ DOMAIN log.positions = 1 .. n /\ DOMAIN log'.positions = 1 .. n + 1
      /\ \A j \in 1 .. n : log'.positions[j] = log.positions[j]
      /\ log'.positions[n + 1].qty = position
  <2>1. log.positions \in Seq(Positions) /\ [qty |-> position, ts |-> ts] \in {[qty |-> position, ts |-> ts]}
    BY <1>1 DEF TypeOK
  <2>2. log'.positions \in Seq(Positions)
    BY DEF TypeOK
  <2>3. DOMAIN log.positions = 1 .. n /\ DOMAIN log'.positions = 1 .. Len(log'.positions)
    BY <1>2, <2>1, <2>2, LenProperties
  <2> QED
    BY <1>2, <1>3, <2>1, <2>3
<1>5. ReportsRight'
  <2> SUFFICES ASSUME Len(cmds) <= 1, NEW j \in 1 .. n + 1
               PROVE  /\ log'.positions[j].qty \in 0 .. position
                      /\ \A k \in 1 .. j : log'.positions[k].qty <= log'.positions[j].qty
    BY <1>3, <1>4 DEF ReportsRight
  <2>1. \A k \in 1 .. n : /\ log.positions[k].qty \in 0 .. position
                          /\ \A l \in 1 .. k : log.positions[l].qty <= log.positions[k].qty
    BY <1>1, <1>4 DEF TheRest, ReportsRight
  <2>2. position \in Int /\ position >= 0
    BY <1>1, PortfolioFacts DEF TheRest
  <2>3. CASE j \in 1 .. n
    BY SMTT(30), <1>2, <1>4, <2>1, <2>3
  <2>4. CASE j = n + 1
    <3>1. \A k \in 1 .. j : k \in 1 .. n \/ k = n + 1
      BY <1>2, <2>4
    <3> QED
      BY <1>4, <2>1, <2>2, <2>4, <3>1
  <2> QED
    BY <1>2, <2>3, <2>4
<1>6. PhaseRight'
  <2>1. \A j \in 1 .. n + 1 : j \in 1 .. n \/ j = n + 1
    BY <1>2
  <2>2. \A j : Ahead(j)' <=> Ahead(j)
    BY <1>3 DEF Ahead
  <2> QED
    BY <1>1, <1>3, <1>4, <2>1, <2>2 DEF TheRest, PhaseRight
<1>7. CommandsRight' /\ SavedStateKnowsCommands' /\ MemoryRight'
  BY <1>1, <1>3 DEF TheRest, CommandsRight, SavedStateKnowsCommands, MemoryRight
<1> QED
  BY <1>5, <1>6, <1>7 DEF IInv

-----------------------------------------------------------------------------
(* The invariant: crash and restart.                                       *)

LEMMA DieRight ==
  ASSUME IInv, TypeOK', Die
  PROVE  IInv'
<1>1. UNCHANGED <<log, cursor, pending, saved, cmds, position, trigger>> /\ up' = "down"
  BY DEF Die, redis, broker
<1>2. TheRest'
  BY <1>1, Parts, Unaffected DEF Ahead
<1> QED
  BY <1>1, <1>2 DEF IInv, TheRest, MemoryRight

(* The restart claims what is pending, loads the saved state, and knows of *)
(* no position when nothing was published.                                 *)
LEMMA StartRight ==
  ASSUME IInv, TypeOK', Held = 0, ~ FastRestarts,
         NEW p \in {LastReported, position}, NEW claimed \in Claims, Start(p, claimed)
  PROVE  IInv'
<1>1. TypeOK /\ MemoryRight /\ TheRest
  BY Parts
<1>2. /\ UNCHANGED <<log, cursor, pending, saved, cmds, position, trigger>>
      /\ hand' = pending /\ mem'.strat = saved.strat /\ mem'.pos = p
  BY DEF Start, Claims, Loaded, redis, broker
<1>3. TheRest'
  BY <1>1, <1>2, Unaffected DEF Ahead
<1>4. cmds = << >> => p = 0
  <2> SUFFICES ASSUME cmds = << >>
               PROVE  p = 0
    OBVIOUS
  <2>1. position = 0 /\ Len(cmds) <= 1
    BY <1>1 DEF TheRest, CommandsRight
  <2>2. CASE log.positions = << >>
    BY <2>1, <2>2 DEF LastReported
  <2>3. CASE log.positions # << >>
    <3>1. Len(log.positions) \in DOMAIN log.positions
      <4>1. log.positions \in Seq(Positions)
        BY <1>1 DEF TypeOK
      <4> QED
        BY <2>3, <4>1, EmptySeq, LenProperties
    <3>2. log.positions[Len(log.positions)].qty \in 0 .. 0
      BY <1>1, <2>1, <3>1 DEF TheRest, ReportsRight
    <3> QED
      BY <2>1, <2>3, <3>2 DEF LastReported
  <2> QED
    BY <2>2, <2>3
<1>5. MemoryRight'
  BY <1>2, <1>4 DEF MemoryRight
<1> QED
  BY <1>3, <1>5 DEF IInv, TheRest

-----------------------------------------------------------------------------
(* The invariant: the handlers.                                            *)

(* What the callback makes of the saved state when a command is published, *)
(* and what it may make of it when none is.                                *)
EntrySent(s, new) ==
  /\ saved.strat.phase = "Idle" /\ s.phase = "PendingEntry" /\ s.baseline = mem.pos
  /\ \E c \in Commands : new = <<c>> /\ c.side = "buy" /\ c.filled = 0

ExitSent(s, new) ==
  /\ saved.strat.phase = "InPosition" /\ s.phase = "PendingExit" /\ s.baseline = saved.strat.baseline
  /\ \E c \in Commands : new = <<c>> /\ c.side = "sell" /\ c.filled = 0

PhaseKept(s) ==
  \/ s = Blocked
  \/ /\ s.phase = saved.strat.phase
     /\ s.phase \in {"PendingEntry", "InPosition", "PendingExit"} => s.baseline = saved.strat.baseline

LostRefusal(s) ==
  /\ trigger = "position_update"
  /\ saved.strat.phase = "InPosition" /\ s.phase = "PendingExit" /\ s.baseline = saved.strat.baseline

LEMMA NewCommandType ==
  ASSUME NEW created \in Nat, NEW side \in Sides
  PROVE  /\ NewCommand(created, side) \in Commands
         /\ NewCommand(created, side).side = side /\ NewCommand(created, side).filled = 0
  BY StrategyAssumption
     DEF NewCommand, Commands, CommandId, LiveRequestId, RequestIds, Sides, Statuses

(* An order to buy from an empty portfolio is an entry.                    *)
LEMMA BuyIsEntry == mem.pos = 0 => IntentClass("buy", mem.pos) = "Entry"
  BY DEF IntentClass

(* The result of an idle strategy or of one with a position, after         *)
(* apply_intents.                                                          *)
LEMMA EntryApplied ==
  ASSUME IInv, up # "down", NEW ctx, ctx.pos = mem.pos, NEW r, Entering(mem.strat, ctx, r),
         NEW created \in Nat, NEW lastBar, NEW open, NEW ready,
         NEW a, a = ApplyIntents(mem.strat, r, created, lastBar, open, ready)
  PROVE  EntrySent(a.strat, a.new) \/ (a.new = << >> /\ a.strat = saved.strat)
<1>1. TypeOK /\ MemoryRight /\ TheRest
  BY Parts
<1>2. mem.strat = saved.strat /\ mem.strat \in StrategyStates /\ mem.pos = 0
  BY <1>1, MemoryTypes DEF MemoryRight, TheRest, SavedStateKnowsCommands, Entering
<1>3. r.order = "buy" /\ r.state \in StrategyStates /\ r.order \in Sides \cup {"none"}
  BY DEF Entering, Sides
<1>4. IntentClass(r.order, mem.pos) # "Exit"
  BY <1>2, <1>3, BuyIsEntry
<1>5. \/ a.strat = mem.strat /\ a.new = << >>
      \/ a.strat = r.state /\ a.new = <<NewCommand(created, "buy")>>
  BY <1>2, <1>3, <1>4, ApplyEffect
<1>6. "buy" \in Sides
  BY DEF Sides
<1> QED
  BY <1>2, <1>5, <1>6, NewCommandType DEF EntrySent, Entering

LEMMA ExitApplied ==
  ASSUME IInv, up # "down", NEW ctx, NEW r, Leaving(mem.strat, ctx, r),
         NEW created \in Nat, NEW lastBar, NEW open, NEW ready,
         NEW a, a = ApplyIntents(mem.strat, r, created, lastBar, open, ready)
  PROVE  \/ ExitSent(a.strat, a.new)
         \/ a.new = << >> /\ a.strat = saved.strat
         \/ a.new = << >> /\ a.strat = OnAck(r.state, CommandId(created, "sell"), "Rejected")
<1>1. TypeOK /\ MemoryRight /\ TheRest
  BY Parts
<1>2. mem.strat = saved.strat /\ mem.strat \in StrategyStates
  BY <1>1, MemoryTypes DEF MemoryRight
<1>3. r.order = "sell" /\ r.state \in StrategyStates /\ r.order \in Sides \cup {"none"}
  BY DEF Leaving, Sides
<1>4. \/ a.strat = mem.strat /\ a.new = << >>
      \/ a.strat = OnAck(r.state, CommandId(created, "sell"), "Rejected") /\ a.new = << >>
      \/ a.strat = r.state /\ a.new = <<NewCommand(created, "sell")>>
  BY <1>2, <1>3, ApplyEffect
<1>5. "sell" \in Sides
  BY DEF Sides
<1> QED
  BY <1>2, <1>4, <1>5, NewCommandType DEF ExitSent, Leaving

(* The three handlers.                                                     *)
LEMMA AckOutcome ==
  ASSUME IInv, NEW i, HandleAck(i)
  PROVE  \E s : Handled(s, << >>) /\ PhaseKept(s) /\ mem'.pos = mem.pos
<1>1. TypeOK /\ MemoryRight /\ up # "down"
  BY Parts DEF HandleAck, InHand
<1>2. PICK s : s = OnAck(mem.strat, log.acks[i].req, log.acks[i].status)
  OBVIOUS
<1>3. mem.strat = saved.strat /\ mem.strat \in StrategyStates
  BY <1>1, MemoryTypes DEF MemoryRight
<1>4. PhaseKept(s)
  BY <1>2, <1>3, OnAckEffect DEF PhaseKept, Waiting
<1> QED
  BY <1>1, <1>2, <1>4, AckHandled

LEMMA BarOutcome ==
  ASSUME IInv, NEW i, NEW blocked \in BOOLEAN, NEW open \in BOOLEAN, NEW ready \in BOOLEAN,
         HandleBar(i, blocked, open, ready)
  PROVE  \E s, new : /\ Handled(s, new) /\ mem'.pos = mem.pos
                     /\ EntrySent(s, new) \/ ExitSent(s, new) \/ (new = << >> /\ PhaseKept(s))
<1>1. TypeOK /\ MemoryRight /\ up # "down"
  BY Parts DEF HandleBar, InHand
<1>2. mem.strat = saved.strat /\ mem.strat \in StrategyStates
  BY <1>1, MemoryTypes DEF MemoryRight
<1>3. PICK ts \in Nat, created \in Nat : \E r, a :
        /\ r = IF blocked THEN Stay(mem.strat) ELSE OnBar(mem.strat, mem.mark, Context(created), ts)
        /\ a = ApplyIntents(mem.strat, r, created, ts, open, ready)
        /\ Handled(a.strat, a.new) /\ mem'.pos = mem.pos
  BY <1>1, BarHandled
<1>4. PICK r, a :
        /\ r = IF blocked THEN Stay(mem.strat) ELSE OnBar(mem.strat, mem.mark, Context(created), ts)
        /\ a = ApplyIntents(mem.strat, r, created, ts, open, ready)
        /\ Handled(a.strat, a.new) /\ mem'.pos = mem.pos
  BY <1>3
<1>5. Context(created) \in Contexts /\ Context(created).pos = mem.pos /\ Context(created).event = created
  BY <1>1, MemoryTypes DEF Context
<1>6. \/ r.order = "none" /\ r.state \in {mem.strat, Blocked}
      \/ Entering(mem.strat, Context(created), r)
      \/ Leaving(mem.strat, Context(created), r)
  <2>1. CASE blocked
    BY <1>4, <2>1 DEF Stay, Then
  <2>2. CASE ~ blocked
    BY <1>2, <1>4, <1>5, <2>2, OnBarEffect
  <2> QED
    BY <2>1, <2>2
<1>7. CASE r.order = "none" /\ r.state \in {mem.strat, Blocked}
  <2>1. a.strat = r.state /\ a.new = << >>
    BY <1>4, <1>7 DEF ApplyIntents
  <2>2. PhaseKept(a.strat)
    BY <1>2, <1>7, <2>1 DEF PhaseKept
  <2> QED
    BY <1>4, <2>1, <2>2
<1>8. CASE Entering(mem.strat, Context(created), r)
  <2>1. EntrySent(a.strat, a.new) \/ (a.new = << >> /\ a.strat = saved.strat)
    BY <1>1, <1>4, <1>5, <1>8, EntryApplied
  <2> QED
    BY <1>4, <2>1 DEF PhaseKept
<1>9. CASE Leaving(mem.strat, Context(created), r)
  <2>1. \/ ExitSent(a.strat, a.new)
        \/ a.new = << >> /\ a.strat = saved.strat
        \/ a.new = << >> /\ a.strat = OnAck(r.state, CommandId(created, "sell"), "Rejected")
    BY <1>1, <1>4, <1>9, ExitApplied
  <2>2. OnAck(r.state, CommandId(created, "sell"), "Rejected") = Blocked
    BY <1>5, <1>9 DEF Leaving, CommandId, OnAck, Waiting
  <2> QED
    BY <1>4, <2>1, <2>2 DEF PhaseKept
<1> QED
  BY <1>6, <1>7, <1>8, <1>9

LEMMA PositionOutcome ==
  ASSUME IInv, NEW i, NEW open, NEW ready, HandlePosition(i, open, ready)
  PROVE  LET qty == log.positions[i].qty
         IN  \E s, new :
               /\ Handled(s, new) /\ mem'.pos = qty
               /\ \/ ExitSent(s, new)
                  \/ new = << >> /\ (PhaseKept(s) \/ Corrected(saved.strat, qty, s) \/ LostRefusal(s))
<1>1. TypeOK /\ MemoryRight /\ up # "down"
  BY Parts DEF HandlePosition, InHand
<1>2. mem.strat = saved.strat /\ mem.strat \in StrategyStates
  BY <1>1, MemoryTypes DEF MemoryRight
<1>3. PICK e \in Positions, created \in Nat : \E r, a :
        /\ e = log.positions[i]
        /\ r = OnPosition(mem.strat, Context(e.ts), e.qty, e.ts)
        /\ a = ApplyIntents(mem.strat, r, created, mem.lastBar, open, ready)
        /\ Handled(a.strat, a.new) /\ mem'.pos = e.qty
  BY <1>1, PositionHandled
<1>4. PICK r, a :
        /\ e = log.positions[i]
        /\ r = OnPosition(mem.strat, Context(e.ts), e.qty, e.ts)
        /\ a = ApplyIntents(mem.strat, r, created, mem.lastBar, open, ready)
        /\ Handled(a.strat, a.new) /\ mem'.pos = e.qty
  BY <1>3
<1>5. /\ Context(e.ts) \in Contexts /\ Context(e.ts).trigger = trigger
      /\ e.ts \in Nat /\ e.qty \in Int
  BY <1>1, MemoryTypes DEF Context, Positions
<1>6. \/ r.order = "none" /\ r.state \in StrategyStates
         /\ (r.state = mem.strat \/ Corrected(mem.strat, e.qty, r.state))
      \/ Leaving(mem.strat, Context(e.ts), r) /\ trigger = "position_update"
  BY <1>2, <1>4, <1>5, OnPositionEffect
<1>7. CASE /\ r.order = "none"
           /\ r.state = mem.strat \/ Corrected(mem.strat, e.qty, r.state)
  <2>1. a.strat = r.state /\ a.new = << >>
    BY <1>4, <1>7 DEF ApplyIntents
  <2>2. PhaseKept(a.strat) \/ Corrected(saved.strat, e.qty, a.strat)
    BY <1>2, <1>7, <2>1 DEF PhaseKept
  <2> QED
    BY <1>4, <2>1, <2>2
<1>8. CASE Leaving(mem.strat, Context(e.ts), r) /\ trigger = "position_update"
  <2>1. \/ ExitSent(a.strat, a.new)
        \/ a.new = << >> /\ a.strat = saved.strat
        \/ a.new = << >> /\ a.strat = OnAck(r.state, CommandId(created, "sell"), "Rejected")
    BY <1>1, <1>4, <1>8, ExitApplied
  <2>2. PICK t : t = OnAck(r.state, CommandId(created, "sell"), "Rejected")
    OBVIOUS
  <2>3. t = Blocked \/ (t.phase = "PendingExit" /\ t.baseline = saved.strat.baseline)
    <3>1. r.state \in StrategyStates /\ r.state.phase = "PendingExit" /\ r.state.baseline = saved.strat.baseline
      BY <1>2, <1>8 DEF Leaving
    <3> QED
      BY <2>2, <3>1, OnAckEffect DEF Waiting
  <2>4. saved.strat.phase = "InPosition"
    BY <1>2, <1>8 DEF Leaving
  <2> QED
    BY <1>4, <1>8, <2>1, <2>2, <2>3, <2>4 DEF PhaseKept, LostRefusal
<1> QED
  BY <1>6, <1>7, <1>8

(* What one kind of outcome does to the invariant.                         *)
LEMMA HandledMemory ==
  ASSUME IInv, NEW s, NEW new, Handled(s, new), cmds' = << >> => mem'.pos = 0
  PROVE  /\ TypeOK' /\ MemoryRight'
         /\ UNCHANGED <<log, cursor, pending, position, trigger>> /\ saved'.strat = s
         /\ cmds \in Seq(Commands)
<1>1. TypeOK /\ MemoryRight
  BY Parts
<1>2. TypeOK'
  BY <1>1, HandledType
<1>3. MemoryRight'
  BY <1>1 DEF MemoryRight, Handled
<1> QED
  BY <1>1, <1>2, <1>3 DEF Handled, broker, TypeOK

LEMMA KeptRight ==
  ASSUME IInv, NEW s, Handled(s, << >>), cmds' = << >> => mem'.pos = 0, PhaseKept(s)
  PROVE  IInv'
<1>1. TypeOK /\ TheRest
  BY Parts
<1>2. /\ TypeOK' /\ MemoryRight' /\ cmds \in Seq(Commands)
      /\ UNCHANGED <<log, cursor, pending, position, trigger>> /\ saved'.strat = s
  BY HandledMemory
<1>3. cmds' = cmds
  BY <1>2, ConcatEmptySeq DEF Handled
<1>4. CommandsRight' /\ ReportsRight'
  BY <1>1, <1>2, <1>3 DEF TheRest, CommandsRight, ReportsRight
<1>5. SavedStateKnowsCommands'
  BY <1>1, <1>2, <1>3 DEF TheRest, SavedStateKnowsCommands, PhaseKept, Blocked
<1>6. PhaseRight'
  BY <1>1, <1>2, <1>3 DEF TheRest, PhaseRight, PhaseKept, Blocked, Ahead
<1> QED
  BY <1>2, <1>4, <1>5, <1>6 DEF IInv

(* An entry is the first command.                                          *)
LEMMA EntryRight ==
  ASSUME IInv, NEW s, NEW new, Handled(s, new), EntrySent(s, new), mem'.pos = mem.pos
  PROVE  IInv'
<1>1. TypeOK /\ MemoryRight /\ TheRest
  BY Parts
<1>2. /\ cmds = << >> /\ position = 0 /\ mem.pos = 0
  BY <1>1 DEF TheRest, SavedStateKnowsCommands, EntrySent, CommandsRight, MemoryRight, Handled
<1>3. /\ TypeOK' /\ MemoryRight' /\ cmds \in Seq(Commands)
      /\ UNCHANGED <<log, cursor, pending, position, trigger>> /\ saved'.strat = s
  BY <1>2, HandledMemory
<1>4. PICK c \in Commands : new = <<c>> /\ c.side = "buy" /\ c.filled = 0
  BY DEF EntrySent
<1>5. cmds' = <<c>>
  BY <1>2, <1>4 DEF Handled
<1>6. Len(cmds') = 1 /\ cmds'[1] = c /\ cmds' # << >>
  BY <1>5
<1>7. CommandsRight'
  BY <1>2, <1>3, <1>4, <1>6 DEF CommandsRight
<1>8. ReportsRight'
  BY <1>1, <1>2, <1>3 DEF TheRest, ReportsRight
<1>9. SavedStateKnowsCommands' /\ PhaseRight'
  BY <1>2, <1>3, <1>6 DEF SavedStateKnowsCommands, PhaseRight, EntrySent
<1> QED
  BY <1>3, <1>7, <1>8, <1>9 DEF IInv

(* An exit is the second, for a position that is there.                    *)
LEMMA ExitRight ==
  ASSUME IInv, NEW s, NEW new, Handled(s, new), ExitSent(s, new)
  PROVE  IInv'
<1>1. TypeOK /\ TheRest
  BY Parts
<1>2. /\ Len(cmds) = 1 /\ position > 0 /\ cmds[1].side = "buy" /\ position = cmds[1].filled
      /\ saved.strat.baseline = 0
  BY <1>1 DEF TheRest, SavedStateKnowsCommands, ExitSent, CommandsRight, PhaseRight
<1>3. PICK c \in Commands : new = <<c>> /\ c.side = "sell" /\ c.filled = 0
  BY DEF ExitSent
<1>4. cmds \in Seq(Commands) /\ cmds' = cmds \o <<c>> /\ <<c>> \in Seq(Commands)
  BY <1>1, <1>3 DEF Handled, TypeOK
<1>5. Len(cmds') = 2 /\ cmds'[1] = cmds[1] /\ cmds'[2] = c /\ cmds' # << >>
  <2>1. Len(<<c>>) = 1 /\ <<c>>[1] = c
    OBVIOUS
  <2>2. /\ Len(cmds') = Len(cmds) + Len(<<c>>) /\ DOMAIN cmds' = 1 .. Len(cmds')
        /\ \A k \in 1 .. Len(cmds') :
             cmds'[k] = IF k <= Len(cmds) THEN cmds[k] ELSE <<c>>[k - Len(cmds)]
    BY <1>4, ConcatProperties, LenProperties
  <2>3. cmds' # << >>
    BY <1>2, <2>1, <2>2
  <2> QED
    BY <1>2, <2>1, <2>2, <2>3
<1>6. /\ TypeOK' /\ MemoryRight'
      /\ UNCHANGED <<log, cursor, pending, position, trigger>> /\ saved'.strat = s
  BY <1>5, HandledMemory
<1>7. position \in Int
  BY <1>1 DEF TypeOK
<1>8. CommandsRight'
  BY <1>2, <1>3, <1>5, <1>6, <1>7 DEF CommandsRight
<1>9. ReportsRight'
  BY <1>5 DEF ReportsRight
<1>10. SavedStateKnowsCommands' /\ PhaseRight'
  BY <1>2, <1>5, <1>6 DEF SavedStateKnowsCommands, PhaseRight, ExitSent
<1> QED
  BY <1>6, <1>8, <1>9, <1>10 DEF IInv

(* The first report in hand says no more than the later ones.              *)
LEMMA LaterReports ==
  ASSUME IInv, up # "down", NEW i, IsFirst("positions", i), Len(cmds) <= 1,
         log.positions[i].qty # 0
  PROVE  /\ position > 0
         /\ \A j \in DOMAIN log.positions : Ahead(j) => log.positions[j].qty > 0
<1>1. TypeOK /\ MemoryRight /\ TheRest
  BY Parts
<1>2. log.positions \in Seq(Positions) /\ position \in Int /\ cursor["positions"] \in Nat
      /\ DOMAIN log.positions = 1 .. Len(log.positions)
  <2>1. log.positions \in Seq(Positions) /\ position \in Int
    BY <1>1 DEF TypeOK
  <2>2. cursor["positions"] \in 0 .. Len(log["positions"])
    BY <1>1, StreamValues DEF TypeOK
  <2> QED
    BY <2>1, <2>2, LenProperties
<1>3. i \in DOMAIN log.positions /\ i \in pending["positions"] /\ i \in Nat
  BY <1>1, StreamValues, EntryTypes
<1>4. log.positions[i].qty \in 0 .. position /\ log.positions[i].qty > 0 /\ position > 0
  <2>1. log.positions[i].qty \in 0 .. position
    BY <1>1, <1>3 DEF TheRest, ReportsRight
  <2> QED
    BY <1>2, <2>1
<1>5. ASSUME NEW j \in DOMAIN log.positions, Ahead(j)
      PROVE  log.positions[j].qty > 0
  <2>1. i <= j
    <3>1. CASE j \in pending["positions"]
      BY <1>1, <3>1 DEF MemoryRight, IsFirst
    <3>2. CASE j > cursor["positions"]
      <4>1. i <= cursor["positions"]
        <5>1. pending["positions"] \subseteq 1 .. cursor["positions"]
          BY <1>1, StreamValues DEF TypeOK
        <5> QED
          BY <1>3, <5>1
      <4> QED
        BY <1>2, <1>3, <1>5, <3>2, <4>1
    <3> QED
      BY <1>5, <3>1, <3>2 DEF Ahead
  <2>2. i \in 1 .. j /\ log.positions[j].qty \in 0 .. position
    BY <1>1, <1>2, <1>3, <1>5, <2>1 DEF TheRest, ReportsRight
  <2>3. log.positions[i].qty <= log.positions[j].qty
    BY <1>1, <1>5, <2>2 DEF TheRest, ReportsRight
  <2> QED
    BY <1>2, <1>4, <2>2, <2>3
<1> QED
  BY <1>4, <1>5

(* A report confirms the entry, or the exit after it; nothing else.        *)
LEMMA CorrectedRight ==
  ASSUME IInv, NEW s, Handled(s, << >>), NEW i, IsFirst("positions", i),
         cmds' = << >> => mem'.pos = 0,
         Corrected(saved.strat, log.positions[i].qty, s) \/ LostRefusal(s)
  PROVE  IInv'
<1>1. TypeOK /\ MemoryRight /\ TheRest /\ up # "down"
  BY Parts DEF Handled
<1>2. /\ TypeOK' /\ MemoryRight' /\ cmds \in Seq(Commands)
      /\ UNCHANGED <<log, cursor, pending, position, trigger>> /\ saved'.strat = s
  BY HandledMemory
<1>3. cmds' = cmds
  BY <1>2, ConcatEmptySeq DEF Handled
<1>4. CommandsRight' /\ ReportsRight'
  BY <1>1, <1>2, <1>3 DEF TheRest, CommandsRight, ReportsRight
<1>5. /\ i \in DOMAIN log.positions /\ Ahead(i)
      /\ Len(cmds) <= 1 => log.positions[i].qty \in 0 .. position
  <2>1. i \in DOMAIN log.positions /\ i \in pending["positions"]
    BY <1>1, StreamValues, EntryTypes
  <2> QED
    BY <1>1, <2>1 DEF Ahead, TheRest, ReportsRight
<1>6. CASE saved.strat.phase = "PendingEntry" /\ log.positions[i].qty # saved.strat.baseline
           /\ s.phase = "InPosition" /\ s.baseline = saved.strat.baseline
  <2>1. Len(cmds) = 1 /\ saved.strat.baseline = 0
    BY <1>1, <1>6 DEF TheRest, SavedStateKnowsCommands, PhaseRight
  <2>2. /\ position > 0
        /\ \A j \in DOMAIN log.positions : Ahead(j) => log.positions[j].qty > 0
    BY <1>1, <1>6, <2>1, LaterReports
  <2>3. SavedStateKnowsCommands' /\ PhaseRight'
    BY <1>2, <1>3, <1>6, <2>1, <2>2 DEF SavedStateKnowsCommands, PhaseRight, Ahead
  <2> QED
    BY <1>2, <1>4, <2>3 DEF IInv
<1>7. CASE saved.strat.phase = "InPosition" /\ log.positions[i].qty = saved.strat.baseline
  BY <1>1, <1>5, <1>7 DEF TheRest, SavedStateKnowsCommands, PhaseRight
<1>8. CASE saved.strat.phase = "PendingExit" /\ log.positions[i].qty = saved.strat.baseline
           /\ s = Done
  <2>1. Len(cmds) = 2
    BY <1>1, <1>5, <1>8 DEF TheRest, SavedStateKnowsCommands, PhaseRight
  <2>2. SavedStateKnowsCommands' /\ PhaseRight'
    BY <1>2, <1>3, <1>8, <2>1 DEF SavedStateKnowsCommands, PhaseRight, Done
  <2> QED
    BY <1>2, <1>4, <2>2 DEF IInv
<1>9. CASE saved.strat.phase = "Idle" /\ log.positions[i].qty # 0
  BY <1>1, <1>5, <1>9, PortfolioFacts DEF TheRest, SavedStateKnowsCommands, CommandsRight
<1>10. CASE LostRefusal(s)
  <2>1. Len(cmds) = 1
    BY <1>1, <1>10 DEF TheRest, SavedStateKnowsCommands, LostRefusal
  <2>2. SavedStateKnowsCommands'
    BY <1>2, <1>3, <1>10, <2>1 DEF SavedStateKnowsCommands, LostRefusal
  <2>3. PhaseRight'
    BY <1>1, <1>2, <1>3, <1>10, <2>1 DEF TheRest, PhaseRight, LostRefusal, Ahead
  <2> QED
    BY <1>2, <1>4, <2>2, <2>3 DEF IInv
<1> QED
  BY <1>6, <1>7, <1>8, <1>9, <1>10 DEF Corrected

LEMMA HandleRight ==
  ASSUME IInv, Handle
  PROVE  IInv' \/ \E i : SkipBar(i)
<1>1. TypeOK /\ MemoryRight /\ TheRest
  BY Parts
<1>2. ASSUME NEW i, HandleAck(i)
      PROVE  IInv'
  <2>1. PICK s : Handled(s, << >>) /\ PhaseKept(s) /\ mem'.pos = mem.pos
    BY <1>2, AckOutcome
  <2>2. cmds' = << >> => mem'.pos = 0
    BY <1>1, <2>1, ConcatEmptySeq DEF Handled, MemoryRight, TypeOK
  <2> QED
    BY <2>1, <2>2, KeptRight
<1>3. ASSUME NEW i, NEW open \in BOOLEAN, NEW ready \in BOOLEAN, HandlePosition(i, open, ready)
      PROVE  IInv'
  <2>1. PICK s, new :
          /\ Handled(s, new) /\ mem'.pos = log.positions[i].qty
          /\ \/ ExitSent(s, new)
             \/ new = << >> /\ (PhaseKept(s) \/ Corrected(saved.strat, log.positions[i].qty, s)
                                \/ LostRefusal(s))
    BY <1>3, PositionOutcome
  <2>2. IsFirst("positions", i)
    BY <1>3 DEF HandlePosition, InHand
  <2>3. ASSUME new = << >>
        PROVE  cmds' = << >> => mem'.pos = 0
    <3>1. cmds' = cmds
      BY <1>1, <2>1, <2>3, ConcatEmptySeq DEF Handled, TypeOK
    <3>2. i \in DOMAIN log.positions
      BY <1>1, <2>2, StreamValues, EntryTypes
    <3> QED
      BY <1>1, <2>1, <3>1, <3>2, PortfolioFacts DEF TheRest, ReportsRight, CommandsRight
  <2>4. CASE ExitSent(s, new)
    BY <2>1, <2>4, ExitRight
  <2>5. CASE new = << >> /\ PhaseKept(s)
    BY <2>1, <2>3, <2>5, KeptRight
  <2>6. CASE new = << >> /\ (Corrected(saved.strat, log.positions[i].qty, s) \/ LostRefusal(s))
    BY <2>1, <2>2, <2>3, <2>6, CorrectedRight
  <2> QED
    BY <2>1, <2>4, <2>5, <2>6
<1>4. ASSUME NEW i, NEW blocked \in BOOLEAN, NEW open \in BOOLEAN, NEW ready \in BOOLEAN,
             HandleBar(i, blocked, open, ready)
      PROVE  IInv'
  <2>1. PICK s, new : /\ Handled(s, new) /\ mem'.pos = mem.pos
                      /\ EntrySent(s, new) \/ ExitSent(s, new) \/ (new = << >> /\ PhaseKept(s))
    BY <1>4, BarOutcome
  <2>2. CASE new = << >> /\ PhaseKept(s)
    <3>1. cmds' = << >> => mem'.pos = 0
      BY <1>1, <2>1, <2>2, ConcatEmptySeq DEF Handled, MemoryRight, TypeOK
    <3> QED
      BY <2>1, <2>2, <3>1, KeptRight
  <2> QED
    BY <2>1, <2>2, EntryRight, ExitRight
<1> QED
  BY <1>2, <1>3, <1>4 DEF Handle

LEMMA NextRight ==
  ASSUME IInv, [Next]_vars, Held = 0, ~ FastRestarts
  PROVE  IInv'
<1>1. TypeOK'
  BY NextType DEF IInv
<1>2. CASE Environment
  BY <1>1, <1>2, BarsRight, ExecuteRight, AnswerRight, ReportRight DEF Environment
<1>3. CASE Read
  BY <1>1, <1>3, ReadRight
<1>4. CASE Handle
  BY <1>1, <1>4, HandleRight, LoopRight
<1>5. CASE Acknowledge \/ Timer \/ BeginPolling \/ UNCHANGED vars
  BY <1>1, <1>5, LoopRight
<1>6. CASE Die
  BY <1>1, <1>6, DieRight
<1>7. CASE Restart
  BY <1>1, <1>7, StartRight DEF Restart
<1> QED
  BY <1>2, <1>3, <1>4, <1>5, <1>6, <1>7 DEF Next

LEMMA DispatchInvariant == Held = 0 /\ ~ FastRestarts => (Spec => []IInv)
<1> SUFFICES ASSUME Held = 0, ~ FastRestarts
             PROVE  Spec => []IInv
  OBVIOUS
<1>1. Init => IInv
  BY InitRight
<1>2. IInv /\ [Next]_vars => IInv'
  BY NextRight
<1> QED
  BY <1>1, <1>2, PTL DEF Spec

-----------------------------------------------------------------------------
(* When the strategy is alone in the portfolio and a restart claims what   *)
(* was pending, the saved state says how many commands were published.     *)
THEOREM DispatchSavedState ==
  ASSUME Held = 0, ~ FastRestarts
  PROVE  Spec => []SavedStateKnowsCommands
<1>1. Spec => []IInv
  BY DispatchInvariant
<1>2. IInv => SavedStateKnowsCommands
  BY DEF IInv
<1> QED
  BY <1>1, <1>2, PTL

(* And for a quantity of one lot, which is filled or not, the account is   *)
(* flat or holds the one lot of the entry.                                 *)
THEOREM DispatchOneExposure ==
  ASSUME Held = 0, ~ FastRestarts, Qty = 1
  PROVE  Spec => []OneExposure
<1>1. Spec => []IInv
  BY DispatchInvariant
<1>2. ASSUME IInv
      PROVE  OneExposure
  <2>1. TypeOK /\ CommandsRight
    BY <1>2 DEF IInv
  <2>2. position \in 0 .. 1
    <3>1. CASE Len(cmds) = 0
      BY <2>1, <3>1, PortfolioFacts DEF CommandsRight
    <3>2. CASE Len(cmds) = 1
      BY <2>1, <3>2, PortfolioFacts DEF CommandsRight
    <3>3. CASE Len(cmds) = 2
      <4>1. cmds[1].filled \in 0 .. 1 /\ cmds[2].filled \in 0 .. 1
        BY <2>1, <3>3, PortfolioFacts
      <4> QED
        BY <2>1, <3>3, <4>1 DEF CommandsRight
    <3> QED
      BY <2>1, <3>1, <3>2, <3>3, PortfolioFacts
  <2> QED
    BY <2>2 DEF OneExposure
<1>3. IInv => OneExposure
  BY <1>2
<1> QED
  BY <1>1, <1>3, PTL
=============================================================================
