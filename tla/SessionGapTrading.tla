-------------------------- MODULE SessionGapTrading --------------------------
(***************************************************************************)
(* SessionGap.tla in the runtime (strategy-runtime/src/runtime.rs), with   *)
(* the gateway and the broker as its environment.  The handlers take the   *)
(* events of four streams, in the order of each stream; a stream that was  *)
(* begun is read to its end, and a failed read postpones any of them.      *)
(* Every handler saves the state of the strategy in the transaction that   *)
(* publishes its command, so a restart finds the state of the last handler *)
(* (RuntimeDispatch.tla has the crashes in between).                       *)
(*                                                                         *)
(* The broker fills an order as a whole, or not at all; an answer that     *)
(* refuses a command says that it has no effect (CommandPath.tla,          *)
(* ControlPath.tla), cws_error says nothing.  The account holds nothing    *)
(* else in this symbol.                                                    *)
(***************************************************************************)
EXTENDS SessionGap, Sequences, FiniteSetsExt, SequencesExt

CONSTANTS
  Bars,         \* closing times of the bars, in order
  Past,         \* numbers of session changes in the history before the first bar
  NoBar,        \* the last bar of that history
  MaxCommands,  \* bound: commands
  MaxOrders,    \* bound: order events
  MaxRestarts   \* bound: restarts

ASSUME TradingAssumption ==
  /\ Bars \in Seq(Nat) /\ Bars # << >>
  /\ \A i, j \in 1 .. Len(Bars) : i < j => Bars[i] < Bars[j]
  /\ Past \subseteq 0 .. 2 /\ NoBar \in Int /\ NoBar < Bars[1] - Gap
  /\ {MaxCommands, MaxOrders, MaxRestarts} \subseteq Nat

VARIABLES
  clock,      \* the time
  published,  \* number of bars published
  read,       \* number of bars handled or skipped
  past,       \* session changes in the history
  account,    \* the position at the broker
  dawn,       \* history: number of commands when the day began
  strategy,   \* memory of the strategy
  now,        \* strategy_now_ts_utc
  pos,        \* state.positions for the symbol
  cmds,       \* the commands published, with their fate
  acks, orders, positions, \* the streams, from the first event not handled
  begun,      \* the stream in hand
  restarts

env == <<clock, published, past, account, dawn>>
streams == <<acks, orders, positions>>
runtime == <<read, strategy, now, pos, begun>>
vars == <<env, streams, runtime, cmds, restarts>>

Answers == {"accepted", "rejected", "closed", "cws_error", "recycle", "duplicate"}
Refusals == {"rejected", "closed", "recycle", "duplicate"}

Commands ==
  [id : Int, lots : Int, class : {"Entry", "Exit"}, session : Int, life : Nat,
   again : BOOLEAN, certain : BOOLEAN, answer : Answers \cup {"none"}, filled : BOOLEAN]

Init ==
  /\ clock = 0 /\ published = 0 /\ read = 0 /\ account = 0 /\ dawn = 0
  /\ past \in Past
  /\ strategy = WarmupFromHistory(Blank([phase |-> Flat, traded |-> FALSE, rolls |-> 0,
                                         start |-> NoBar, lastDt |-> NoBar, lastBar |-> NoBar],
                                        NoBar), past, NoBar, NoBar)
  /\ now = 0 /\ pos = 0
  /\ cmds = << >> /\ acks = << >> /\ orders = << >> /\ positions = << >>
  /\ begun = "none"
  /\ restarts = 0

(* The gateway refuses a request id it has seen.                           *)
Repeated(i) == \E j \in 1 .. i - 1 : cmds[j].id = cmds[i].id

CanFill(i) == ~ cmds[i].filled /\ cmds[i].answer \notin Refusals /\ ~ Repeated(i)

(* Nothing is under way and every event was handled.                       *)
Quiet ==
  /\ acks = << >> /\ orders = << >> /\ positions = << >>
  /\ \A i \in 1 .. Len(cmds) : cmds[i].answer # "none" /\ ~ CanFill(i)

-----------------------------------------------------------------------------
(* Broker and gateway.                                                     *)

(* Orders of a day end with it, and their events come before the next day. *)
NewDay == published > 0 /\ Bars[published + 1] - Bars[published] > Gap

CloseBar ==
  /\ published < Len(Bars)
  /\ NewDay => Quiet
  /\ clock' = Bars[published + 1]
  /\ dawn' = IF NewDay THEN Len(cmds) ELSE dawn
  /\ published' = published + 1
  /\ UNCHANGED <<past, account, streams, runtime, cmds, restarts>>

(* An execution changes the position, which the gateway reports.           *)
Fill(i) ==
  /\ i \in 1 .. Len(cmds) /\ CanFill(i)
  /\ cmds' = [cmds EXCEPT ![i].filled = TRUE]
  /\ account' = account + cmds[i].lots
  /\ positions' = Append(positions, [qty |-> account', ts |-> clock, life |-> restarts])
  /\ UNCHANGED <<clock, published, past, dawn, acks, orders, runtime, restarts>>

(* An order that will not be filled any more.                              *)
Expire(i) ==
  /\ i \in 1 .. Len(cmds) /\ CanFill(i) /\ cmds[i].answer # "none"
  /\ cmds' = [cmds EXCEPT ![i].answer = "rejected"]
  /\ UNCHANGED <<env, streams, runtime, restarts>>

(* The second in which the answer was given may be that of the bar.        *)
Answer(i, status, ts) ==
  /\ i \in 1 .. Len(cmds) /\ cmds[i].answer = "none"
  /\ status = "duplicate" <=> Repeated(i)
  /\ status \in Refusals => ~ cmds[i].filled
  /\ cmds' = [cmds EXCEPT ![i].answer = status]
  /\ acks' = Append(acks, [req |-> cmds[i].id, status |-> status, ts |-> ts])
  /\ UNCHANGED <<env, orders, positions, runtime, restarts>>

(* The event of an order whose outcome the strategy may have to verify.    *)
ReportOrder(i) ==
  /\ i \in 1 .. Len(cmds) /\ ~ Repeated(i)
  /\ cmds[i].class = "Entry" /\ cmds[i].answer \in {"none", "cws_error"}
  /\ Len(orders) < MaxOrders
  /\ orders' = Append(orders, [req |-> cmds[i].id, ts |-> clock,
                               status |-> IF cmds[i].filled THEN "filled" ELSE "working"])
  /\ UNCHANGED <<env, acks, positions, runtime, cmds, restarts>>

-----------------------------------------------------------------------------
(* The runtime.                                                            *)

Left == [none |-> 0, acks |-> Len(acks), orders |-> Len(orders),
         positions |-> Len(positions), bars |-> published - read]

(* dispatch of the next event of a stream.                                 *)
Take(stream) ==
  /\ Left[stream] > 0
  /\ begun # stream => Left[begun] = 0
  /\ begun' = stream

Normalized(ts) == Greater(now, ts)

LastBar == IF read = 0 THEN NoBar ELSE Bars[read]

Context(event, qty) == [pos |-> qty, event |-> event, now |-> clock]

(* History: what was known when a command was sent.  No event of the       *)
(* position was unread since before the last restart, and an entry that is *)
(* not the first one of the day found the account flat and nothing under   *)
(* way.                                                                    *)
Certain(class) ==
  /\ \A i \in 1 .. Len(positions) : positions[i].life = restarts
  /\ /\ class = "Entry"
     /\ \E i \in dawn + 1 .. Len(cmds) : cmds[i].class = "Entry" /\ cmds[i].answer # "closed"
     => account = 0 /\ \A i \in 1 .. Len(cmds) : ~ CanFill(i)

(* apply_intents: r is what a callback returned, before the state it       *)
(* started from; open is the trading window, ready the live guard.         *)
ApplyIntents(before, r, created, open, ready) ==
  LET keeping(m) == [m |-> m, new |-> << >>]
      dropped == (r.order.class = "Entry" /\ ~ (open /\ ready)) \/ (~ ready /\ pos = 0)
      closed == ~ dropped /\ r.order.class = "Exit" /\ ~ open
  IN  CASE r.order = NoOrder -> keeping(r.m)
        [] r.order # NoOrder /\ dropped -> keeping([r.m EXCEPT !.st = before.st])
        [] r.order # NoOrder /\ closed -> keeping(OnAck(r.m, created, "closed", clock).m)
        [] OTHER ->
             [m |-> r.m,
              new |-> <<[id |-> created, lots |-> r.order.lots, class |-> r.order.class,
                         session |-> r.m.start, life |-> restarts,
                         again |-> before.st.phase.name = "EntryDeferred",
                         certain |-> Certain(r.order.class),
                         answer |-> "none", filled |-> FALSE]>>]

Apply(r, created, open, ready) ==
  LET a == ApplyIntents(strategy, r, created, open, ready)
  IN  /\ strategy' = a.m
      /\ cmds' = cmds \o a.new
      /\ Len(cmds') <= MaxCommands
      /\ now' = created

HandleAck(open, ready) ==
  /\ Take("acks")
  /\ LET a == Head(acks)
     IN  Apply(OnAck(strategy, a.req, a.status, a.ts), Normalized(a.ts), open, ready)
  /\ acks' = Tail(acks)
  /\ UNCHANGED <<env, orders, positions, read, pos, restarts>>

HandleOrder ==
  /\ Take("orders")
  /\ LET o == Head(orders)
     IN  Apply(Stay(OnOrder(strategy, o.req, o.status, o.ts)), Normalized(o.ts), TRUE, TRUE)
  /\ orders' = Tail(orders)
  /\ UNCHANGED <<env, acks, positions, read, pos, restarts>>

HandlePosition ==
  /\ Take("positions")
  /\ LET p == Head(positions)
         at == IF read = 0 THEN p.ts ELSE LastBar
     IN  /\ Apply(Stay(OnPosition(strategy, p.qty, at)), Normalized(p.ts), TRUE, TRUE)
         /\ pos' = p.qty
  /\ positions' = Tail(positions)
  /\ UNCHANGED <<env, acks, orders, read, restarts>>

HandleBar(signal, hit, blocked, open, ready) ==
  /\ Take("bars")
  /\ LET t == Bars[read + 1]
         created == Normalized(t)
     IN  Apply(OnBar(strategy, Context(created, pos), t, signal, hit, blocked),
               created, open, ready)
  /\ read' = read + 1
  /\ UNCHANGED <<env, streams, pos, restarts>>

(* bootstrap: the snapshot of the gateway holds the position last reported *)
(* and the orders it knows to work.  The warm-up reads the bars stream to  *)
(* its end, and what is in it counts as handled.                           *)
History ==
  LET firsts == {i \in 1 .. published : i = 1 \/ Bars[i] - Bars[i - 1] > Gap}
  IN  [rolls |-> Greater(0, IF past + Cardinality(firsts) > 2 THEN 2
                            ELSE past + Cardinality(firsts)),
       start |-> IF firsts = {} THEN NoBar ELSE Bars[Max(firsts)],
       last |-> IF published = 0 THEN NoBar ELSE Bars[published]]

Booted(working) ==
  LET blank == Blank(strategy.st, NoBar)
      corrected == OnBootstrapSnapshot(blank, account, working, clock)
  IN  WarmupFromHistory(OnRuntimeStateRestored(corrected),
                        History.rolls, History.start, History.last)

Restart(working) ==
  /\ restarts < MaxRestarts
  /\ restarts' = restarts + 1
  /\ working => \E i \in 1 .. Len(cmds) : CanFill(i)
  /\ strategy' = Booted(working)
  /\ pos' = account
  /\ now' = clock
  /\ read' = published
  /\ begun' = "none"
  /\ UNCHANGED <<env, streams, cmds>>

-----------------------------------------------------------------------------
Environment ==
  \/ CloseBar
  \/ \E i \in 1 .. Len(cmds) :
       \/ Fill(i) \/ Expire(i)
       \/ \E status \in Answers, ts \in {clock, clock + 1} : Answer(i, status, ts)
       \/ ReportOrder(i)

Handle ==
  \/ \E open, ready \in BOOLEAN :
       \/ HandleAck(open, ready)
       \/ \E signal, hit, blocked \in BOOLEAN : HandleBar(signal, hit, blocked, open, ready)
  \/ HandleOrder \/ HandlePosition

Next == Environment \/ Handle \/ \E working \in BOOLEAN : Restart(working)

Spec == Init /\ [][Next]_vars

-----------------------------------------------------------------------------
Events == [req : Int, status : Answers \cup {"filled", "working"}, ts : Nat]
Reports == [qty : Int, ts : Nat, life : Nat]

TypeOK ==
  /\ clock \in Nat /\ past \in Past /\ published \in 0 .. Len(Bars) /\ read \in 0 .. published
  /\ strategy \in Memories /\ (strategy.pend => strategy.traded) /\ now \in Nat
  /\ pos \in Int /\ account \in Int /\ dawn \in 0 .. Len(cmds)
  /\ cmds \in Seq(Commands) /\ acks \in Seq(Events) /\ orders \in Seq(Events)
  /\ positions \in Seq(Reports)
  /\ begun \in DOMAIN Left /\ restarts \in 0 .. MaxRestarts

(* Every command was sent with certainty: what the two properties below    *)
(* need, see Certain.  Without it they are false.  After a restart the     *)
(* position comes from the snapshot, and an event of before the restart    *)
(* that is read later takes the strategy back.  And a second entry of a    *)
(* day may be sent while the first one can still be executed: by another   *)
(* process, or when one of the two was sent for another session.           *)
Sure == \A i \in 1 .. Len(cmds) : cmds[i].certain

(* The account is flat or holds the one lot: no exit is executed twice or  *)
(* for a position that was not opened, and no entry on top of another,     *)
(* whatever the order of answers, order and position events and restarts   *)
(* (the exit is sent again in session_gap_standalone.rs:1562, 1926 only    *)
(* when its refusal says that it was not written).                         *)
NeverReversed == Sure => account \in {0, 1}

SameSession(i, j) ==
  /\ i < j
  /\ cmds[i].class = "Entry" /\ cmds[j].class = "Entry"
  /\ cmds[i].session = cmds[j].session

(* In the life of one process a session has one entry of its own           *)
(* (traded_session, session_gap_standalone.rs:498), in spite of entries    *)
(* whose outcome is unknown, timeouts and intents that the runtime drops.  *)
(* Beside it there is only the entry that is sent again, in the same       *)
(* session or the next one, and then the command before it was an entry    *)
(* refused for a closed window.                                            *)
OneEntryPerLife ==
  /\ \A i, j \in 1 .. Len(cmds) :
       SameSession(i, j) /\ cmds[i].life = cmds[j].life => cmds[i].again \/ cmds[j].again
  /\ Sure => \A j \in 1 .. Len(cmds) :
       cmds[j].again => j > 1 /\ cmds[j - 1].class = "Entry" /\ cmds[j - 1].answer = "closed"

(* Over restarts there is no second entry but that one                     *)
(* (tests/e2e_session_gap_restart.rs:664: "must not send duplicate entry   *)
(* after restart").                                                        *)
OneEntryPerSession ==
  \A i, j \in 1 .. Len(cmds) : SameSession(i, j) => cmds[i].answer = "closed"

(* When nothing is under way, a strategy that takes itself for flat is: an *)
(* entry that was given up and executed late is adopted (on_position).     *)
FlatIsFlat == Quiet /\ Sure /\ strategy.st.phase = Flat => account = 0
=============================================================================
