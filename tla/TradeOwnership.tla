--------------------------- MODULE TradeOwnership ---------------------------
(***************************************************************************)
(* How a strategy runtime (strategy-runtime/src/runtime.rs) decides which  *)
(* broker trades are its own.  Acknowledgements, order events and trades   *)
(* reach it over three streams with no order between them; a trade can be  *)
(* booked as owned only when its order was acknowledged with an order      *)
(* number and an order event for it was seen, and waits until then.        *)
(*                                                                         *)
(* An own order is named after the request that places it.  Every trade is *)
(* one lot and is named by its position in executed; that position stands  *)
(* for the trade id, the deduplication key.  The broker and the gateway    *)
(* are the environment: they answer, report and forward in any order, and  *)
(* a resubscription makes the gateway forward earlier trades again.        *)
(***************************************************************************)
EXTENDS Integers, Sequences, FiniteSets, Functions

CONSTANTS
  Own,          \* orders placed by this runtime's commands
  Foreign,      \* orders of the same symbol placed by somebody else
  Lots,         \* lots (and trades) per order
  NoNumber,     \* an acknowledgement without a numeric order id
  NoTrade,      \* last_trade_ts before the first trade
  DedupLimit,   \* TRADE_DEDUP_LIMIT
  PerTick,      \* environment: trades with the same timestamp
  MaxTime,      \* bound: broker clock
  MaxReports,   \* bound: order events
  MaxResends,   \* bound: resubscriptions
  MaxRestarts   \* bound: restarts of the runtime

Orders == Own \cup Foreign

ASSUME OrdersAssumption == Own \cap Foreign = {} /\ NoNumber \notin Own
ASSUME LotsAssumption == Lots \in Nat \ {0}
ASSUME TimeAssumption == NoTrade \in Int /\ NoTrade < 0 /\ MaxTime \in Nat
(* The broker does not report more trades within one second than the       *)
(* deduplication window remembers.                                         *)
ASSUME DedupAssumption == DedupLimit \in Nat /\ PerTick \in Nat /\ PerTick <= DedupLimit
ASSUME BoundsAssumption == MaxReports \in Nat /\ MaxResends \in Nat /\ MaxRestarts \in Nat

VARIABLES
  placed,       \* own orders whose command was published
  answered,     \* own orders that were acknowledged
  executed,     \* every trade the broker made, in order
  forwarded,    \* how many of them the gateway has forwarded
  clock,        \* the broker's clock
  acks, orderQ, tradeQ,   \* entries of the three streams not consumed yet
  requests,     \* our_request_ids
  book,         \* what the process knows of orders and trades (see Books)
  seen,         \* seen_trade_ids
  lastTs,       \* last_trade_ts
  saved,        \* seen and lastTs in the last runtime state snapshot
  unnamed,      \* history: own orders acknowledged without a usable number
                \* to a process that was not restarted
  reports, resends, restarts   \* counters for the bounds

broker == <<placed, answered, executed, forwarded, clock>>
queues == <<acks, orderQ, tradeQ>>
dedup == <<seen, lastTs>>
counters == <<reports, resends, restarts>>
vars == <<broker, queues, requests, book, dedup, saved, unnamed, counters>>

(* own is our_order_ids; orders is state.orders, reduced to the filled     *)
(* quantity of each order known; buffered is pending_trades_by_order_id    *)
(* (no entry: nothing buffered); awaiting is pending_exec, the fills an    *)
(* order still owes; ledger is what was recorded, as owned or as orphan,   *)
(* of each order.                                                          *)
NoEntries == [o \in {} |-> 0]

EmptyBook ==
  [own |-> {}, orders |-> NoEntries, buffered |-> [o \in Orders |-> << >>],
   awaiting |-> NoEntries, ledger |-> [o \in Orders |-> << >>]]

NothingSaved == [seen |-> << >>, lastTs |-> NoTrade]

Init ==
  /\ placed = {}
  /\ answered = {}
  /\ executed = << >>
  /\ forwarded = 0
  /\ clock = 0
  /\ acks = << >>
  /\ orderQ = << >>
  /\ tradeQ = << >>
  /\ requests = {}
  /\ book = EmptyBook
  /\ seen = << >>
  /\ lastTs = NoTrade
  /\ saved = NothingSaved
  /\ unnamed = {}
  /\ reports = 0
  /\ resends = 0
  /\ restarts = 0

OrderOf(k) == executed[k].order
TsOf(k) == executed[k].ts
FilledAtBroker(o) == Cardinality({k \in 1 .. Len(executed) : OrderOf(k) = o})

Set(f, x, v) == [y \in DOMAIN f \cup {x} |-> IF y = x THEN v ELSE f[y]]
Unset(f, x) == [y \in DOMAIN f \ {x} |-> f[y]]

-----------------------------------------------------------------------------
(* Broker and gateway (environment).                                       *)

Fill(o) ==
  /\ o \in placed \cup Foreign
  /\ FilledAtBroker(o) < Lots
  /\ Cardinality({k \in 1 .. Len(executed) : TsOf(k) = clock}) < PerTick
  /\ executed' = Append(executed, [order |-> o, ts |-> clock])
  /\ UNCHANGED <<placed, answered, forwarded, clock, queues, requests, book,
                 dedup, saved, unnamed, counters>>

Tick ==
  /\ clock < MaxTime
  /\ clock' = clock + 1
  /\ UNCHANGED <<placed, answered, executed, forwarded, queues, requests, book,
                 dedup, saved, unnamed, counters>>

(* The command consumer answers each command; without an order number when *)
(* it failed, timed out, or the broker's id is not a number.               *)
Answer(o, number) ==
  /\ o \in placed \ answered
  /\ answered' = answered \cup {o}
  /\ acks' = Append(acks, [req |-> o, order |-> number])
  /\ UNCHANGED <<placed, executed, forwarded, clock, orderQ, tradeQ, requests,
                 book, dedup, saved, unnamed, counters>>

(* An order event; existing marks one that a resubscription repeats.       *)
Report(o, existing) ==
  /\ o \in placed \cup Foreign
  /\ reports < MaxReports
  /\ reports' = reports + 1
  /\ existing => resends > 0
  /\ orderQ' = Append(orderQ, [order |-> o, filled |-> FilledAtBroker(o), existing |-> existing])
  /\ UNCHANGED <<broker, acks, tradeQ, requests, book, dedup, saved, unnamed,
                 resends, restarts>>

Forward ==
  /\ forwarded < Len(executed)
  /\ forwarded' = forwarded + 1
  /\ tradeQ' = Append(tradeQ, forwarded + 1)
  /\ UNCHANGED <<placed, answered, executed, clock, acks, orderQ, requests,
                 book, dedup, saved, unnamed, counters>>

Resubscribe(k) ==
  /\ k < forwarded
  /\ resends < MaxResends
  /\ resends' = resends + 1
  /\ forwarded' = k
  /\ UNCHANGED <<placed, answered, executed, clock, queues, requests, book,
                 dedup, saved, unnamed, reports, restarts>>

-----------------------------------------------------------------------------
(* The books.                                                              *)

Recorded(trades, owned) == [i \in 1 .. Len(trades) |-> [trade |-> trades[i], owned |-> owned]]

(* apply_trade_execution: a fill joins the fills its order still owes, and *)
(* that entry goes when they are complete; the next fill opens a new one.  *)
Target(filled) == IF filled > 0 THEN filled ELSE Lots

Owes(b, o) ==
  IF o \in DOMAIN b.awaiting
    THEN b.awaiting[o]
    ELSE [target |-> Target(b.orders[o]), filled |-> 0]

(* Variant of AfterFills: the entry stays when the fills are complete.     *)
AfterFillsKeeping(b, o, n) ==
  LET entry == Owes(b, o)
      filled == entry.filled + n
  IN  IF filled > entry.target
        THEN Unset(b.awaiting, o)
        ELSE Set(b.awaiting, o, [entry EXCEPT !.filled = filled])

(* n fills of one lot, one after the other.                                *)
AfterFills(b, o, n) ==
  LET entry == Owes(b, o)
      filled == entry.filled + n
      again == Target(b.orders[o])
      rest == (filled - entry.target) % again
  IN  IF filled < entry.target THEN Set(b.awaiting, o, [entry EXCEPT !.filled = filled])
      ELSE IF rest = 0 THEN Unset(b.awaiting, o)
      ELSE Set(b.awaiting, o, [target |-> again, filled |-> rest])

ApplyTrades(b, o, trades) ==
  [b EXCEPT !.ledger[o] = @ \o Recorded(trades, TRUE),
            !.awaiting = AfterFills(b, o, Len(trades))]

(* replay_pending_trades_for_order: only when the order is owned and       *)
(* known.                                                                  *)
Replay(b, o) ==
  IF o \in b.own /\ o \in DOMAIN b.orders /\ b.buffered[o] # << >>
    THEN ApplyTrades([b EXCEPT !.buffered[o] = << >>], o, b.buffered[o])
    ELSE b

(* flush_unmatched_pre_ack_trades: with no request outstanding, trades of  *)
(* orders we do not own become orphans, and the orders ours.               *)
Unmatched(b) == {o \in Orders : b.buffered[o] # << >>} \ b.own

Flush(b, S) ==
  [b EXCEPT !.own = @ \cup S,
            !.buffered = [o \in Orders |-> IF o \in S THEN << >> ELSE @[o]],
            !.ledger = [o \in Orders |->
                          IF o \in S THEN @[o] \o Recorded(b.buffered[o], FALSE) ELSE @[o]]]

(* Variants of FlushUnmatched: outstanding requests are not waited for;    *)
(* the trades are removed but not recorded.                                *)
FlushUnmatchedEarly(b, left) == Flush(b, Unmatched(b))

FlushUnmatchedSilently(b, left) ==
  IF left # {} THEN b ELSE [Flush(b, Unmatched(b)) EXCEPT !.ledger = b.ledger]

FlushUnmatched(b, left) == IF left # {} THEN b ELSE Flush(b, Unmatched(b))

-----------------------------------------------------------------------------
(* The runtime.  persist_state follows every strategy callback, and writes *)
(* the deduplication state as it then is (after the last restart nothing   *)
(* reads it, and it is not written, to keep the model small).              *)
Persist ==
  saved' = IF restarts < MaxRestarts THEN [seen |-> seen, lastTs |-> lastTs] ELSE saved

(* apply_intents publishes a command with the state, then remembers the    *)
(* request.                                                                *)
Emit(o) ==
  /\ o \in Own \ placed
  /\ placed' = placed \cup {o}
  /\ requests' = requests \cup {o}
  /\ Persist
  /\ UNCHANGED <<answered, executed, forwarded, clock, queues, book, dedup,
                 unnamed, counters>>

(* A poll without messages still runs on_timer, and with it persist_state. *)
Timer ==
  /\ Persist
  /\ UNCHANGED <<broker, queues, requests, book, dedup, unnamed, counters>>

(* handle_ack: register_acknowledged_order, then the callback.             *)
HandleAck ==
  /\ acks # << >>
  /\ LET a == Head(acks)
         named == a.req \in requests /\ a.order # NoNumber
         left == requests \ {a.req}
         registered == IF named
                         THEN Replay([book EXCEPT !.own = @ \cup {a.order}], a.order)
                         ELSE book
     IN  /\ requests' = left
         /\ book' = FlushUnmatched(registered, left)
         /\ unnamed' = IF named \/ restarts > 0 THEN unnamed ELSE unnamed \cup {a.req}
  /\ acks' = Tail(acks)
  /\ Persist
  /\ UNCHANGED <<broker, orderQ, tradeQ, dedup, counters>>

(* handle_order: the callback, update_ledger_from_order (a fully filled    *)
(* own order owes its trades), the order map, then the replay.             *)
Settle(b, m) ==
  LET o == m.order
      repeated == m.existing /\ o \in DOMAIN b.orders /\ b.orders[o] = Lots
      paid == IF o \in DOMAIN b.awaiting THEN b.awaiting[o].filled ELSE 0
  IN  IF o \in b.own /\ m.filled = Lots /\ ~ repeated
        THEN [b EXCEPT !.awaiting = Set(@, o, [target |-> Lots, filled |-> paid])]
        ELSE b

HandleOrder ==
  /\ orderQ # << >>
  /\ LET m == Head(orderQ)
         settled == Settle(book, m)
     IN  book' = Replay([settled EXCEPT !.orders = Set(@, m.order, m.filled)], m.order)
  /\ orderQ' = Tail(orderQ)
  /\ Persist
  /\ UNCHANGED <<broker, acks, tradeQ, requests, dedup, unnamed, counters>>

(* Variant of Stale: only the timestamp is compared.                       *)
StaleByTimeOnly(k) == TsOf(k) < lastTs

(* should_process_trade: a trade seen before, or older than the newest     *)
(* one, is dropped; any other is remembered, within the limit.             *)
Stale(k) == (\E i \in 1 .. Len(seen) : seen[i] = k) \/ TsOf(k) < lastTs

LastOf(s, n) == IF Len(s) > n THEN SubSeq(s, Len(s) - n + 1, Len(s)) ELSE s

Remember(k) ==
  /\ seen' = LastOf(Append(seen, k), DedupLimit)
  /\ lastTs' = TsOf(k)

ConsumeTrade ==
  /\ tradeQ # << >>
  /\ tradeQ' = Tail(tradeQ)
  /\ UNCHANGED <<broker, acks, orderQ, requests, saved, unnamed, counters>>

FreshTrade ==
  /\ ConsumeTrade
  /\ ~ Stale(Head(tradeQ))
  /\ Remember(Head(tradeQ))

DropTrade ==
  /\ ConsumeTrade
  /\ Stale(Head(tradeQ))
  /\ UNCHANGED <<book, dedup>>

Owned(k) == OrderOf(k) \in book.own
Known(k) == OrderOf(k) \in DOMAIN book.orders

(* Not ours, with a request outstanding: it may turn out to be ours.  Or   *)
(* ours, without an order event: it waits for it.                          *)
BufferTrade ==
  /\ FreshTrade
  /\ LET k == Head(tradeQ)
     IN  /\ \/ ~ Owned(k) /\ requests # {}
            \/ Owned(k) /\ ~ Known(k)
         /\ book' = [book EXCEPT !.buffered[OrderOf(k)] = Append(@, k)]

OrphanTrade ==
  /\ FreshTrade
  /\ LET k == Head(tradeQ)
     IN  /\ ~ Owned(k) /\ requests = {}
         /\ book' = [book EXCEPT !.own = @ \cup {OrderOf(k)},
                                 !.ledger[OrderOf(k)] = @ \o Recorded(<<k>>, FALSE)]

RecordTrade ==
  /\ FreshTrade
  /\ Owned(Head(tradeQ)) /\ Known(Head(tradeQ))
  /\ LET k == Head(tradeQ) IN book' = ApplyTrades(book, OrderOf(k), <<k>>)

(* The process is restarted.  Memory is lost; the orders come from the     *)
(* gateway's last snapshot, of any age; the working ones are taken as      *)
(* ours; requests come from the strategy, which waits for those without an *)
(* answer, and for the others as long as it has not handled what ends its *)
(* wait.  Entries of one stream that were read and not XACKed are lost to  *)
(* this life unless they were idle long enough to be claimed.              *)
Stranded(q, n) == n <= Len(q) /\ n <= 10

Restart ==
  /\ restarts < MaxRestarts
  /\ restarts' = restarts + 1
  /\ \E snap \in SUBSET (placed \cup Foreign) :
       \E filled \in [snap -> 0 .. Lots] :
         /\ \A o \in snap : filled[o] <= FilledAtBroker(o)
         /\ book' = [EmptyBook EXCEPT !.orders = filled,
                                      !.own = {o \in snap : filled[o] < Lots}]
  /\ \E late \in {{}, answered} : requests' = (placed \ answered) \cup late
  /\ seen' = saved.seen
  /\ lastTs' = saved.lastTs
  /\ \/ UNCHANGED queues
     \/ \E n \in 1 .. Len(acks) :
          /\ Stranded(acks, n)
          /\ acks' = SubSeq(acks, n + 1, Len(acks))
          /\ UNCHANGED <<orderQ, tradeQ>>
     \/ \E n \in 1 .. Len(orderQ) :
          /\ Stranded(orderQ, n)
          /\ orderQ' = SubSeq(orderQ, n + 1, Len(orderQ))
          /\ UNCHANGED <<acks, tradeQ>>
     \/ \E n \in 1 .. Len(tradeQ) :
          /\ Stranded(tradeQ, n)
          /\ tradeQ' = SubSeq(tradeQ, n + 1, Len(tradeQ))
          /\ UNCHANGED <<acks, orderQ>>
  /\ saved' = IF restarts' < MaxRestarts THEN saved ELSE NothingSaved
  /\ unnamed' = {}
  /\ UNCHANGED <<broker, reports, resends>>

HandleTrade == DropTrade \/ BufferTrade \/ OrphanTrade \/ RecordTrade

Environment ==
  \/ \E o \in Orders : Fill(o)
  \/ Tick
  \/ \E o \in Own, n \in Own \cup {NoNumber} : n \in {o, NoNumber} /\ Answer(o, n)
  \/ \E o \in Orders, existing \in BOOLEAN : Report(o, existing)
  \/ Forward
  \/ \E k \in 0 .. Len(executed) : Resubscribe(k)

Runtime ==
  \/ \E o \in Own : Emit(o)
  \/ Timer
  \/ HandleAck
  \/ HandleOrder
  \/ HandleTrade
  \/ Restart

Next == Environment \/ Runtime

Spec == Init /\ [][Next]_vars
-----------------------------------------------------------------------------
Trades == 1 .. Len(executed)
Placeable == placed \cup Foreign

Partial(D, R) == UNION {[S -> R] : S \in SUBSET D}

Books ==
  [own      : SUBSET Placeable,
   orders   : Partial(Placeable, 0 .. Lots),
   buffered : [Orders -> Seq(Trades)],
   awaiting : Partial(Placeable, [target : 1 .. Lots, filled : 0 .. Lots]),
   ledger   : [Orders -> Seq([trade : Trades, owned : BOOLEAN])]]

TypeOK ==
  /\ placed \subseteq Own
  /\ answered \subseteq placed
  /\ executed \in Seq([order : Placeable, ts : 0 .. clock])
  /\ forwarded \in 0 .. Len(executed)
  /\ clock \in 0 .. MaxTime
  /\ acks \in Seq([req : answered, order : answered \cup {NoNumber}])
  /\ orderQ \in Seq([order : Placeable, filled : 0 .. Lots, existing : BOOLEAN])
  /\ tradeQ \in Seq(Trades)
  /\ requests \subseteq placed
  /\ book \in Books
  /\ DOMAIN book.awaiting \subseteq book.own
  /\ \A o \in DOMAIN book.awaiting : book.awaiting[o].filled < book.awaiting[o].target
  /\ \A o \in Orders :
       /\ \A i \in 1 .. Len(book.buffered[o]) : OrderOf(book.buffered[o][i]) = o
       /\ \A i \in 1 .. Len(book.ledger[o]) : OrderOf(book.ledger[o][i].trade) = o
  /\ seen \in Seq(Trades) /\ Len(seen) <= DedupLimit
  /\ lastTs \in {NoTrade} \cup 0 .. clock
  /\ saved \in [seen : Seq(Trades), lastTs : {NoTrade} \cup 0 .. clock]
  /\ Len(saved.seen) <= DedupLimit
  /\ unnamed \subseteq Own
  /\ reports \in 0 .. MaxReports /\ resends \in 0 .. MaxResends /\ restarts \in 0 .. MaxRestarts

(* No fill is recorded twice, and a recorded one is not waiting as well:   *)
(* the books are those of a broker that forwards each trade once, whatever *)
(* a resubscription repeats and in whatever order acknowledgement, order   *)
(* event and trade arrive.                                                 *)
Buffered(o) == {book.buffered[o][i] : i \in 1 .. Len(book.buffered[o])}
InLedger(o) == {book.ledger[o][i].trade : i \in 1 .. Len(book.ledger[o])}

RecordedOnce ==
  \A o \in Orders :
    /\ IsInjective(book.buffered[o])
    /\ IsInjective([i \in 1 .. Len(book.ledger[o]) |-> book.ledger[o][i].trade])
    /\ Buffered(o) \cap InLedger(o) = {}

(* No trade waits for something that has already happened: a buffered      *)
(* trade lacks its order event, or its order is not ours and a request is  *)
(* still outstanding.  And a process that was not restarted loses none:    *)
(* one that has been forwarded is on its way, waiting, or recorded.        *)
NoTradeLost ==
  /\ \A o \in Orders :
       book.buffered[o] # << >> =>
         IF o \in book.own THEN o \notin DOMAIN book.orders ELSE requests # {}
  /\ restarts = 0 =>
       \A k \in 1 .. forwarded :
         \/ \E i \in 1 .. Len(tradeQ) : tradeQ[i] = k
         \/ k \in Buffered(OrderOf(k)) \cup InLedger(OrderOf(k))

(* A fill of one of our orders is booked as an orphan only when the        *)
(* acknowledgement of the order did not name it; in particular never for   *)
(* arriving before the acknowledgement.                                    *)
OrphanOnlyWhenUnnamed ==
  restarts = 0 =>
    \A o \in Own : \A i \in 1 .. Len(book.ledger[o]) :
      ~ book.ledger[o][i].owned => o \in unnamed
=============================================================================
