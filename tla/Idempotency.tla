---------------------------- MODULE Idempotency ----------------------------
(***************************************************************************)
(* The in-memory idempotency store of the gateway's command consumer       *)
(* (services/command_consumer.rs, struct InMemoryIdempotency): a map from  *)
(* request id to the instant it was first seen, and a queue of the same    *)
(* ids in insertion order.  Both are represented by one record, so that    *)
(* the command path can keep one store per gateway process.                *)
(*                                                                         *)
(* The operators are pure; IdempotencyStore.tla wraps them in a state      *)
(* machine and CommandPath.tla calls them from the command loop.           *)
(***************************************************************************)
EXTENDS Integers, Sequences

CONSTANTS
  Requests,    \* request ids (uuid::Uuid)
  Ttl,         \* how long an id is remembered, in ticks of the clock
  MaxEntries   \* capacity of the store (field max)

ASSUME TtlAssumption == Ttl \in Nat
ASSUME MaxEntriesAssumption == MaxEntries \in Nat \ {0}

(* A store: entries is a function on the remembered ids, order a queue.    *)
EmptyStore == [entries |-> [r \in {} |-> 0], order |-> << >>]

(* A store at an instant: a map to earlier instants and a queue of ids.    *)
Stores(t) ==
  [entries : UNION {[ids -> 0 .. t] : ids \in SUBSET Requests}, order : Seq(Requests)]

(* The map and the queue hold the same ids, each id is queued once and the *)
(* queue is in order of age.                                               *)
Consistent(st) ==
  /\ DOMAIN st.entries = {st.order[i] : i \in 1 .. Len(st.order)}
  /\ \A i, j \in 1 .. Len(st.order) :
       i < j => /\ st.order[i] # st.order[j]
                /\ st.entries[st.order[i]] <= st.entries[st.order[j]]

Remembers(st, r) == r \in DOMAIN st.entries

(* Variant of LivePositions: an id expires one tick early.                 *)
LivePositionsStrict(st, now) ==
  {i \in 1 .. Len(st.order) :
     /\ st.order[i] \in DOMAIN st.entries
     /\ now - st.entries[st.order[i]] < Ttl}

(* Positions of the queue at which the eviction loop stops: the id is      *)
(* still in the map and is not older than the ttl.                         *)
LivePositions(st, now) ==
  {i \in 1 .. Len(st.order) :
     /\ st.order[i] \in DOMAIN st.entries
     /\ now - st.entries[st.order[i]] <= Ttl}

(* The first such position; one past the end when the loop empties the     *)
(* queue.                                                                  *)
FirstLive(st, now) ==
  IF LivePositions(st, now) = {}
    THEN Len(st.order) + 1
    ELSE CHOOSE i \in LivePositions(st, now) :
           \A j \in LivePositions(st, now) : i <= j

(* What remains of a store when the first n ids of its queue are popped.   *)
DropFront(st, n) ==
  LET kept == {r \in DOMAIN st.entries : \A i \in 1 .. n : st.order[i] # r}
  IN  [entries |-> [r \in kept |-> st.entries[r]],
       order   |-> SubSeq(st.order, n + 1, Len(st.order))]

(* Variant of EvictExpired: expired ids stay until they overflow.          *)
EvictExpiredNever(st, now) == st

EvictExpired(st, now) == DropFront(st, FirstLive(st, now) - 1)

(* Variant of EvictOverflow: one id too many is kept.                      *)
EvictOverflowLate(st) ==
  IF Len(st.order) > MaxEntries + 1
    THEN DropFront(st, Len(st.order) - MaxEntries)
    ELSE st

EvictOverflow(st) ==
  IF Len(st.order) > MaxEntries
    THEN DropFront(st, Len(st.order) - MaxEntries)
    ELSE st

(* Variant of Remember: the instant stored is the end of the ttl.          *)
RememberDeadline(st, r, now) ==
  [entries |-> [q \in DOMAIN st.entries \cup {r} |->
                  IF q = r THEN now + Ttl ELSE st.entries[q]],
   order   |-> Append(st.order, r)]

(* Insert a fresh id at the back of the queue.                             *)
Remember(st, r, now) ==
  [entries |-> [q \in DOMAIN st.entries \cup {r} |->
                  IF q = r THEN now ELSE st.entries[q]],
   order   |-> Append(st.order, r)]

(* check_and_set answers true when the id was not remembered, after the    *)
(* expired ids are gone.                                                   *)
IsFresh(st, r, now) == ~ Remembers(EvictExpired(st, now), r)

CheckAndSet(st, r, now) ==
  LET live == EvictExpired(st, now)
  IN  IF Remembers(live, r)
        THEN live
        ELSE EvictOverflow(Remember(live, r, now))
=============================================================================
