-------------------------- MODULE IdempotencyStore --------------------------
(***************************************************************************)
(* InMemoryIdempotency as a state machine: any caller asks check_and_set   *)
(* for any request id at any time.  The answers are recorded, because what *)
(* the store promises is about answers given at different times.           *)
(***************************************************************************)
EXTENDS Idempotency, FiniteSets

CONSTANTS
  MaxTime,    \* bound of the clock (model bound, not in the code)
  MaxCalls    \* bound on the number of recorded calls (model bound)

ASSUME MaxTimeAssumption == MaxTime \in Nat
ASSUME MaxCallsAssumption == MaxCalls \in Nat

VARIABLES
  store,   \* the store
  now,     \* Instant::now()
  calls    \* history: the calls made, with their answers

vars == <<store, now, calls>>

Init ==
  /\ store = EmptyStore
  /\ now = 0
  /\ calls = << >>

Call(r) ==
  /\ Len(calls) < MaxCalls
  /\ store' = CheckAndSet(store, r, now)
  /\ calls' = Append(calls, [req |-> r, fresh |-> IsFresh(store, r, now), at |-> now])
  /\ UNCHANGED now

Tick ==
  /\ now < MaxTime
  /\ now' = now + 1
  /\ UNCHANGED <<store, calls>>

Next == Tick \/ \E r \in Requests : Call(r)

Spec == Init /\ [][Next]_vars

-----------------------------------------------------------------------------
TypeOK ==
  /\ store \in Stores(now)
  /\ now \in 0 .. MaxTime
  /\ calls \in Seq([req : Requests, fresh : BOOLEAN, at : 0 .. MaxTime])

(* The map and the queue hold the same ids, each id is queued once, the    *)
(* queue is in order of age and, between calls, within the capacity.  The  *)
(* two are guarded by two locks that check_and_set takes one after the     *)
(* other; the eviction loop relies on this agreement when it stops at the  *)
(* first id that has not expired.                                          *)
WithinCapacity == Len(store.order) <= MaxEntries
MapMatchesQueue == Consistent(store) /\ WithinCapacity

(* An id answered "fresh" twice was forgotten in between for one of the    *)
(* two permitted reasons: more than Ttl passed since it was remembered, or *)
(* at least MaxEntries other fresh ids were pushed behind it.              *)
FreshBetween(i, j) == {k \in i + 1 .. j - 1 : calls[k].fresh}

FreshAgainOnlyAfterEviction ==
  \A i, j \in 1 .. Len(calls) :
    (i < j /\ calls[i].req = calls[j].req /\ calls[i].fresh /\ calls[j].fresh)
      => \/ calls[j].at - calls[i].at > Ttl
         \/ Cardinality(FreshBetween(i, j)) >= MaxEntries

(* An id answered "duplicate" was answered "fresh" not longer than Ttl ago *)
(* : no command is refused because of a request the store should already   *)
(* have forgotten, or never saw.                                           *)
DuplicateOnlyWithinTtl ==
  \A j \in 1 .. Len(calls) :
    ~ calls[j].fresh =>
      \E i \in 1 .. j - 1 : /\ calls[i].req = calls[j].req
                            /\ calls[i].fresh
                            /\ calls[j].at - calls[i].at <= Ttl
=============================================================================
