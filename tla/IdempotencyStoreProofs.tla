----------------------- MODULE IdempotencyStoreProofs -----------------------
(***************************************************************************)
(* The properties of the idempotency store, for every set of request ids,  *)
(* every ttl and every capacity.                                           *)
(*                                                                         *)
(* The inductive invariant adds to the type, the consistency and the       *)
(* capacity of the store what relates its present content to the answers   *)
(* given so far: every remembered id was answered "fresh" at the instant   *)
(* stored with it (Recorded), and every "fresh" answer is too old to       *)
(* matter, was followed by enough other fresh ids to be pushed out, or its *)
(* id is still in the queue with few enough ids behind it (Tracked).       *)
(*                                                                         *)
(* The lemmas about the operators come first.  CommandPathProofs.tla has   *)
(* the same ones: a lemma is cited in the modules that extend its own, and *)
(* the state machines of the two have names in common.                     *)
(***************************************************************************)
EXTENDS IdempotencyStore, NaturalsInduction, SequenceTheorems,
        WellFoundedInduction, FiniteSetTheorems, TLAPS

(* A store is a record of a map and a queue.                               *)
LEMMA StoreParts ==
  ASSUME NEW st, NEW t
  PROVE  st \in Stores(t) <=>
           /\ st = [entries |-> st.entries, order |-> st.order]
           /\ st.order \in Seq(Requests)
           /\ DOMAIN st.entries \subseteq Requests
           /\ st.entries \in [DOMAIN st.entries -> 0 .. t]
  BY DEF Stores

(* What is right at an instant is right at any later one.                  *)
LEMMA StoreLater ==
  ASSUME NEW t \in Nat, NEW u \in Nat, t <= u, NEW st \in Stores(t)
  PROVE  st \in Stores(u)
<1>1. \A x \in 0 .. t : x \in 0 .. u
  OBVIOUS
<1> QED
  BY <1>1, StoreParts

(* Popping the first n ids keeps a store consistent: the other ids keep    *)
(* their instants and move n places forward.                               *)
LEMMA DropFrontKeeps ==
  ASSUME NEW t \in Nat, NEW st \in Stores(t), Consistent(st),
         NEW n \in 0 .. Len(st.order)
  PROVE  LET d == DropFront(st, n) IN
         /\ d \in Stores(t)
         /\ Consistent(d)
         /\ Len(d.order) = Len(st.order) - n
         /\ \A i \in 1 .. Len(st.order) - n : d.order[i] = st.order[n + i]
         /\ DOMAIN d.entries = {r \in DOMAIN st.entries : \A i \in 1 .. n : st.order[i] # r}
         /\ \A r \in DOMAIN d.entries : d.entries[r] = st.entries[r]
<1> DEFINE d == DropFront(st, n)
           L == Len(st.order)
           kept == {r \in DOMAIN st.entries : \A i \in 1 .. n : st.order[i] # r}
<1>1. /\ st.order \in Seq(Requests)
      /\ DOMAIN st.entries \subseteq Requests
      /\ st.entries \in [DOMAIN st.entries -> 0 .. t]
      /\ L \in Nat
  BY StoreParts, LenProperties
<1>2. /\ d.entries = [r \in kept |-> st.entries[r]]
      /\ d.order = SubSeq(st.order, n + 1, L)
      /\ d = [entries |-> d.entries, order |-> d.order]
  BY DEF DropFront
<1>3. \A i \in n + 1 .. L : st.order[i] \in Requests
  BY <1>1, ElementOfSeq
<1>4. /\ d.order \in Seq(Requests)
      /\ Len(d.order) = L - n
      /\ \A i \in 1 .. L - n : d.order[i] = st.order[n + i]
  <2>1. /\ SubSeq(st.order, n + 1, L) \in Seq(Requests)
        /\ Len(SubSeq(st.order, n + 1, L)) = IF n + 1 <= L THEN L - (n + 1) + 1 ELSE 0
        /\ \A i \in 1 .. L - (n + 1) + 1 : SubSeq(st.order, n + 1, L)[i] = st.order[n + 1 + i - 1]
    BY ONLY <1>1, <1>3, SubSeqProperties, n \in 0 .. L, n + 1 \in Int, L \in Int
  <2> QED
    BY <2>1, <1>1, <1>2
<1>5. d \in Stores(t)
  <2>1. DOMAIN d.entries \subseteq Requests /\ d.entries \in [DOMAIN d.entries -> 0 .. t]
    BY <1>1, <1>2
  <2> HIDE DEF d
  <2> QED
    BY <2>1, <1>2, <1>4, StoreParts
<1>6. DOMAIN d.entries = {d.order[i] : i \in 1 .. Len(d.order)}
  <2>1. ASSUME NEW r \in kept PROVE \E i \in 1 .. L - n : r = d.order[i]
    <3>1. PICK j \in 1 .. L : r = st.order[j]
      BY DEF Consistent
    <3>2. j > n
      BY <3>1, <2>1, <1>1
    <3>3. j - n \in 1 .. L - n /\ n + (j - n) = j
      BY <3>2, <1>1
    <3> QED
      BY <3>1, <3>3, <1>4
  <2>2. ASSUME NEW i \in 1 .. L - n PROVE d.order[i] \in kept
    <3>1. n + i \in 1 .. L
      BY <1>1
    <3>2. st.order[n + i] \in DOMAIN st.entries
      BY <3>1 DEF Consistent
    <3>3. \A j \in 1 .. n : st.order[j] # st.order[n + i]
      BY <3>1, <1>1 DEF Consistent
    <3> QED
      BY <3>2, <3>3, <1>4
  <2> QED
    BY <2>1, <2>2, <1>2, <1>4
<1>7. ASSUME NEW i \in 1 .. Len(d.order), NEW j \in 1 .. Len(d.order), i < j
      PROVE  d.order[i] # d.order[j] /\ d.entries[d.order[i]] <= d.entries[d.order[j]]
  <2>1. /\ n + i \in 1 .. L /\ n + j \in 1 .. L /\ n + i < n + j
        /\ d.order[i] = st.order[n + i] /\ d.order[j] = st.order[n + j]
    <3>1. L \in Nat /\ n \in 0 .. L /\ i \in 1 .. L - n /\ j \in 1 .. L - n
      BY <1>1, <1>4
    <3>2. d.order[i] = st.order[n + i] /\ d.order[j] = st.order[n + j]
      BY <3>1, <1>4
    <3> HIDE DEF L, d
    <3>3. n + i \in 1 .. L /\ n + j \in 1 .. L /\ n + i < n + j
      BY <3>1, <1>7
    <3> QED
      BY <3>2, <3>3
  <2>2. d.order[i] \in kept /\ d.order[j] \in kept
    BY <1>2, <1>6
  <2>3. /\ d.entries[d.order[i]] = st.entries[st.order[n + i]]
        /\ d.entries[d.order[j]] = st.entries[st.order[n + j]]
    BY <2>1, <2>2, <1>2
  <2>4. /\ st.order[n + i] # st.order[n + j]
        /\ st.entries[st.order[n + i]] <= st.entries[st.order[n + j]]
    BY <2>1 DEF Consistent
  <2> QED
    BY <2>1, <2>3, <2>4
<1> QED
  BY <1>2, <1>4, <1>5, <1>6, <1>7 DEF Consistent

(* A nonempty set of natural numbers has a least element.                  *)
LEMMA LeastNatural ==
  ASSUME NEW S \in SUBSET Nat, S # {}
  PROVE  \E x \in S : \A y \in S : x <= y
<1> DEFINE R == {ss \in Nat \X Nat : ss[1] < ss[2]}
<1>1. IsWellFoundedOn(R, Nat)
  BY NatLessThanWellFounded DEF OpToRel
<1>2. \A x, y \in Nat : <<y, x>> \in R <=> y < x
  OBVIOUS
<1> HIDE DEF R
<1>3. PICK x \in S : \A y \in S : ~ (<<y, x>> \in R)
  BY <1>1, WFMin
<1>4. ASSUME NEW y \in S PROVE x <= y
  <2>1. x \in Nat /\ y \in Nat /\ ~ (y < x)
    BY <1>2, <1>3
  <2> QED
    BY <2>1
<1> QED
  BY <1>4

(* The eviction loop stops at the first live position, or at the end.      *)
LEMMA FirstLiveIsFirst ==
  ASSUME NEW t \in Nat, NEW st \in Stores(t)
  PROVE  /\ FirstLive(st, t) \in 1 .. Len(st.order) + 1
         /\ \A i \in LivePositions(st, t) : FirstLive(st, t) <= i
         /\ FirstLive(st, t) <= Len(st.order) => FirstLive(st, t) \in LivePositions(st, t)
<1> DEFINE S == LivePositions(st, t)
<1>1. Len(st.order) \in Nat /\ S \subseteq 1 .. Len(st.order)
  BY StoreParts, LenProperties DEF LivePositions
<1>2. CASE S = {}
  BY <1>1, <1>2 DEF FirstLive
<1>3. CASE S # {}
  <2>1. \E x \in S : \A y \in S : x <= y
    BY <1>1, <1>3, LeastNatural
  <2>2. FirstLive(st, t) = CHOOSE i \in S : \A j \in S : i <= j
    BY <1>3 DEF FirstLive
  <2>3. FirstLive(st, t) \in S /\ \A j \in S : FirstLive(st, t) <= j
    BY <2>1, <2>2
  <2> QED
    BY <1>1, <2>3
<1> QED
  BY <1>2, <1>3

(* After evict_expired exactly the ids that are not older than the ttl are *)
(* left, because the queue is in order of age.                             *)
LEMMA EvictExpiredKeeps ==
  ASSUME NEW t \in Nat, NEW st \in Stores(t), Consistent(st)
  PROVE  LET e == EvictExpired(st, t)
             n == FirstLive(st, t) - 1
         IN  /\ n \in 0 .. Len(st.order)
             /\ e \in Stores(t)
             /\ Consistent(e)
             /\ Len(e.order) = Len(st.order) - n
             /\ \A i \in 1 .. Len(e.order) : e.order[i] = st.order[n + i]
             /\ DOMAIN e.entries = {r \in DOMAIN st.entries : t - st.entries[r] <= Ttl}
             /\ \A r \in DOMAIN e.entries : e.entries[r] = st.entries[r]
<1> DEFINE n == FirstLive(st, t) - 1
           e == EvictExpired(st, t)
           L == Len(st.order)
<1>1. /\ L \in Nat
      /\ st.entries \in [DOMAIN st.entries -> 0 .. t]
      /\ Ttl \in Nat
  BY StoreParts, LenProperties, TtlAssumption
<1>2. n \in 0 .. L /\ (n < L => n + 1 \in LivePositions(st, t))
      /\ \A i \in LivePositions(st, t) : n < i
  BY FirstLiveIsFirst, <1>1 DEF LivePositions
<1>3. e = DropFront(st, n)
  BY DEF EvictExpired
<1>4. /\ e \in Stores(t) /\ Consistent(e) /\ Len(e.order) = L - n
      /\ \A i \in 1 .. L - n : e.order[i] = st.order[n + i]
      /\ DOMAIN e.entries = {r \in DOMAIN st.entries : \A i \in 1 .. n : st.order[i] # r}
      /\ \A r \in DOMAIN e.entries : e.entries[r] = st.entries[r]
  BY <1>2, <1>3, DropFrontKeeps
<1>5. ASSUME NEW j \in 1 .. L PROVE t - st.entries[st.order[j]] <= Ttl <=> n < j
  <2>1. st.order[j] \in DOMAIN st.entries
    BY DEF Consistent
  <2>2. j \in LivePositions(st, t) <=> t - st.entries[st.order[j]] <= Ttl
    BY <2>1 DEF LivePositions
  <2>3. CASE n < j
    <3>1. n + 1 \in LivePositions(st, t) /\ n + 1 \in 1 .. L /\ n + 1 <= j
      BY <1>1, <1>2, <2>3
    <3>2. st.order[n + 1] \in DOMAIN st.entries /\ t - st.entries[st.order[n + 1]] <= Ttl
      BY <3>1 DEF LivePositions
    <3>3. st.entries[st.order[n + 1]] <= st.entries[st.order[j]]
      <4>1. CASE n + 1 = j
        BY <4>1, <2>1, <1>1
      <4>2. CASE n + 1 < j
        BY <4>2, <3>1 DEF Consistent
      <4> QED
        BY <4>1, <4>2, <3>1, <1>2
    <3>4. st.entries[st.order[n + 1]] \in Nat /\ st.entries[st.order[j]] \in Nat
      BY <3>2, <2>1, <1>1
    <3> QED
      BY <3>2, <3>3, <3>4, <2>3, <1>1
  <2>4. CASE ~ (n < j)
    BY <2>2, <2>4, <1>2
  <2> QED
    BY <2>3, <2>4
<1>6. ASSUME NEW r \in DOMAIN st.entries
      PROVE  (\A i \in 1 .. n : st.order[i] # r) <=> t - st.entries[r] <= Ttl
  <2>1. PICK j \in 1 .. L : r = st.order[j]
    BY DEF Consistent
  <2>2. (\A i \in 1 .. n : st.order[i] # r) <=> n < j
    <3>1. \A i \in 1 .. n : i \in 1 .. L
      BY <1>1, <1>2
    <3>2. n < j => \A i \in 1 .. n : st.order[i] # r
      BY <3>1, <2>1, <1>2 DEF Consistent
    <3> QED
      BY <3>2, <2>1, <1>2
  <2> QED
    BY <2>1, <2>2, <1>5
<1> QED
  BY <1>2, <1>4, <1>6

(* A fresh id goes to the back of the queue with the newest instant.       *)
LEMMA RememberKeeps ==
  ASSUME NEW t \in Nat, NEW st \in Stores(t), Consistent(st),
         NEW r \in Requests, r \notin DOMAIN st.entries
  PROVE  LET m == Remember(st, r, t) IN
         /\ m \in Stores(t)
         /\ Consistent(m)
         /\ Len(m.order) = Len(st.order) + 1
         /\ \A i \in 1 .. Len(st.order) : m.order[i] = st.order[i]
         /\ m.order[Len(st.order) + 1] = r
         /\ DOMAIN m.entries = DOMAIN st.entries \cup {r}
         /\ m.entries[r] = t
         /\ \A q \in DOMAIN st.entries : m.entries[q] = st.entries[q]
<1> DEFINE m == Remember(st, r, t)
           L == Len(st.order)
<1>1. /\ st.order \in Seq(Requests)
      /\ DOMAIN st.entries \subseteq Requests
      /\ st.entries \in [DOMAIN st.entries -> 0 .. t]
      /\ L \in Nat
  BY StoreParts, LenProperties
<1>2. /\ m.entries = [q \in DOMAIN st.entries \cup {r} |-> IF q = r THEN t ELSE st.entries[q]]
      /\ m.order = Append(st.order, r)
      /\ m = [entries |-> m.entries, order |-> m.order]
  BY DEF Remember
<1>3. /\ m.order \in Seq(Requests)
      /\ Len(m.order) = L + 1
      /\ \A i \in 1 .. L : m.order[i] = st.order[i]
      /\ m.order[L + 1] = r
  BY <1>1, <1>2, AppendProperties
<1>4. /\ DOMAIN m.entries = DOMAIN st.entries \cup {r}
      /\ m.entries[r] = t
      /\ \A q \in DOMAIN st.entries : m.entries[q] = st.entries[q]
      /\ m.entries \in [DOMAIN m.entries -> 0 .. t]
  <2>1. t \in 0 .. t
    OBVIOUS
  <2> QED
    BY <2>1, <1>1, <1>2
<1>5. m \in Stores(t)
  BY <1>1, <1>2, <1>3, <1>4, StoreParts
<1>6. DOMAIN m.entries = {m.order[i] : i \in 1 .. Len(m.order)}
  <2>1. 1 .. L + 1 = (1 .. L) \cup {L + 1}
    BY <1>1
  <2>2. {m.order[i] : i \in 1 .. L + 1} = {m.order[i] : i \in 1 .. L} \cup {m.order[L + 1]}
    BY <2>1
  <2>3. {m.order[i] : i \in 1 .. L} = {st.order[i] : i \in 1 .. L}
    BY <1>3
  <2> QED
    BY <2>2, <2>3, <1>3, <1>4 DEF Consistent
<1>7. ASSUME NEW i \in 1 .. Len(m.order), NEW j \in 1 .. Len(m.order), i < j
      PROVE  m.order[i] # m.order[j] /\ m.entries[m.order[i]] <= m.entries[m.order[j]]
  <2>1. i \in 1 .. L /\ m.order[i] = st.order[i] /\ st.order[i] \in DOMAIN st.entries
    BY <1>1, <1>3, <1>7 DEF Consistent
  <2>2. CASE j = L + 1
    <3>1. m.entries[m.order[i]] \in 0 .. t
      BY <2>1, <1>4
    <3> QED
      BY <3>1, <2>1, <2>2, <1>3, <1>4
  <2>3. CASE j # L + 1
    <3>1. j \in 1 .. L /\ m.order[j] = st.order[j] /\ st.order[j] \in DOMAIN st.entries
      BY <2>3, <1>1, <1>3 DEF Consistent
    <3> QED
      BY <3>1, <2>1, <1>4, <1>7 DEF Consistent
  <2> QED
    BY <2>2, <2>3
<1> QED
  BY <1>3, <1>4, <1>5, <1>6, <1>7 DEF Consistent

(* evict_overflow pops as many ids as exceed the capacity.                 *)
LEMMA EvictOverflowKeeps ==
  ASSUME NEW t \in Nat, NEW st \in Stores(t), Consistent(st)
  PROVE  LET o == EvictOverflow(st)
             n == IF Len(st.order) > MaxEntries THEN Len(st.order) - MaxEntries ELSE 0
         IN  /\ o \in Stores(t)
             /\ Consistent(o)
             /\ Len(o.order) = Len(st.order) - n
             /\ Len(o.order) <= MaxEntries
             /\ \A i \in 1 .. Len(o.order) : o.order[i] = st.order[n + i]
             /\ DOMAIN o.entries = {r \in DOMAIN st.entries : \A i \in 1 .. n : st.order[i] # r}
             /\ \A r \in DOMAIN o.entries : o.entries[r] = st.entries[r]
<1> DEFINE n == IF Len(st.order) > MaxEntries THEN Len(st.order) - MaxEntries ELSE 0
<1>1. Len(st.order) \in Nat /\ MaxEntries \in Nat \ {0}
  BY StoreParts, LenProperties, MaxEntriesAssumption
<1>2. CASE Len(st.order) > MaxEntries
  <2>1. EvictOverflow(st) = DropFront(st, Len(st.order) - MaxEntries)
    BY <1>2 DEF EvictOverflow
  <2>2. Len(st.order) - MaxEntries \in 0 .. Len(st.order)
    BY <1>1, <1>2
  <2>3. LET d == DropFront(st, n) IN
        /\ d \in Stores(t)
        /\ Consistent(d)
        /\ Len(d.order) = Len(st.order) - n
        /\ \A i \in 1 .. Len(st.order) - n : d.order[i] = st.order[n + i]
        /\ DOMAIN d.entries = {r \in DOMAIN st.entries : \A i \in 1 .. n : st.order[i] # r}
        /\ \A r \in DOMAIN d.entries : d.entries[r] = st.entries[r]
    <3>1. n \in 0 .. Len(st.order)
      BY <1>1, <1>2, <2>2
    <3> HIDE DEF n
    <3> QED
      BY <3>1, DropFrontKeeps
  <2>4. Len(st.order) - n = MaxEntries
    BY <1>1, <1>2
  <2>5. EvictOverflow(st) = DropFront(st, n)
    BY <2>1, <1>2
  <2> HIDE DEF n
  <2>6. LET o == EvictOverflow(st)
        IN  /\ o \in Stores(t)
            /\ Consistent(o)
            /\ Len(o.order) = Len(st.order) - n
            /\ Len(o.order) <= MaxEntries
            /\ \A i \in 1 .. Len(o.order) : o.order[i] = st.order[n + i]
            /\ DOMAIN o.entries = {r \in DOMAIN st.entries : \A i \in 1 .. n : st.order[i] # r}
            /\ \A r \in DOMAIN o.entries : o.entries[r] = st.entries[r]
    BY <2>3, <2>4, <2>5, <1>1
  <2> QED
    BY <2>6 DEF n
<1>3. CASE ~ (Len(st.order) > MaxEntries)
  <2>1. EvictOverflow(st) = st /\ n = 0
    BY <1>3 DEF EvictOverflow
  <2>2. /\ 1 .. 0 = {} /\ Len(st.order) - 0 = Len(st.order) /\ Len(st.order) <= MaxEntries
        /\ \A i \in 1 .. Len(st.order) : 0 + i = i
    BY <1>1, <1>3
  <2> HIDE DEF n
  <2>3. LET o == EvictOverflow(st)
        IN  /\ o \in Stores(t)
            /\ Consistent(o)
            /\ Len(o.order) = Len(st.order) - n
            /\ Len(o.order) <= MaxEntries
            /\ \A i \in 1 .. Len(o.order) : o.order[i] = st.order[n + i]
            /\ DOMAIN o.entries = {r \in DOMAIN st.entries : \A i \in 1 .. n : st.order[i] # r}
            /\ \A r \in DOMAIN o.entries : o.entries[r] = st.entries[r]
    BY <2>1, <2>2
  <2> QED
    BY <2>3 DEF n
<1> QED
  BY <1>2, <1>3

(* check_and_set keeps a store consistent and within its capacity.         *)
LEMMA CheckAndSetKeeps ==
  ASSUME NEW t \in Nat, NEW st \in Stores(t), Consistent(st),
         Len(st.order) <= MaxEntries, NEW r \in Requests
  PROVE  LET c == CheckAndSet(st, r, t)
         IN  c \in Stores(t) /\ Consistent(c) /\ Len(c.order) <= MaxEntries
<1> DEFINE e == EvictExpired(st, t)
<1>1. e \in Stores(t) /\ Consistent(e) /\ Len(e.order) <= Len(st.order)
  BY EvictExpiredKeeps, StoreParts, LenProperties
<1>2. CASE Remembers(e, r)
  <2>1. CheckAndSet(st, r, t) = e
    BY <1>2 DEF CheckAndSet
  <2>2. Len(e.order) \in Nat /\ Len(st.order) \in Nat /\ MaxEntries \in Nat
    BY <1>1, StoreParts, LenProperties, MaxEntriesAssumption
  <2> QED
    BY <2>1, <2>2, <1>1
<1>3. CASE ~ Remembers(e, r)
  <2>1. CheckAndSet(st, r, t) = EvictOverflow(Remember(e, r, t))
    BY <1>3 DEF CheckAndSet
  <2>2. Remember(e, r, t) \in Stores(t) /\ Consistent(Remember(e, r, t))
    BY <1>1, <1>3, RememberKeeps DEF Remembers
  <2> QED
    BY <2>1, <2>2, EvictOverflowKeeps
<1> QED
  BY <1>2, <1>3

-----------------------------------------------------------------------------
(* The inductive invariant.                                                *)

Recorded(st, cs) ==
  \A r \in DOMAIN st.entries :
    \E i \in 1 .. Len(cs) : /\ cs[i].req = r
                            /\ cs[i].fresh
                            /\ cs[i].at = st.entries[r]

(* The fresh answers after the i-th.                                       *)
FreshAfter(cs, i) == {k \in i + 1 .. Len(cs) : cs[k].fresh}

InQueue(st, cs, i) ==
  \E p \in 1 .. Len(st.order) :
    /\ st.order[p] = cs[i].req
    /\ cs[i].at <= st.entries[cs[i].req]
    /\ Len(st.order) - p <= Cardinality(FreshAfter(cs, i))

Tracked(st, cs, t) ==
  \A i \in 1 .. Len(cs) :
    cs[i].fresh => \/ t - cs[i].at > Ttl
                   \/ Cardinality(FreshAfter(cs, i)) >= MaxEntries
                   \/ InQueue(st, cs, i)

IInv ==
  /\ TypeOK
  /\ MapMatchesQueue
  /\ WithinCapacity
  /\ Recorded(store, calls)
  /\ Tracked(store, calls, now)
  /\ FreshAgainOnlyAfterEviction
  /\ DuplicateOnlyWithinTtl

Calls == Seq([req : Requests, fresh : BOOLEAN, at : 0 .. MaxTime])

-----------------------------------------------------------------------------
(* One more call: the earlier ones keep their places.                      *)
LEMMA OneMoreCall ==
  ASSUME NEW cs \in Calls, NEW c \in [req : Requests, fresh : BOOLEAN, at : 0 .. MaxTime]
  PROVE  /\ Append(cs, c) \in Calls
         /\ Len(cs) \in Nat
         /\ Len(Append(cs, c)) = Len(cs) + 1
         /\ \A i \in 1 .. Len(cs) : Append(cs, c)[i] = cs[i]
         /\ Append(cs, c)[Len(cs) + 1] = c
  BY AppendProperties, LenProperties DEF Calls

LEMMA CallParts ==
  ASSUME NEW cs \in Calls, NEW i \in 1 .. Len(cs)
  PROVE  cs[i].req \in Requests /\ cs[i].fresh \in BOOLEAN /\ cs[i].at \in Nat
<1>1. cs[i] \in [req : Requests, fresh : BOOLEAN, at : 0 .. MaxTime]
  BY ElementOfSeq DEF Calls
<1> QED
  BY <1>1, MaxTimeAssumption

(* How many fresh answers follow the i-th call after one more call.        *)
LEMMA FreshAfterAppend ==
  ASSUME NEW cs \in Calls, NEW c \in [req : Requests, fresh : BOOLEAN, at : 0 .. MaxTime],
         NEW i \in 1 .. Len(cs)
  PROVE  /\ Cardinality(FreshAfter(cs, i)) \in Nat
         /\ Cardinality(FreshAfter(Append(cs, c), i))
              = Cardinality(FreshAfter(cs, i)) + (IF c.fresh THEN 1 ELSE 0)
<1> DEFINE n == Len(cs)
           ds == Append(cs, c)
<1>1. /\ n \in Nat /\ Len(ds) = n + 1 /\ ds[n + 1] = c
      /\ \A k \in 1 .. n : ds[k] = cs[k]
  BY OneMoreCall
<1>2. FreshAfter(cs, i) \subseteq i + 1 .. n
  BY DEF FreshAfter
<1>3. IsFiniteSet(FreshAfter(cs, i)) /\ n + 1 \notin FreshAfter(cs, i)
  <2>1. IsFiniteSet(i + 1 .. n)
    BY <1>1, FS_Interval
  <2> QED
    BY <2>1, <1>1, <1>2, FS_Subset
<1>4. FreshAfter(ds, i) = FreshAfter(cs, i) \cup (IF c.fresh THEN {n + 1} ELSE {})
  BY <1>1 DEF FreshAfter
<1>5. CASE c.fresh
  BY <1>3, <1>4, <1>5, FS_AddElement, FS_CardinalityType
<1>6. CASE ~ c.fresh
  BY <1>3, <1>4, <1>6, FS_CardinalityType
<1> QED
  BY <1>5, <1>6

-----------------------------------------------------------------------------
(* What is tracked stays tracked when expired ids go: only answers older   *)
(* than the ttl lose their place in the queue.                             *)
LEMMA TrackedEvictExpired ==
  ASSUME NEW t \in Nat, NEW st \in Stores(t), Consistent(st),
         NEW cs \in Calls, Tracked(st, cs, t)
  PROVE  Tracked(EvictExpired(st, t), cs, t)
<1> DEFINE e == EvictExpired(st, t)
           n == FirstLive(st, t) - 1
<1>1. /\ n \in 0 .. Len(st.order)
      /\ e \in Stores(t)
      /\ Len(e.order) = Len(st.order) - n
      /\ \A i \in 1 .. Len(e.order) : e.order[i] = st.order[n + i]
      /\ DOMAIN e.entries = {r \in DOMAIN st.entries : t - st.entries[r] <= Ttl}
      /\ \A r \in DOMAIN e.entries : e.entries[r] = st.entries[r]
      /\ Consistent(e)
  BY EvictExpiredKeeps
<1>2. Len(st.order) \in Nat /\ Ttl \in Nat /\ st.entries \in [DOMAIN st.entries -> 0 .. t]
  BY StoreParts, LenProperties, TtlAssumption
<1>3. ASSUME NEW i \in 1 .. Len(cs), InQueue(st, cs, i)
      PROVE  t - cs[i].at > Ttl \/ InQueue(e, cs, i)
  <2> DEFINE r == cs[i].req
  <2>1. PICK p \in 1 .. Len(st.order) :
          /\ st.order[p] = r
          /\ cs[i].at <= st.entries[r]
          /\ Len(st.order) - p <= Cardinality(FreshAfter(cs, i))
    BY <1>3 DEF InQueue
  <2>2. r \in DOMAIN st.entries /\ st.entries[r] \in Nat /\ cs[i].at \in Nat
    <3>1. r \in DOMAIN st.entries
      BY <2>1 DEF Consistent
    <3> QED
      BY <3>1, <1>2, CallParts
  <2>3. CASE t - st.entries[r] > Ttl
    BY <2>1, <2>2, <2>3, <1>2
  <2>4. CASE t - st.entries[r] <= Ttl
    <3>1. r \in DOMAIN e.entries /\ e.entries[r] = st.entries[r]
      BY <1>1, <2>2, <2>4
    <3> HIDE DEF e, n
    <3>2. PICK q \in 1 .. Len(e.order) : e.order[q] = r
      <4>1. DOMAIN e.entries = {e.order[j] : j \in 1 .. Len(e.order)}
        BY <1>1 DEF Consistent
      <4> QED
        BY <3>1, <4>1
    <3>3. n + q \in 1 .. Len(st.order) /\ st.order[n + q] = r
      <4>1. n \in Nat /\ q \in Nat /\ Len(e.order) \in Nat
        BY <1>1, <1>2
      <4> QED
        BY <4>1, <1>1, <1>2, <3>2
    <3>4. n + q = p
      <4>1. \A j, k \in 1 .. Len(st.order) : j < k => st.order[j] # st.order[k]
        BY DEF Consistent
      <4>2. ~ (n + q < p) /\ ~ (p < n + q)
        BY <2>1, <3>3, <4>1
      <4> QED
        BY <4>2, <3>3, <1>2
    <3>5. Len(e.order) - q = Len(st.order) - p
      <4>1. /\ n \in Nat /\ q \in Nat /\ Len(st.order) \in Nat
            /\ Len(e.order) = Len(st.order) - n
        BY <1>1, <1>2
      <4> QED
        BY <4>1, <3>4
    <3> QED
      BY <2>1, <3>1, <3>2, <3>5 DEF InQueue
  <2> QED
    BY <2>2, <2>3, <2>4, <1>2
<1> QED
  BY <1>3 DEF Tracked

(* The fresh id moves every other id of the queue one place from its end,  *)
(* and is one more fresh answer after theirs.                              *)
LEMMA TrackedRemember ==
  ASSUME NEW t \in Nat, t <= MaxTime, NEW st \in Stores(t), Consistent(st),
         NEW r \in Requests, r \notin DOMAIN st.entries,
         NEW cs \in Calls, Tracked(st, cs, t)
  PROVE  Tracked(Remember(st, r, t), Append(cs, [req |-> r, fresh |-> TRUE, at |-> t]), t)
<1> DEFINE m == Remember(st, r, t)
           c == [req |-> r, fresh |-> TRUE, at |-> t]
           ds == Append(cs, c)
           L == Len(st.order)
<1>1. c \in [req : Requests, fresh : BOOLEAN, at : 0 .. MaxTime] /\ c.fresh
  BY MaxTimeAssumption
<1>2. /\ ds \in Calls /\ Len(cs) \in Nat /\ Len(ds) = Len(cs) + 1 /\ ds[Len(cs) + 1] = c
      /\ \A i \in 1 .. Len(cs) : ds[i] = cs[i]
  BY <1>1, OneMoreCall
<1>3. /\ Len(m.order) = L + 1
      /\ \A i \in 1 .. L : m.order[i] = st.order[i]
      /\ m.order[L + 1] = r
      /\ m.entries[r] = t
      /\ \A q \in DOMAIN st.entries : m.entries[q] = st.entries[q]
  BY RememberKeeps
<1>4. L \in Nat /\ MaxEntries \in Nat
  BY StoreParts, LenProperties, MaxEntriesAssumption
<1>5. ASSUME NEW i \in 1 .. Len(cs)
      PROVE  /\ Cardinality(FreshAfter(cs, i)) \in Nat
             /\ Cardinality(FreshAfter(ds, i)) = Cardinality(FreshAfter(cs, i)) + 1
  BY <1>1, FreshAfterAppend
<1> HIDE DEF c
<1>6. ASSUME NEW i \in 1 .. Len(cs), InQueue(st, cs, i) PROVE InQueue(m, ds, i)
  <2>1. PICK p \in 1 .. L :
          /\ st.order[p] = cs[i].req
          /\ cs[i].at <= st.entries[cs[i].req]
          /\ L - p <= Cardinality(FreshAfter(cs, i))
    BY <1>6 DEF InQueue
  <2>2. cs[i].req \in DOMAIN st.entries
    BY <2>1 DEF Consistent
  <2>3. p \in 1 .. Len(m.order) /\ m.order[p] = ds[i].req
    BY <2>1, <1>2, <1>3, <1>4
  <2>4. ds[i].at <= m.entries[ds[i].req]
    BY <2>1, <2>2, <1>2, <1>3
  <2>5. Len(m.order) - p <= Cardinality(FreshAfter(ds, i))
    BY <2>1, <1>3, <1>4, <1>5
  <2> QED
    BY <2>3, <2>4, <2>5 DEF InQueue
<1>7. InQueue(m, ds, Len(cs) + 1)
  <2>1. FreshAfter(ds, Len(cs) + 1) = {}
    BY <1>2 DEF FreshAfter
  <2>2. Cardinality(FreshAfter(ds, Len(cs) + 1)) = 0
    BY <2>1, FS_EmptySet
  <2>3. ds[Len(cs) + 1].req = r /\ ds[Len(cs) + 1].at = t
    BY <1>2 DEF c
  <2>4. L + 1 \in 1 .. Len(m.order) /\ Len(m.order) - (L + 1) = 0
    BY <1>3, <1>4
  <2> QED
    BY <2>2, <2>3, <2>4, <1>3 DEF InQueue
<1>8. ASSUME NEW i \in 1 .. Len(ds), ds[i].fresh
      PROVE  \/ t - ds[i].at > Ttl
             \/ Cardinality(FreshAfter(ds, i)) >= MaxEntries
             \/ InQueue(m, ds, i)
  <2>1. CASE i = Len(cs) + 1
    BY <2>1, <1>7
  <2>2. CASE i # Len(cs) + 1
    <3>1. i \in 1 .. Len(cs) /\ cs[i] = ds[i]
      BY <2>2, <1>2
    <3> QED
      BY <3>1, <1>4, <1>5, <1>6, <1>8 DEF Tracked
  <2> QED
    BY <2>1, <2>2
<1> QED
  BY <1>8 DEF Tracked, c

(* An id pushed out by an overflow had at least MaxEntries ids behind it.  *)
LEMMA TrackedEvictOverflow ==
  ASSUME NEW t \in Nat, NEW st \in Stores(t), Consistent(st),
         NEW cs \in Calls, Tracked(st, cs, t)
  PROVE  Tracked(EvictOverflow(st), cs, t)
<1> DEFINE o == EvictOverflow(st)
           L == Len(st.order)
           n == IF L > MaxEntries THEN L - MaxEntries ELSE 0
<1>1. L \in Nat /\ MaxEntries \in Nat /\ n \in 0 .. L
  BY StoreParts, LenProperties, MaxEntriesAssumption
<1>2. /\ Len(o.order) = L - n
      /\ \A i \in 1 .. Len(o.order) : o.order[i] = st.order[n + i]
      /\ DOMAIN o.entries = {r \in DOMAIN st.entries : \A i \in 1 .. n : st.order[i] # r}
      /\ \A r \in DOMAIN o.entries : o.entries[r] = st.entries[r]
      /\ Consistent(o)
  BY EvictOverflowKeeps
<1>3. ASSUME NEW i \in 1 .. Len(cs), InQueue(st, cs, i)
      PROVE  Cardinality(FreshAfter(cs, i)) >= MaxEntries \/ InQueue(o, cs, i)
  <2> DEFINE k == Cardinality(FreshAfter(cs, i))
  <2>1. PICK p \in 1 .. L :
          /\ st.order[p] = cs[i].req
          /\ cs[i].at <= st.entries[cs[i].req]
          /\ L - p <= k
    BY <1>3 DEF InQueue
  <2>2. k \in Nat
    <3>1. Len(cs) \in Nat /\ FreshAfter(cs, i) \subseteq i + 1 .. Len(cs)
      BY LenProperties DEF Calls, FreshAfter
    <3>2. IsFiniteSet(i + 1 .. Len(cs))
      BY <3>1, FS_Interval
    <3> QED
      BY <3>1, <3>2, FS_Subset, FS_CardinalityType
  <2>3. CASE p <= n
    <3>1. L - p >= MaxEntries
      BY <2>3, <1>1
    <3> QED
      BY <3>1, <2>1, <2>2, <1>1
  <2>4. CASE p > n
    <3>1. /\ p - n \in 1 .. Len(o.order) /\ n + (p - n) = p
          /\ Len(o.order) - (p - n) = L - p
      <4>1. L \in Nat /\ n \in 0 .. L /\ p \in 1 .. L /\ Len(o.order) = L - n
        BY <1>1, <1>2
      <4> HIDE DEF o, n, L
      <4> QED
        BY <4>1, <2>4
    <3>2. o.order[p - n] = cs[i].req
      BY <3>1, <2>1, <1>2
    <3> HIDE DEF o, n
    <3>3. o.entries[cs[i].req] = st.entries[cs[i].req]
      <4>1. o.order[p - n] \in DOMAIN o.entries
        BY <3>1, <1>2 DEF Consistent
      <4> QED
        BY <3>2, <4>1, <1>2
    <3> QED
      BY <3>1, <3>2, <3>3, <2>1 DEF InQueue
  <2> QED
    BY <2>3, <2>4, <1>1
<1> QED
  BY <1>3 DEF Tracked

(* A duplicate answer changes nothing for the fresh ones.                  *)
LEMMA TrackedDuplicate ==
  ASSUME NEW t \in Nat, t <= MaxTime, NEW st, NEW r \in Requests,
         NEW cs \in Calls, Tracked(st, cs, t)
  PROVE  Tracked(st, Append(cs, [req |-> r, fresh |-> FALSE, at |-> t]), t)
<1> DEFINE c == [req |-> r, fresh |-> FALSE, at |-> t]
           ds == Append(cs, c)
<1>1. c \in [req : Requests, fresh : BOOLEAN, at : 0 .. MaxTime] /\ ~ c.fresh
  BY MaxTimeAssumption
<1> HIDE DEF c
<1>2. /\ Len(cs) \in Nat /\ Len(ds) = Len(cs) + 1 /\ ds[Len(cs) + 1] = c
      /\ \A i \in 1 .. Len(cs) : ds[i] = cs[i]
  BY <1>1, OneMoreCall
<1>3. ASSUME NEW i \in 1 .. Len(cs)
      PROVE  Cardinality(FreshAfter(ds, i)) = Cardinality(FreshAfter(cs, i))
  BY <1>1, FreshAfterAppend
<1>4. ASSUME NEW i \in 1 .. Len(ds), ds[i].fresh
      PROVE  \/ t - ds[i].at > Ttl
             \/ Cardinality(FreshAfter(ds, i)) >= MaxEntries
             \/ InQueue(st, ds, i)
  <2>1. i \in 1 .. Len(cs) /\ ds[i] = cs[i]
    BY <1>1, <1>2, <1>4
  <2> QED
    BY <2>1, <1>3, <1>4 DEF Tracked, InQueue
<1> QED
  BY <1>4 DEF Tracked, c

-----------------------------------------------------------------------------
(* What is recorded stays recorded: while ids leave the store, and when a  *)
(* fresh id enters it together with its answer.                            *)
LEMMA RecordedFewer ==
  ASSUME NEW st, NEW sd, NEW cs, Recorded(st, cs),
         \A r \in DOMAIN sd.entries :
           r \in DOMAIN st.entries /\ sd.entries[r] = st.entries[r]
  PROVE  Recorded(sd, cs)
  BY DEF Recorded

LEMMA RecordedMore ==
  ASSUME NEW st, NEW cs \in Calls, Recorded(st, cs),
         NEW c \in [req : Requests, fresh : BOOLEAN, at : 0 .. MaxTime]
  PROVE  Recorded(st, Append(cs, c))
<1> DEFINE ds == Append(cs, c)
<1>1. /\ Len(cs) \in Nat /\ Len(ds) = Len(cs) + 1
      /\ \A i \in 1 .. Len(cs) : ds[i] = cs[i]
  BY OneMoreCall
<1>2. \A i \in 1 .. Len(cs) : i \in 1 .. Len(ds)
  BY <1>1
<1> HIDE DEF ds
<1>3. Recorded(st, ds)
  BY <1>1, <1>2 DEF Recorded
<1> QED
  BY <1>3 DEF ds

LEMMA RecordedRemember ==
  ASSUME NEW t \in Nat, t <= MaxTime, NEW st \in Stores(t), Consistent(st),
         NEW r \in Requests, r \notin DOMAIN st.entries,
         NEW cs \in Calls, Recorded(st, cs)
  PROVE  Recorded(Remember(st, r, t), Append(cs, [req |-> r, fresh |-> TRUE, at |-> t]))
<1> DEFINE m == Remember(st, r, t)
           c == [req |-> r, fresh |-> TRUE, at |-> t]
           ds == Append(cs, c)
<1>1. c \in [req : Requests, fresh : BOOLEAN, at : 0 .. MaxTime]
  BY MaxTimeAssumption
<1>2. /\ Len(cs) \in Nat /\ Len(ds) = Len(cs) + 1 /\ ds[Len(cs) + 1] = c
  BY <1>1, OneMoreCall
<1>3. Recorded(st, ds)
  BY <1>1, RecordedMore
<1>4. /\ DOMAIN m.entries = DOMAIN st.entries \cup {r}
      /\ m.entries[r] = t
      /\ \A q \in DOMAIN st.entries : m.entries[q] = st.entries[q]
  BY RememberKeeps
<1>5. \E i \in 1 .. Len(ds) : ds[i].req = r /\ ds[i].fresh /\ ds[i].at = m.entries[r]
  BY <1>2, <1>4
<1> HIDE DEF ds, m
<1>6. Recorded(m, ds)
  BY <1>3, <1>4, <1>5 DEF Recorded
<1> QED
  BY <1>6 DEF ds, m

-----------------------------------------------------------------------------
LEMMA InitInvariant == Init => IInv
<1> SUFFICES ASSUME Init PROVE IInv
  OBVIOUS
<1>1. store = [entries |-> [r \in {} |-> 0], order |-> << >>] /\ now = 0 /\ calls = << >>
  BY DEF Init, EmptyStore
<1>2. /\ store.order = << >> /\ Len(store.order) = 0 /\ DOMAIN store.entries = {}
      /\ store.entries \in [{} -> 0 .. 0] /\ 1 .. 0 = {}
  BY <1>1
<1>3. store \in Stores(now)
  <2>1. << >> \in Seq(Requests) /\ store = [entries |-> store.entries, order |-> store.order]
    BY <1>1
  <2>2. {} \subseteq Requests /\ now = 0
    BY <1>1
  <2> QED
    BY <1>2, <2>1, <2>2, StoreParts
<1>4. TypeOK
  BY <1>1, <1>3, MaxTimeAssumption DEF TypeOK
<1>5. MapMatchesQueue /\ WithinCapacity
  BY <1>2, MaxEntriesAssumption DEF MapMatchesQueue, Consistent, WithinCapacity
<1>6. Recorded(store, calls) /\ Tracked(store, calls, now)
  BY <1>1, <1>2 DEF Recorded, Tracked
<1>7. FreshAgainOnlyAfterEviction /\ DuplicateOnlyWithinTtl
  BY <1>1 DEF FreshAgainOnlyAfterEviction, DuplicateOnlyWithinTtl
<1> QED
  BY <1>4, <1>5, <1>6, <1>7 DEF IInv

LEMMA TickInvariant == IInv /\ Tick => IInv'
<1> SUFFICES ASSUME IInv, Tick PROVE IInv'
  OBVIOUS
<1>1. /\ now' = now + 1 /\ now < MaxTime /\ store' = store /\ calls' = calls
      /\ now \in Nat /\ now' \in Nat /\ now <= now' /\ now' \in 0 .. MaxTime
  BY MaxTimeAssumption DEF IInv, TypeOK, Tick
<1>2. TypeOK'
  <2>1. store \in Stores(now')
    BY <1>1, StoreLater DEF IInv, TypeOK
  <2> QED
    BY <1>1, <2>1 DEF IInv, TypeOK
<1>3. MapMatchesQueue' /\ WithinCapacity' /\ Recorded(store, calls)'
  BY <1>1 DEF IInv, MapMatchesQueue, WithinCapacity, Recorded
<1>4. Tracked(store', calls', now')
  <2>1. calls \in Calls
    BY DEF IInv, TypeOK, Calls
  <2>2. ASSUME NEW i \in 1 .. Len(calls), calls[i].fresh
        PROVE  \/ now' - calls[i].at > Ttl
               \/ Cardinality(FreshAfter(calls, i)) >= MaxEntries
               \/ InQueue(store, calls, i)
    <3>1. calls[i].at \in Nat
      BY <2>1, CallParts
    <3> QED
      BY <3>1, <1>1, <2>2, TtlAssumption DEF IInv, Tracked
  <2> QED
    BY <2>2, <1>1 DEF Tracked
<1>5. FreshAgainOnlyAfterEviction' /\ DuplicateOnlyWithinTtl'
  BY <1>1 DEF IInv, FreshAgainOnlyAfterEviction, DuplicateOnlyWithinTtl, FreshBetween
<1> QED
  BY <1>1, <1>2, <1>3, <1>4, <1>5 DEF IInv

(* The store and what its history says of it, after a call.                *)
LEMMA CallStore ==
  ASSUME IInv, NEW r \in Requests, Call(r)
  PROVE  /\ store' \in Stores(now)
         /\ Consistent(store')
         /\ Len(store'.order) <= MaxEntries
         /\ Recorded(store', calls')
         /\ Tracked(store', calls', now)
<1> DEFINE live == EvictExpired(store, now)
           c == [req |-> r, fresh |-> IsFresh(store, r, now), at |-> now]
<1>1. /\ now \in Nat /\ now <= MaxTime /\ store \in Stores(now) /\ Consistent(store)
      /\ Len(store.order) <= MaxEntries /\ calls \in Calls
      /\ Recorded(store, calls) /\ Tracked(store, calls, now)
  BY MaxTimeAssumption DEF IInv, TypeOK, MapMatchesQueue, WithinCapacity, Calls
<1>2. store' = CheckAndSet(store, r, now) /\ calls' = Append(calls, c)
  BY DEF Call
<1>3. store' \in Stores(now) /\ Consistent(store') /\ Len(store'.order) <= MaxEntries
  BY <1>1, <1>2, CheckAndSetKeeps
<1>4. /\ live \in Stores(now) /\ Consistent(live)
      /\ \A q \in DOMAIN live.entries : q \in DOMAIN store.entries /\ live.entries[q] = store.entries[q]
  BY <1>1, EvictExpiredKeeps
<1>5. Recorded(live, calls) /\ Tracked(live, calls, now)
  BY <1>1, <1>4, RecordedFewer, TrackedEvictExpired
<1>6. CASE Remembers(live, r)
  <2>1. store' = live /\ calls' = Append(calls, [req |-> r, fresh |-> FALSE, at |-> now])
    BY <1>2, <1>6 DEF CheckAndSet, IsFresh
  <2>2. [req |-> r, fresh |-> FALSE, at |-> now] \in [req : Requests, fresh : BOOLEAN, at : 0 .. MaxTime]
    BY <1>1, MaxTimeAssumption
  <2> QED
    BY <2>1, <2>2, <1>1, <1>3, <1>5, RecordedMore, TrackedDuplicate
<1>7. CASE ~ Remembers(live, r)
  <2> DEFINE m == Remember(live, r, now)
             d == [req |-> r, fresh |-> TRUE, at |-> now]
  <2>1. store' = EvictOverflow(m) /\ calls' = Append(calls, d)
    BY <1>2, <1>7 DEF CheckAndSet, IsFresh
  <2>2. r \notin DOMAIN live.entries
    BY <1>7 DEF Remembers
  <2>3. m \in Stores(now) /\ Consistent(m)
    BY <1>1, <1>4, <2>2, RememberKeeps
  <2>4. Recorded(m, calls') /\ Tracked(m, calls', now)
    BY <1>1, <1>4, <1>5, <2>1, <2>2, RecordedRemember, TrackedRemember
  <2>5. calls' \in Calls
    <3>1. d \in [req : Requests, fresh : BOOLEAN, at : 0 .. MaxTime]
      BY <1>1, MaxTimeAssumption
    <3> QED
      BY <3>1, <1>1, <2>1, OneMoreCall
  <2>6. \A q \in DOMAIN store'.entries : q \in DOMAIN m.entries /\ store'.entries[q] = m.entries[q]
    BY <1>1, <2>1, <2>3, EvictOverflowKeeps
  <2> HIDE DEF m
  <2>7. Recorded(store', calls')
    BY <2>4, <2>6, RecordedFewer
  <2>8. Tracked(store', calls', now)
    BY <1>1, <2>1, <2>3, <2>4, <2>5, TrackedEvictOverflow
  <2> QED
    BY <1>3, <2>7, <2>8
<1> QED
  BY <1>6, <1>7

(* The new answer is the one the properties allow.                         *)
LEMMA CallAnswers ==
  ASSUME IInv, NEW r \in Requests, Call(r)
  PROVE  FreshAgainOnlyAfterEviction' /\ DuplicateOnlyWithinTtl'
<1> DEFINE live == EvictExpired(store, now)
           c == [req |-> r, fresh |-> IsFresh(store, r, now), at |-> now]
           n == Len(calls)
<1>1. /\ now \in Nat /\ now <= MaxTime /\ store \in Stores(now) /\ Consistent(store)
      /\ calls \in Calls /\ Recorded(store, calls) /\ Tracked(store, calls, now)
  BY MaxTimeAssumption DEF IInv, TypeOK, MapMatchesQueue, Calls
<1>2. c \in [req : Requests, fresh : BOOLEAN, at : 0 .. MaxTime]
  BY <1>1, MaxTimeAssumption DEF IsFresh
<1>3. /\ n \in Nat /\ Len(calls') = n + 1 /\ calls'[n + 1] = c
      /\ \A i \in 1 .. n : calls'[i] = calls[i]
  BY <1>1, <1>2, OneMoreCall DEF Call
<1>4. /\ Consistent(live)
      /\ DOMAIN live.entries = {q \in DOMAIN store.entries : now - store.entries[q] <= Ttl}
      /\ \A q \in DOMAIN live.entries : live.entries[q] = store.entries[q]
  BY <1>1, EvictExpiredKeeps
<1>5. Tracked(live, calls, now)
  BY <1>1, TrackedEvictExpired
<1>6. c.req = r /\ c.at = now /\ (c.fresh <=> r \notin DOMAIN live.entries)
  BY DEF IsFresh, Remembers
<1> HIDE DEF c, live
<1>7. ASSUME NEW i \in 1 .. n + 1, NEW j \in 1 .. n + 1, i < j,
             calls'[i].req = calls'[j].req, calls'[i].fresh, calls'[j].fresh
      PROVE  \/ calls'[j].at - calls'[i].at > Ttl
             \/ Cardinality(FreshBetween(i, j)') >= MaxEntries
  <2>1. i \in 1 .. n /\ calls'[i] = calls[i]
    BY <1>3, <1>7
  <2>2. CASE j = n + 1
    <3>1. FreshBetween(i, j)' = FreshAfter(calls, i)
      BY <2>2, <1>3 DEF FreshBetween, FreshAfter
    <3>2. calls[i].req = r /\ calls[i].fresh /\ r \notin DOMAIN live.entries /\ calls'[j].at = now
      BY <1>3, <1>6, <1>7, <2>1, <2>2
    <3>3. ~ InQueue(live, calls, i)
      BY <3>2, <1>4 DEF InQueue, Consistent
    <3> QED
      BY <3>1, <3>2, <3>3, <1>5, <2>1 DEF Tracked
  <2>3. CASE j # n + 1
    <3>1. j \in 1 .. n /\ calls'[j] = calls[j]
      BY <2>3, <1>3
    <3>2. FreshBetween(i, j)' = FreshBetween(i, j)
      BY <2>1, <3>1, <1>3 DEF FreshBetween
    <3> QED
      BY <2>1, <3>1, <3>2, <1>7 DEF IInv, FreshAgainOnlyAfterEviction
  <2> QED
    BY <2>2, <2>3
<1>8. ASSUME NEW j \in 1 .. n + 1, ~ calls'[j].fresh
      PROVE  \E i \in 1 .. j - 1 : /\ calls'[i].req = calls'[j].req
                                   /\ calls'[i].fresh
                                   /\ calls'[j].at - calls'[i].at <= Ttl
  <2>1. CASE j = n + 1
    <3>1. r \in DOMAIN store.entries /\ now - store.entries[r] <= Ttl
      BY <1>3, <1>4, <1>6, <1>8, <2>1
    <3>2. PICK i \in 1 .. n : calls[i].req = r /\ calls[i].fresh /\ calls[i].at = store.entries[r]
      BY <3>1, <1>1 DEF Recorded
    <3>3. i \in 1 .. j - 1 /\ calls'[i] = calls[i] /\ calls'[j].req = r /\ calls'[j].at = now
      BY <2>1, <1>3, <1>6
    <3> QED
      BY <3>1, <3>2, <3>3
  <2>2. CASE j # n + 1
    <3>1. j \in 1 .. n /\ calls'[j] = calls[j] /\ \A i \in 1 .. j - 1 : calls'[i] = calls[i]
      BY <2>2, <1>3
    <3> QED
      BY <3>1, <1>8 DEF IInv, DuplicateOnlyWithinTtl
  <2> QED
    BY <2>1, <2>2
<1> QED
  BY <1>3, <1>7, <1>8 DEF FreshAgainOnlyAfterEviction, DuplicateOnlyWithinTtl

LEMMA CallInvariant == ASSUME NEW r \in Requests PROVE IInv /\ Call(r) => IInv'
<1> SUFFICES ASSUME IInv, Call(r) PROVE IInv'
  OBVIOUS
<1> DEFINE c == [req |-> r, fresh |-> IsFresh(store, r, now), at |-> now]
<1>1. now' = now /\ calls' = Append(calls, c)
  BY DEF Call
<1>2. calls' \in Calls
  <2>1. c \in [req : Requests, fresh : BOOLEAN, at : 0 .. MaxTime] /\ calls \in Calls
    BY DEF IInv, TypeOK, IsFresh, Calls
  <2> QED
    BY <1>1, <2>1, OneMoreCall
<1>3. TypeOK'
  BY <1>1, <1>2, CallStore DEF IInv, TypeOK, Calls
<1>4. MapMatchesQueue' /\ WithinCapacity'
  BY CallStore DEF MapMatchesQueue, WithinCapacity
<1>5. Recorded(store, calls)' /\ Tracked(store, calls, now)'
  BY <1>1, CallStore
<1> QED
  BY <1>3, <1>4, <1>5, CallAnswers DEF IInv

(* The inductive invariant holds in every reachable state.                 *)
THEOREM StoreInvariant == Spec => []IInv
<1>1. IInv /\ [Next]_vars => IInv'
  <2>1. IInv /\ Next => IInv'
    BY TickInvariant, CallInvariant DEF Next
  <2>2. ASSUME IInv, UNCHANGED vars PROVE IInv'
    <3>1. store' = store /\ now' = now /\ calls' = calls
      BY <2>2 DEF vars
    <3>2. TypeOK' /\ MapMatchesQueue' /\ WithinCapacity'
      BY <2>2, <3>1 DEF IInv, TypeOK, MapMatchesQueue, WithinCapacity
    <3>3. Recorded(store, calls)' /\ Tracked(store, calls, now)'
      BY <2>2, <3>1 DEF IInv
    <3>4. FreshAgainOnlyAfterEviction' /\ DuplicateOnlyWithinTtl'
      BY <2>2, <3>1 DEF IInv, FreshAgainOnlyAfterEviction, FreshBetween, DuplicateOnlyWithinTtl
    <3> QED
      BY <3>2, <3>3, <3>4 DEF IInv
  <2> QED
    BY <2>1, <2>2
<1> QED
  BY InitInvariant, <1>1, PTL DEF Spec

(* Type correctness of the store (InMemoryIdempotency).                    *)
THEOREM StoreTypeOK == Spec => []TypeOK
  BY StoreInvariant, PTL DEF IInv

(* The map and the queue of InMemoryIdempotency agree, and the queue is in *)
(* order of age, whatever calls are made: what evict_expired relies on     *)
(* when it stops at the first id that has not expired.                     *)
THEOREM StoreConsistent == Spec => []MapMatchesQueue
  BY StoreInvariant, PTL DEF IInv

(* The store stays within its capacity (evict_overflow).                   *)
THEOREM StoreBounded == Spec => []WithinCapacity
  BY StoreInvariant, PTL DEF IInv

(* check_and_set accepts an id again only after more than the ttl, or      *)
(* after as many other fresh ids as the store has room for.                *)
THEOREM StoreRemembers == Spec => []FreshAgainOnlyAfterEviction
  BY StoreInvariant, PTL DEF IInv

(* check_and_set refuses an id only if it accepted it within the ttl.      *)
THEOREM StoreForgets == Spec => []DuplicateOnlyWithinTtl
  BY StoreInvariant, PTL DEF IInv
=============================================================================
