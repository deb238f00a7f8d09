-------------------------- MODULE CommandPathProofs --------------------------
(***************************************************************************)
(* The command path implements its contract; a Duplicate never is the only *)
(* answer, a refusal is about a command without effect, an accepted order  *)
(* can be given a request, and a request is sent again only when the store *)
(* was entitled to forget it: for any number of gateways, commands, deaths *)
(* and failed Redis calls, any ttl and any capacity of the stores.         *)
(***************************************************************************)
EXTENDS CommandPath, NaturalsInduction, SequenceTheorems,
        WellFoundedInduction, FiniteSetTheorems, TLAPS

(* The operators of the idempotency store; the first lemmas are those of   *)
(* IdempotencyStoreProofs.tla.                                             *)

(* A store is a record of a map and a queue.                               *)
LEMMA StoreParts ==
  ASSUME NEW st, NEW t
  PROVE  st \in Stores(t) <=>
           /\ st = [entries |-> st.entries, order |-> st.order]
           /\ st.order \in Seq(Requests)
           /\ DOMAIN st.entries \subseteq Requests
           /\ st.entries \in [DOMAIN st.entries -> 0 .. t]
  BY DEF Stores

(* What is right at an instant is right at any later one.                  *)
LEMMA StoreLater ==
  ASSUME NEW t \in Nat, NEW u \in Nat, t <= u, NEW st \in Stores(t)
  PROVE  st \in Stores(u)
<1>1. \A x \in 0 .. t : x \in 0 .. u
  OBVIOUS
<1> QED
  BY <1>1, StoreParts

(* Popping the first n ids keeps a store consistent: the other ids keep    *)
(* their instants and move n places forward.                               *)
LEMMA DropFrontKeeps ==
  ASSUME NEW t \in Nat, NEW st \in Stores(t), Consistent(st),
         NEW n \in 0 .. Len(st.order)
  PROVE  LET d == DropFront(st, n) IN
         /\ d \in Stores(t)
         /\ Consistent(d)
         /\ Len(d.order) = Len(st.order) - n
         /\ \A i \in 1 .. Len(st.order) - n : d.order[i] = st.order[n + i]
         /\ DOMAIN d.entries = {r \in DOMAIN st.entries : \A i \in 1 .. n : st.order[i] # r}
         /\ \A r \in DOMAIN d.entries : d.entries[r] = st.entries[r]
<1> DEFINE d == DropFront(st, n)
           L == Len(st.order)
           kept == {r \in DOMAIN st.entries : \A i \in 1 .. n : st.order[i] # r}
<1>1. /\ st.order \in Seq(Requests)
      /\ DOMAIN st.entries \subseteq Requests
      /\ st.entries \in [DOMAIN st.entries -> 0 .. t]
      /\ L \in Nat
  BY StoreParts, LenProperties
<1>2. /\ d.entries = [r \in kept |-> st.entries[r]]
      /\ d.order = SubSeq(st.order, n + 1, L)
      /\ d = [entries |-> d.entries, order |-> d.order]
  BY DEF DropFront
<1>3. \A i \in n + 1 .. L : st.order[i] \in Requests
  BY <1>1, ElementOfSeq
<1>4. /\ d.order \in Seq(Requests)
      /\ Len(d.order) = L - n
      /\ \A i \in 1 .. L - n : d.order[i] = st.order[n + i]
  <2>1. /\ SubSeq(st.order, n + 1, L) \in Seq(Requests)
        /\ Len(SubSeq(st.order, n + 1, L)) = IF n + 1 <= L THEN L - (n + 1) + 1 ELSE 0
        /\ \A i \in 1 .. L - (n + 1) + 1 : SubSeq(st.order, n + 1, L)[i] = st.order[n + 1 + i - 1]
    BY ONLY <1>1, <1>3, SubSeqProperties, n \in 0 .. L, n + 1 \in Int, L \in Int
  <2> QED
    BY <2>1, <1>1, <1>2
<1>5. d \in Stores(t)
  <2>1. DOMAIN d.entries \subseteq Requests /\ d.entries \in [DOMAIN d.entries -> 0 .. t]
    BY <1>1, <1>2
  <2> HIDE DEF d
  <2> QED
    BY <2>1, <1>2, <1>4, StoreParts
<1>6. DOMAIN d.entries = {d.order[i] : i \in 1 .. Len(d.order)}
  <2>1. ASSUME NEW r \in kept PROVE \E i \in 1 .. L - n : r = d.order[i]
    <3>1. PICK j \in 1 .. L : r = st.order[j]
      BY DEF Consistent
    <3>2. j > n
      BY <3>1, <2>1, <1>1
    <3>3. j - n \in 1 .. L - n /\ n + (j - n) = j
      BY <3>2, <1>1
    <3> QED
      BY <3>1, <3>3, <1>4
  <2>2. ASSUME NEW i \in 1 .. L - n PROVE d.order[i] \in kept
    <3>1. n + i \in 1 .. L
      BY <1>1
    <3>2. st.order[n + i] \in DOMAIN st.entries
      BY <3>1 DEF Consistent
    <3>3. \A j \in 1 .. n : st.order[j] # st.order[n + i]
      BY <3>1, <1>1 DEF Consistent
    <3> QED
      BY <3>2, <3>3, <1>4
  <2> QED
    BY <2>1, <2>2, <1>2, <1>4
<1>7. ASSUME NEW i \in 1 .. Len(d.order), NEW j \in 1 .. Len(d.order), i < j
      PROVE  d.order[i] # d.order[j] /\ d.entries[d.order[i]] <= d.entries[d.order[j]]
  <2>1. /\ n + i \in 1 .. L /\ n + j \in 1 .. L /\ n + i < n + j
        /\ d.order[i] = st.order[n + i] /\ d.order[j] = st.order[n + j]
    <3>1. L \in Nat /\ n \in 0 .. L /\ i \in 1 .. L - n /\ j \in 1 .. L - n
      BY <1>1, <1>4
    <3>2. d.order[i] = st.order[n + i] /\ d.order[j] = st.order[n + j]
      BY <3>1, <1>4
    <3> HIDE DEF L, d
    <3>3. n + i \in 1 .. L /\ n + j \in 1 .. L /\ n + i < n + j
      BY <3>1, <1>7
    <3> QED
      BY <3>2, <3>3
  <2>2. d.order[i] \in kept /\ d.order[j] \in kept
    BY <1>2, <1>6
  <2>3. /\ d.entries[d.order[i]] = st.entries[st.order[n + i]]
        /\ d.entries[d.order[j]] = st.entries[st.order[n + j]]
    BY <2>1, <2>2, <1>2
  <2>4. /\ st.order[n + i] # st.order[n + j]
        /\ st.entries[st.order[n + i]] <= st.entries[st.order[n + j]]
    BY <2>1 DEF Consistent
  <2> QED
    BY <2>1, <2>3, <2>4
<1> QED
  BY <1>2, <1>4, <1>5, <1>6, <1>7 DEF Consistent

(* A nonempty set of natural numbers has a least element.                  *)
LEMMA LeastNatural ==
  ASSUME NEW S \in SUBSET Nat, S # {}
  PROVE  \E x \in S : \A y \in S : x <= y
<1> DEFINE R == {ss \in Nat \X Nat : ss[1] < ss[2]}
<1>1. IsWellFoundedOn(R, Nat)
  BY NatLessThanWellFounded DEF OpToRel
<1>2. \A x, y \in Nat : <<y, x>> \in R <=> y < x
  OBVIOUS
<1> HIDE DEF R
<1>3. PICK x \in S : \A y \in S : ~ (<<y, x>> \in R)
  BY <1>1, WFMin
<1>4. ASSUME NEW y \in S PROVE x <= y
  <2>1. x \in Nat /\ y \in Nat /\ ~ (y < x)
    BY <1>2, <1>3
  <2> QED
    BY <2>1
<1> QED
  BY <1>4

(* The eviction loop stops at the first live position, or at the end.      *)
LEMMA FirstLiveIsFirst ==
  ASSUME NEW t \in Nat, NEW st \in Stores(t)
  PROVE  /\ FirstLive(st, t) \in 1 .. Len(st.order) + 1
         /\ \A i \in LivePositions(st, t) : FirstLive(st, t) <= i
         /\ FirstLive(st, t) <= Len(st.order) => FirstLive(st, t) \in LivePositions(st, t)
<1> DEFINE S == LivePositions(st, t)
<1>1. Len(st.order) \in Nat /\ S \subseteq 1 .. Len(st.order)
  BY StoreParts, LenProperties DEF LivePositions
<1>2. CASE S = {}
  BY <1>1, <1>2 DEF FirstLive
<1>3. CASE S # {}
  <2>1. \E x \in S : \A y \in S : x <= y
    BY <1>1, <1>3, LeastNatural
  <2>2. FirstLive(st, t) = CHOOSE i \in S : \A j \in S : i <= j
    BY <1>3 DEF FirstLive
  <2>3. FirstLive(st, t) \in S /\ \A j \in S : FirstLive(st, t) <= j
    BY <2>1, <2>2
  <2> QED
    BY <1>1, <2>3
<1> QED
  BY <1>2, <1>3

(* After evict_expired exactly the ids that are not older than the ttl are *)
(* left, because the queue is in order of age.                             *)
LEMMA EvictExpiredKeeps ==
  ASSUME NEW t \in Nat, NEW st \in Stores(t), Consistent(st)
  PROVE  LET e == EvictExpired(st, t)
             n == FirstLive(st, t) - 1
         IN  /\ n \in 0 .. Len(st.order)
             /\ e \in Stores(t)
             /\ Consistent(e)
             /\ Len(e.order) = Len(st.order) - n
             /\ \A i \in 1 .. Len(e.order) : e.order[i] = st.order[n + i]
             /\ DOMAIN e.entries = {r \in DOMAIN st.entries : t - st.entries[r] <= Ttl}
             /\ \A r \in DOMAIN e.entries : e.entries[r] = st.entries[r]
<1> DEFINE n == FirstLive(st, t) - 1
           e == EvictExpired(st, t)
           L == Len(st.order)
<1>1. /\ L \in Nat
      /\ st.entries \in [DOMAIN st.entries -> 0 .. t]
      /\ Ttl \in Nat
  BY StoreParts, LenProperties, TtlAssumption
<1>2. n \in 0 .. L /\ (n < L => n + 1 \in LivePositions(st, t))
      /\ \A i \in LivePositions(st, t) : n < i
  BY FirstLiveIsFirst, <1>1 DEF LivePositions
<1>3. e = DropFront(st, n)
  BY DEF EvictExpired
<1>4. /\ e \in Stores(t) /\ Consistent(e) /\ Len(e.order) = L - n
      /\ \A i \in 1 .. L - n : e.order[i] = st.order[n + i]
      /\ DOMAIN e.entries = {r \in DOMAIN st.entries : \A i \in 1 .. n : st.order[i] # r}
      /\ \A r \in DOMAIN e.entries : e.entries[r] = st.entries[r]
  BY <1>2, <1>3, DropFrontKeeps
<1>5. ASSUME NEW j \in 1 .. L PROVE t - st.entries[st.order[j]] <= Ttl <=> n < j
  <2>1. st.order[j] \in DOMAIN st.entries
    BY DEF Consistent
  <2>2. j \in LivePositions(st, t) <=> t - st.entries[st.order[j]] <= Ttl
    BY <2>1 DEF LivePositions
  <2>3. CASE n < j
    <3>1. n + 1 \in LivePositions(st, t) /\ n + 1 \in 1 .. L /\ n + 1 <= j
      BY <1>1, <1>2, <2>3
    <3>2. st.order[n + 1] \in DOMAIN st.entries /\ t - st.entries[st.order[n + 1]] <= Ttl
      BY <3>1 DEF LivePositions
    <3>3. st.entries[st.order[n + 1]] <= st.entries[st.order[j]]
      <4>1. CASE n + 1 = j
        BY <4>1, <2>1, <1>1
      <4>2. CASE n + 1 < j
        BY <4>2, <3>1 DEF Consistent
      <4> QED
        BY <4>1, <4>2, <3>1, <1>2
    <3>4. st.entries[st.order[n + 1]] \in Nat /\ st.entries[st.order[j]] \in Nat
      BY <3>2, <2>1, <1>1
    <3> QED
      BY <3>2, <3>3, <3>4, <2>3, <1>1
  <2>4. CASE ~ (n < j)
    BY <2>2, <2>4, <1>2
  <2> QED
    BY <2>3, <2>4
<1>6. ASSUME NEW r \in DOMAIN st.entries
      PROVE  (\A i \in 1 .. n : st.order[i] # r) <=> t - st.entries[r] <= Ttl
  <2>1. PICK j \in 1 .. L : r = st.order[j]
    BY DEF Consistent
  <2>2. (\A i \in 1 .. n : st.order[i] # r) <=> n < j
    <3>1. \A i \in 1 .. n : i \in 1 .. L
      BY <1>1, <1>2
    <3>2. n < j => \A i \in 1 .. n : st.order[i] # r
      BY <3>1, <2>1, <1>2 DEF Consistent
    <3> QED
      BY <3>2, <2>1, <1>2
  <2> QED
    BY <2>1, <2>2, <1>5
<1> QED
  BY <1>2, <1>4, <1>6

(* A fresh id goes to the back of the queue with the newest instant.       *)
LEMMA RememberKeeps ==
  ASSUME NEW t \in Nat, NEW st \in Stores(t), Consistent(st),
         NEW r \in Requests, r \notin DOMAIN st.entries
  PROVE  LET m == Remember(st, r, t) IN
         /\ m \in Stores(t)
         /\ Consistent(m)
         /\ Len(m.order) = Len(st.order) + 1
         /\ \A i \in 1 .. Len(st.order) : m.order[i] = st.order[i]
         /\ m.order[Len(st.order) + 1] = r
         /\ DOMAIN m.entries = DOMAIN st.entries \cup {r}
         /\ m.entries[r] = t
         /\ \A q \in DOMAIN st.entries : m.entries[q] = st.entries[q]
<1> DEFINE m == Remember(st, r, t)
           L == Len(st.order)
<1>1. /\ st.order \in Seq(Requests)
      /\ DOMAIN st.entries \subseteq Requests
      /\ st.entries \in [DOMAIN st.entries -> 0 .. t]
      /\ L \in Nat
  BY StoreParts, LenProperties
<1>2. /\ m.entries = [q \in DOMAIN st.entries \cup {r} |-> IF q = r THEN t ELSE st.entries[q]]
      /\ m.order = Append(st.order, r)
      /\ m = [entries |-> m.entries, order |-> m.order]
  BY DEF Remember
<1>3. /\ m.order \in Seq(Requests)
      /\ Len(m.order) = L + 1
      /\ \A i \in 1 .. L : m.order[i] = st.order[i]
      /\ m.order[L + 1] = r
  BY <1>1, <1>2, AppendProperties
<1>4. /\ DOMAIN m.entries = DOMAIN st.entries \cup {r}
      /\ m.entries[r] = t
      /\ \A q \in DOMAIN st.entries : m.entries[q] = st.entries[q]
      /\ m.entries \in [DOMAIN m.entries -> 0 .. t]
  <2>1. t \in 0 .. t
    OBVIOUS
  <2> QED
    BY <2>1, <1>1, <1>2
<1>5. m \in Stores(t)
  BY <1>1, <1>2, <1>3, <1>4, StoreParts
<1>6. DOMAIN m.entries = {m.order[i] : i \in 1 .. Len(m.order)}
  <2>1. 1 .. L + 1 = (1 .. L) \cup {L + 1}
    BY <1>1
  <2>2. {m.order[i] : i \in 1 .. L + 1} = {m.order[i] : i \in 1 .. L} \cup {m.order[L + 1]}
    BY <2>1
  <2>3. {m.order[i] : i \in 1 .. L} = {st.order[i] : i \in 1 .. L}
    BY <1>3
  <2> QED
    BY <2>2, <2>3, <1>3, <1>4 DEF Consistent
<1>7. ASSUME NEW i \in 1 .. Len(m.order), NEW j \in 1 .. Len(m.order), i < j
      PROVE  m.order[i] # m.order[j] /\ m.entries[m.order[i]] <= m.entries[m.order[j]]
  <2>1. i \in 1 .. L /\ m.order[i] = st.order[i] /\ st.order[i] \in DOMAIN st.entries
    BY <1>1, <1>3, <1>7 DEF Consistent
  <2>2. CASE j = L + 1
    <3>1. m.entries[m.order[i]] \in 0 .. t
      BY <2>1, <1>4
    <3> QED
      BY <3>1, <2>1, <2>2, <1>3, <1>4
  <2>3. CASE j # L + 1
    <3>1. j \in 1 .. L /\ m.order[j] = st.order[j] /\ st.order[j] \in DOMAIN st.entries
      BY <2>3, <1>1, <1>3 DEF Consistent
    <3> QED
      BY <3>1, <2>1, <1>4, <1>7 DEF Consistent
  <2> QED
    BY <2>2, <2>3
<1> QED
  BY <1>3, <1>4, <1>5, <1>6, <1>7 DEF Consistent

(* evict_overflow pops as many ids as exceed the capacity.                 *)
LEMMA EvictOverflowKeeps ==
  ASSUME NEW t \in Nat, NEW st \in Stores(t), Consistent(st)
  PROVE  LET o == EvictOverflow(st)
             n == IF Len(st.order) > MaxEntries THEN Len(st.order) - MaxEntries ELSE 0
         IN  /\ o \in Stores(t)
             /\ Consistent(o)
             /\ Len(o.order) = Len(st.order) - n
             /\ Len(o.order) <= MaxEntries
             /\ \A i \in 1 .. Len(o.order) : o.order[i] = st.order[n + i]
             /\ DOMAIN o.entries = {r \in DOMAIN st.entries : \A i \in 1 .. n : st.order[i] # r}
             /\ \A r \in DOMAIN o.entries : o.entries[r] = st.entries[r]
<1> DEFINE n == IF Len(st.order) > MaxEntries THEN Len(st.order) - MaxEntries ELSE 0
<1>1. Len(st.order) \in Nat /\ MaxEntries \in Nat \ {0}
  BY StoreParts, LenProperties, MaxEntriesAssumption
<1>2. CASE Len(st.order) > MaxEntries
  <2>1. EvictOverflow(st) = DropFront(st, Len(st.order) - MaxEntries)
    BY <1>2 DEF EvictOverflow
  <2>2. Len(st.order) - MaxEntries \in 0 .. Len(st.order)
    BY <1>1, <1>2
  <2>3. LET d == DropFront(st, n) IN
        /\ d \in Stores(t)
        /\ Consistent(d)
        /\ Len(d.order) = Len(st.order) - n
        /\ \A i \in 1 .. Len(st.order) - n : d.order[i] = st.order[n + i]
        /\ DOMAIN d.entries = {r \in DOMAIN st.entries : \A i \in 1 .. n : st.order[i] # r}
        /\ \A r \in DOMAIN d.entries : d.entries[r] = st.entries[r]
    <3>1. n \in 0 .. Len(st.order)
      BY <1>1, <1>2, <2>2
    <3> HIDE DEF n
    <3> QED
      BY <3>1, DropFrontKeeps
  <2>4. Len(st.order) - n = MaxEntries
    BY <1>1, <1>2
  <2>5. EvictOverflow(st) = DropFront(st, n)
    BY <2>1, <1>2
  <2> HIDE DEF n
  <2>6. LET o == EvictOverflow(st)
        IN  /\ o \in Stores(t)
            /\ Consistent(o)
            /\ Len(o.order) = Len(st.order) - n
            /\ Len(o.order) <= MaxEntries
            /\ \A i \in 1 .. Len(o.order) : o.order[i] = st.order[n + i]
            /\ DOMAIN o.entries = {r \in DOMAIN st.entries : \A i \in 1 .. n : st.order[i] # r}
            /\ \A r \in DOMAIN o.entries : o.entries[r] = st.entries[r]
    BY <2>3, <2>4, <2>5, <1>1
  <2> QED
    BY <2>6 DEF n
<1>3. CASE ~ (Len(st.order) > MaxEntries)
  <2>1. EvictOverflow(st) = st /\ n = 0
    BY <1>3 DEF EvictOverflow
  <2>2. /\ 1 .. 0 = {} /\ Len(st.order) - 0 = Len(st.order) /\ Len(st.order) <= MaxEntries
        /\ \A i \in 1 .. Len(st.order) : 0 + i = i
    BY <1>1, <1>3
  <2> HIDE DEF n
  <2>3. LET o == EvictOverflow(st)
        IN  /\ o \in Stores(t)
            /\ Consistent(o)
            /\ Len(o.order) = Len(st.order) - n
            /\ Len(o.order) <= MaxEntries
            /\ \A i \in 1 .. Len(o.order) : o.order[i] = st.order[n + i]
            /\ DOMAIN o.entries = {r \in DOMAIN st.entries : \A i \in 1 .. n : st.order[i] # r}
            /\ \A r \in DOMAIN o.entries : o.entries[r] = st.entries[r]
    BY <2>1, <2>2
  <2> QED
    BY <2>3 DEF n
<1> QED
  BY <1>2, <1>3

(* check_and_set keeps a store consistent and within its capacity.         *)
LEMMA CheckAndSetKeeps ==
  ASSUME NEW t \in Nat, NEW st \in Stores(t), Consistent(st),
         Len(st.order) <= MaxEntries, NEW r \in Requests
  PROVE  LET c == CheckAndSet(st, r, t)
         IN  c \in Stores(t) /\ Consistent(c) /\ Len(c.order) <= MaxEntries
<1> DEFINE e == EvictExpired(st, t)
<1>1. e \in Stores(t) /\ Consistent(e) /\ Len(e.order) <= Len(st.order)
  BY EvictExpiredKeeps, StoreParts, LenProperties
<1>2. CASE Remembers(e, r)
  <2>1. CheckAndSet(st, r, t) = e
    BY <1>2 DEF CheckAndSet
  <2>2. Len(e.order) \in Nat /\ Len(st.order) \in Nat /\ MaxEntries \in Nat
    BY <1>1, StoreParts, LenProperties, MaxEntriesAssumption
  <2> QED
    BY <2>1, <2>2, <1>1
<1>3. CASE ~ Remembers(e, r)
  <2>1. CheckAndSet(st, r, t) = EvictOverflow(Remember(e, r, t))
    BY <1>3 DEF CheckAndSet
  <2>2. Remember(e, r, t) \in Stores(t) /\ Consistent(Remember(e, r, t))
    BY <1>1, <1>3, RememberKeeps DEF Remembers
  <2> QED
    BY <2>1, <2>2, EvictOverflowKeeps
<1> QED
  BY <1>2, <1>3

(* check_and_set adds at most the id it is asked for; a fresh id is        *)
(* remembered afterwards, because it is at the back of the queue and the   *)
(* capacity is at least one; an id that is not fresh was remembered.       *)
LEMMA CheckAndSetDomain ==
  ASSUME NEW t \in Nat, NEW st \in Stores(t), Consistent(st), NEW r \in Requests
  PROVE  LET c == CheckAndSet(st, r, t) IN
         /\ DOMAIN c.entries \subseteq DOMAIN st.entries \cup {r}
         /\ r \in DOMAIN c.entries
         /\ ~ IsFresh(st, r, t) => r \in DOMAIN st.entries
<1> DEFINE e == EvictExpired(st, t)
           m == Remember(e, r, t)
           L == Len(e.order)
<1>1. e \in Stores(t) /\ Consistent(e) /\ DOMAIN e.entries \subseteq DOMAIN st.entries
  BY EvictExpiredKeeps
<1>2. ~ IsFresh(st, r, t) <=> r \in DOMAIN e.entries
  BY DEF IsFresh, Remembers
<1>3. L \in Nat /\ MaxEntries \in Nat \ {0}
  BY <1>1, StoreParts, LenProperties, MaxEntriesAssumption
<1> HIDE DEF e
<1>4. CASE r \in DOMAIN e.entries
  <2>1. CheckAndSet(st, r, t) = e
    BY <1>4 DEF CheckAndSet, Remembers, e
  <2> QED
    BY <2>1, <1>1, <1>2, <1>4
<1>5. CASE r \notin DOMAIN e.entries
  <2>1. CheckAndSet(st, r, t) = EvictOverflow(m)
    BY <1>5 DEF CheckAndSet, Remembers, e
  <2>2. /\ m \in Stores(t) /\ Consistent(m)
        /\ Len(m.order) = L + 1 /\ m.order[L + 1] = r
        /\ DOMAIN m.entries = DOMAIN e.entries \cup {r}
    BY <1>1, <1>5, RememberKeeps
  <2> HIDE DEF m, L
  <2> DEFINE n == IF Len(m.order) > MaxEntries THEN Len(m.order) - MaxEntries ELSE 0
  <2>3. DOMAIN EvictOverflow(m).entries
          = {q \in DOMAIN m.entries : \A i \in 1 .. n : m.order[i] # q}
    BY <2>2, EvictOverflowKeeps
  <2>4. \A i \in 1 .. n : i \in 1 .. Len(m.order) /\ i < L + 1
    BY <1>3, <2>2
  <2>5. L + 1 \in 1 .. Len(m.order)
    BY <1>3, <2>2
  <2>6. \A i \in 1 .. n : m.order[i] # r
    BY <2>2, <2>4, <2>5 DEF Consistent
  <2> HIDE DEF n
  <2> QED
    BY <2>1, <2>2, <2>3, <2>6, <1>1, <1>2, <1>5
<1> QED
  BY <1>4, <1>5

(* A queue is the end of another one, with nothing but r behind it.        *)
EndOf(new, old, r) ==
  \E n \in Nat : \A i \in 1 .. Len(new) :
    \/ n + i \in 1 .. Len(old) /\ new[i] = old[n + i]
    \/ new[i] = r

EndOnly(new, old) ==
  \E n \in Nat : \A i \in 1 .. Len(new) : n + i \in 1 .. Len(old) /\ new[i] = old[n + i]

(* What check_and_set does to the queue.  A fresh id is put at its end     *)
(* with the present instant; if the id was still in the map, it had        *)
(* outlived the ttl.  The others keep their instants and their order; an   *)
(* id that goes has outlived the ttl, or had, with the fresh one, as many  *)
(* ids behind it as the store may hold.                                    *)
LEMMA CheckAndSetQueue ==
  ASSUME NEW t \in Nat, NEW st \in Stores(t), Consistent(st), NEW r \in Requests,
         NEW c, c = CheckAndSet(st, r, t), NEW fresh \in BOOLEAN, fresh <=> IsFresh(st, r, t)
  PROVE  /\ fresh => /\ r \in DOMAIN c.entries /\ c.entries[r] = t
                     /\ Len(c.order) # 0 /\ c.order[Len(c.order)] = r
                     /\ r \in DOMAIN st.entries => t - st.entries[r] > Ttl
         /\ \A q \in DOMAIN c.entries :
              (q # r \/ ~ fresh) => q \in DOMAIN st.entries /\ c.entries[q] = st.entries[q]
         /\ IF fresh THEN EndOf(c.order, st.order, r) ELSE EndOnly(c.order, st.order)
         /\ \A q \in DOMAIN st.entries \ DOMAIN c.entries :
              \/ t - st.entries[q] > Ttl
              \/ /\ fresh
                 /\ \E p \in 1 .. Len(st.order) :
                      st.order[p] = q /\ Len(st.order) - p + 1 >= MaxEntries
<1> DEFINE e == EvictExpired(st, t)
           n == FirstLive(st, t) - 1
           m == Remember(e, r, t)
           L == Len(e.order)
           S == Len(st.order)
<1>1. /\ n \in 0 .. S /\ e \in Stores(t) /\ Consistent(e) /\ L = S - n
      /\ \A i \in 1 .. L : e.order[i] = st.order[n + i]
      /\ DOMAIN e.entries = {q \in DOMAIN st.entries : t - st.entries[q] <= Ttl}
      /\ \A q \in DOMAIN e.entries : e.entries[q] = st.entries[q]
  BY EvictExpiredKeeps
<1>2. fresh <=> r \notin DOMAIN e.entries
  BY DEF IsFresh, Remembers
<1>3. L \in Nat /\ S \in Nat /\ MaxEntries \in Nat \ {0} /\ Ttl \in Nat
      /\ \A q \in DOMAIN st.entries : st.entries[q] \in Nat
  BY <1>1, StoreParts, LenProperties, MaxEntriesAssumption, TtlAssumption
<1>4. n \in Nat /\ \A i \in 1 .. L : n + i \in 1 .. S
  BY <1>1, <1>3
<1>5. \A q \in DOMAIN st.entries \ DOMAIN e.entries : t - st.entries[q] > Ttl
  BY <1>1, <1>3
<1> HIDE DEF e, n, L, S
<1>6. CASE r \in DOMAIN e.entries
  <2>1. c = e
    BY <1>6 DEF CheckAndSet, Remembers, e
  <2> QED
    BY <2>1, <1>1, <1>2, <1>4, <1>5, <1>6 DEF L, S, EndOnly
<1>7. CASE r \notin DOMAIN e.entries
  <2> DEFINE o == EvictOverflow(m)
             d == IF Len(m.order) > MaxEntries THEN Len(m.order) - MaxEntries ELSE 0
  <2>1. c = o
    BY <1>7 DEF CheckAndSet, Remembers, e
  <2>2. /\ m \in Stores(t) /\ Consistent(m)
        /\ Len(m.order) = L + 1 /\ m.order[L + 1] = r
        /\ \A i \in 1 .. L : m.order[i] = e.order[i]
        /\ DOMAIN m.entries = DOMAIN e.entries \cup {r} /\ m.entries[r] = t
        /\ \A q \in DOMAIN e.entries : m.entries[q] = e.entries[q]
    BY <1>1, <1>7, RememberKeeps DEF L
  <2> HIDE DEF m
  <2>3. /\ Len(o.order) = Len(m.order) - d
        /\ \A i \in 1 .. Len(o.order) : o.order[i] = m.order[d + i]
        /\ DOMAIN o.entries = {q \in DOMAIN m.entries : \A i \in 1 .. d : m.order[i] # q}
        /\ \A q \in DOMAIN o.entries : o.entries[q] = m.entries[q]
    BY <2>2, EvictOverflowKeeps
  <2>4. d \in Nat /\ d <= L /\ Len(m.order) - d = L + 1 - d
        /\ (d # 0 => d = L + 1 - MaxEntries)
    <3>1. Len(m.order) = L + 1 /\ L \in Nat /\ MaxEntries \in Nat \ {0}
      BY <2>2, <1>3
    <3> QED
      BY <3>1
  <2> HIDE DEF d, o
  <2>5. Len(o.order) = L + 1 - d /\ Len(o.order) # 0 /\ o.order[Len(o.order)] = r
    <3>1. Len(o.order) = L + 1 - d /\ L + 1 - d # 0 /\ L + 1 - d \in 1 .. L + 1 - d
          /\ d + (L + 1 - d) = L + 1
      BY <2>3, <2>4, <1>3
    <3> QED
      BY <3>1, <2>2, <2>3
  <2>6. r \in DOMAIN o.entries /\ o.entries[r] = t
    <3>1. \A i \in 1 .. d : m.order[i] # r
      <4>1. \A i \in 1 .. d : i \in 1 .. Len(m.order) /\ L + 1 \in 1 .. Len(m.order) /\ i < L + 1
        BY SMTT(30), <1>3, <2>2, <2>4
      <4> QED
        BY <4>1, <2>2 DEF Consistent
    <3> QED
      BY <3>1, <2>2, <2>3
  <2>7. r \in DOMAIN st.entries => t - st.entries[r] > Ttl
    BY <1>5, <1>7
  <2>8. \A q \in DOMAIN o.entries : q # r => q \in DOMAIN st.entries /\ o.entries[q] = st.entries[q]
    BY <1>1, <2>2, <2>3
  <2>9. \A i \in 1 .. Len(o.order) :
          \/ (n + d) + i \in 1 .. S /\ o.order[i] = st.order[(n + d) + i]
          \/ o.order[i] = r
    <3> TAKE i \in 1 .. Len(o.order)
    <3>0. i \in 1 .. L + 1 - d /\ i \in Int
      BY <2>5
    <3>1. /\ d + i \in 1 .. L + 1 /\ n + (d + i) = (n + d) + i
          /\ o.order[i] = m.order[d + i]
      <4>1. o.order[i] = m.order[d + i]
        BY <2>3
      <4>2. d + i \in 1 .. L + 1 /\ n + (d + i) = (n + d) + i
        BY <3>0, <1>3, <1>4, <2>4
      <4> QED
        BY <4>1, <4>2
    <3>2. CASE d + i \in 1 .. L
      BY <1>1, <1>4, <2>2, <3>1, <3>2
    <3>3. CASE d + i = L + 1
      BY <2>2, <3>1, <3>3
    <3> QED
      BY <3>1, <3>2, <3>3, <1>3
  <2>10. ASSUME NEW q \in DOMAIN st.entries \ DOMAIN o.entries
         PROVE  \/ t - st.entries[q] > Ttl
                \/ \E p \in 1 .. S : st.order[p] = q /\ S - p + 1 >= MaxEntries
    <3>1. CASE q \notin DOMAIN e.entries
      BY <1>5, <3>1
    <3>2. CASE q \in DOMAIN e.entries
      <4>1. PICK i \in 1 .. d : m.order[i] = q
        BY <2>2, <2>3, <3>2
      <4>2. i \in 1 .. L /\ n + i \in 1 .. S /\ i <= L + 1 - MaxEntries /\ L = S - n
        BY <1>1, <1>3, <1>4, <2>4, <4>1
      <4>3. st.order[n + i] = q
        BY <1>1, <2>2, <4>1, <4>2
      <4>4. S - (n + i) + 1 >= MaxEntries
        BY <1>3, <1>4, <4>2
      <4> QED
        BY <4>2, <4>3, <4>4
    <3> QED
      BY <3>1, <3>2
  <2>11. n + d \in Nat
    BY <1>4, <2>4
  <2>12. fresh /\ EndOf(o.order, st.order, r)
    BY <1>2, <1>7, <2>9, <2>11 DEF EndOf, S
  <2> QED
    BY <2>1, <2>5, <2>6, <2>7, <2>8, <2>10, <2>12 DEF S
<1> QED
  BY <1>6, <1>7

-----------------------------------------------------------------------------

(* Each store is as check_and_set leaves it.                               *)
StoresRight ==
  /\ store \in [Consumers -> Stores(now)]
  /\ \A c \in Consumers : Consistent(store[c]) /\ Len(store[c].order) <= MaxEntries

Executed(i) == \E k \in 1 .. Len(effects) : effects[k].msg = i

Working == {"received", "admitted", "sent", "answering", "acking"}

(* What a loop knows at each stage about the entry it works on.            *)
LoopRight(c) ==
  /\ pc[c] \in Working => Request(c) \notin Undecodable
  /\ pc[c] = "admitted" => Request(c) \in DOMAIN store[c].entries
  /\ pc[c] = "sent" =>
       /\ sendOf[c] # 0
       /\ sends[sendOf[c]].msg = msg[c]
       /\ reply[c].kind = "ok" => Executed(msg[c])
  /\ (pc[c] = "answering" /\ answer[c].status = "Accepted") => Executed(msg[c])
  /\ pc[c] = "acking" => Answered(msg[c])

(* Only what was delivered and could be decoded is sent.                   *)
SendsRight ==
  \A n \in 1 .. Len(sends) :
    sends[n].msg \in 1 .. cursor /\ stream[sends[n].msg] \notin Undecodable

(* Process c, in its present life, has given request r a real answer.      *)
Told(c, r) ==
  \E j \in 1 .. Len(acks) : /\ acks[j].req = r
                            /\ acks[j].con = c
                            /\ acks[j].life = life[c]
                            /\ acks[j].status # "Duplicate"

(* It is about to do so.                                                   *)
WillTell(c, r) ==
  /\ r = Request(c)
  /\ \/ pc[c] \in {"admitted", "sent"}
     \/ pc[c] = "answering" /\ answer[c].status # "Duplicate"

(* A request a running loop remembers was answered or is about to be, so a *)
(* Duplicate under way follows an answer.                                  *)
MemoryRight(c) ==
  /\ pc[c] \notin {"down", "stopped"} =>
       \A r \in DOMAIN store[c].entries : Told(c, r) \/ WillTell(c, r)
  /\ (pc[c] = "answering" /\ answer[c].status = "Duplicate") => Told(c, Request(c))

IInv ==
  /\ TypeOK
  /\ StoresRight
  /\ SendsRight
  /\ \A c \in Consumers : LoopRight(c) /\ MemoryRight(c)
  /\ DuplicateFollowsAnswer

-----------------------------------------------------------------------------
(* Type correctness, one lemma per group of actions.                       *)

(* The constants, as the proofs use them.                                  *)
LEMMA ConstantParts ==
  /\ MaxMsgs \in Nat /\ MaxTime \in Nat
  /\ Msgs = 1 .. MaxMsgs
  /\ \A r \in Cancels : CancelTarget[r] \in Nat
  /\ Ttl \in Nat
  BY BoundsAssumption, RequestSetsAssumption, TtlAssumption DEF Msgs

LEMMA InitTypeOK == Init => TypeOK
<1> SUFFICES ASSUME Init PROVE TypeOK
  OBVIOUS
<1>1. Len(<< >>) = 0 /\ 1 .. 0 = {} /\ 0 \in 0 .. 0 /\ MaxMsgs \in Nat /\ MaxTime \in Nat
  BY ConstantParts
<1>2. stream \in Seq(Requests) /\ acks \in Seq(AckRecords) /\ sends \in Seq(SendRecords)
  BY DEF Init
<1>3. effects \in Seq([req : Requests, msg : Msgs, send : 1 .. Len(sends)])
  BY DEF Init
<1>4. /\ pc \in [Consumers -> Stages]
      /\ answer \in [Consumers -> [status : Statuses, order : Nat]]
      /\ reply \in [Consumers -> Replies]
      /\ \A c \in Consumers : pc[c] \notin {"idle", "down"} => msg[c] # 0
  BY DEF Init, Stages, Statuses, NoAnswer, Replies
<1> QED
  BY <1>1, <1>2, <1>3, <1>4 DEF Init, TypeOK

(* Handing over an entry.                                                  *)
LEMMA HandOverType ==
  ASSUME TypeOK, NEW i \in Msgs, HandOver(i)
  PROVE  /\ i \in 1 .. cursor'
         /\ cursor \in Nat /\ cursor <= cursor' /\ cursor' \in 0 .. Len(stream)
         /\ pending' \subseteq 1 .. cursor'
         /\ since' \in [Msgs -> 0 .. now]
         /\ i \in pending'
<1>1. now \in Nat /\ cursor \in 0 .. Len(stream) /\ Len(stream) \in Nat /\ i \in Nat /\ i >= 1
  BY ConstantParts, LenProperties DEF TypeOK
<1>2. (i \in pending /\ i <= cursor) \/ (i = cursor + 1 /\ i <= Len(stream))
  BY <1>1 DEF HandOver, NextEntry, Claimable, TypeOK
<1>3. cursor' = (IF i > cursor THEN i ELSE cursor) /\ pending' = pending \cup {i}
      /\ since' = [since EXCEPT ![i] = now]
  BY DEF HandOver
<1>4. since' \in [Msgs -> 0 .. now]
  BY <1>1, <1>3 DEF TypeOK
<1>5. pending \subseteq 1 .. cursor
  BY DEF TypeOK
<1> QED
  BY <1>1, <1>2, <1>3, <1>4, <1>5

(* A step keeps the types when it keeps them variable by variable.         *)
LEMMA TypeFrame ==
  ASSUME TypeOK,
         \/ stream' = stream
         \/ stream' \in Seq(Requests) /\ Len(stream') <= MaxMsgs /\ Len(stream) <= Len(stream'),
         cursor' = cursor \/ (cursor <= cursor' /\ cursor' \in 0 .. Len(stream')),
         pending' \subseteq pending \/ pending' \subseteq 1 .. cursor',
         now' = now \/ (now <= now' /\ now' \in 0 .. MaxTime),
         since' = since \/ since' \in [Msgs -> 0 .. now'],
         acks' = acks \/ acks' \in Seq(AckRecords),
         pc' = pc \/ pc' \in [Consumers -> Stages],
         msg' = msg \/ msg' \in [Consumers -> 0 .. cursor'],
         \/ pc' = pc /\ msg' = msg
         \/ \A c \in Consumers : pc'[c] \notin {"idle", "down"} => msg'[c] # 0,
         answer' = answer \/ answer' \in [Consumers -> [status : Statuses, order : Nat]],
         life' = life \/ life' \in [Consumers -> Nat],
         sends' = sends \/ (sends' \in Seq(SendRecords) /\ Len(sends) <= Len(sends')),
         sendOf' = sendOf \/ sendOf' \in [Consumers -> 0 .. Len(sends')],
         reply' = reply \/ reply' \in [Consumers -> Replies],
         \/ effects' = effects
         \/ effects' \in Seq([req : Requests, msg : Msgs, send : 1 .. Len(sends')])
  PROVE  TypeOK'
<1>1. /\ Len(stream') \in Nat /\ Len(stream) \in Nat /\ Len(stream) <= Len(stream')
      /\ Len(stream') <= MaxMsgs /\ stream' \in Seq(Requests)
  BY LenProperties DEF TypeOK
<1>2. Len(sends') \in Nat /\ Len(sends) \in Nat /\ Len(sends) <= Len(sends') /\ sends' \in Seq(SendRecords)
  BY LenProperties DEF TypeOK
<1>3. now \in Nat /\ now' \in Nat /\ now <= now' /\ now' \in 0 .. MaxTime
  BY ConstantParts DEF TypeOK
<1>4. cursor \in Nat /\ cursor' \in Nat /\ cursor <= cursor' /\ cursor' \in 0 .. Len(stream')
  BY <1>1 DEF TypeOK
<1>5. /\ 0 .. cursor \subseteq 0 .. cursor' /\ 1 .. cursor \subseteq 1 .. cursor'
      /\ 0 .. now \subseteq 0 .. now'
      /\ 0 .. Len(sends) \subseteq 0 .. Len(sends')
      /\ 1 .. Len(sends) \subseteq 1 .. Len(sends')
  BY <1>2, <1>3, <1>4
<1>6. /\ since' \in [Msgs -> 0 .. now'] /\ pending' \subseteq 1 .. cursor'
      /\ acks' \in Seq(AckRecords)
  BY <1>5 DEF TypeOK
<1>7. /\ pc' \in [Consumers -> Stages]
      /\ msg' \in [Consumers -> 0 .. cursor']
      /\ \A c \in Consumers : pc'[c] \notin {"idle", "down"} => msg'[c] # 0
  BY <1>5 DEF TypeOK
<1>8. /\ answer' \in [Consumers -> [status : Statuses, order : Nat]]
      /\ life' \in [Consumers -> Nat]
      /\ sendOf' \in [Consumers -> 0 .. Len(sends')]
      /\ reply' \in [Consumers -> Replies]
  BY <1>5 DEF TypeOK
<1>9. effects' \in Seq([req : Requests, msg : Msgs, send : 1 .. Len(sends')])
  <2>1. [req : Requests, msg : Msgs, send : 1 .. Len(sends)]
          \subseteq [req : Requests, msg : Msgs, send : 1 .. Len(sends')]
    BY <1>5
  <2>2. \A A, B : A \subseteq B => Seq(A) \subseteq Seq(B)
    OBVIOUS
  <2> QED
    BY <2>1, <2>2 DEF TypeOK
<1> QED
  BY <1>1, <1>2, <1>3, <1>4, <1>6, <1>7, <1>8, <1>9
  DEF TypeOK, Stages, Statuses, AckRecords, SendRecords, Msgs, Replies, NoReply

LEMMA PublishType == ASSUME TypeOK, NEW r \in Requests, Publish(r) PROVE TypeOK'
<1>1. stream' \in Seq(Requests) /\ Len(stream') = Len(stream) + 1 /\ Len(stream) < MaxMsgs
  BY AppendProperties DEF Publish, TypeOK
<1>2. Len(stream) \in Nat /\ MaxMsgs \in Nat
  BY ConstantParts, LenProperties DEF TypeOK
<1> QED
  BY <1>1, <1>2, TypeFrame DEF Publish, loop, broker, env

LEMMA TickType == ASSUME TypeOK, Tick PROVE TypeOK'
<1>1. now' \in 0 .. MaxTime /\ now <= now'
  BY ConstantParts DEF TypeOK, Tick
<1> QED
  BY <1>1, TypeFrame DEF Tick, redis, loop, broker

(* The loop takes an entry, or fails to.                                   *)
LEMMA DeliveryType ==
  ASSUME TypeOK, NEW c \in Consumers, Receive(c) \/ LoseDelivery(c) \/ DivertUndecodable(c)
  PROVE  TypeOK'
<1>0. now \in Nat /\ cursor \in Nat /\ cursor <= Len(stream) /\ now \in 0 .. now
  BY ConstantParts, LenProperties DEF TypeOK
<1>1. CASE Receive(c)
  <2>1. PICK i \in Msgs : HandOver(i) /\ msg' = [msg EXCEPT ![c] = i]
    BY <1>1 DEF Receive
  <2>2. /\ i \in 1 .. cursor' /\ cursor <= cursor' /\ cursor' \in 0 .. Len(stream)
        /\ pending' \subseteq 1 .. cursor' /\ since' \in [Msgs -> 0 .. now]
    BY <2>1, HandOverType
  <2>3. msg' \in [Consumers -> 0 .. cursor'] /\ i # 0
    BY SMTT(30), <2>1, <2>2, <1>0 DEF TypeOK
  <2>4. /\ pc' \in [Consumers -> Stages]
        /\ \A d \in Consumers : pc'[d] \notin {"idle", "down"} => msg'[d] # 0
    BY <1>1, <2>1, <2>3 DEF Receive, TypeOK, Stages
  <2> QED
    BY <1>0, <1>1, <2>1, <2>2, <2>3, <2>4, TypeFrame
    DEF Receive, HandOver, broker, env
<1>2. CASE LoseDelivery(c)
  <2>1. PICK i \in Msgs : HandOver(i)
    BY <1>2 DEF LoseDelivery
  <2>2. /\ cursor <= cursor' /\ cursor' \in 0 .. Len(stream)
        /\ pending' \subseteq 1 .. cursor' /\ since' \in [Msgs -> 0 .. now]
    BY <2>1, HandOverType
  <2> QED
    BY <1>0, <1>2, <2>1, <2>2, TypeFrame
    DEF LoseDelivery, HandOver, loop, broker
<1>3. CASE DivertUndecodable(c)
  <2>1. PICK i \in Msgs :
          /\ NextEntry(i)
          /\ since' = [since EXCEPT ![i] = now]
          /\ cursor' = IF i > cursor THEN i ELSE cursor
          /\ pending' = pending \ {i} \/ pending' = pending \cup {i}
    BY <1>3 DEF DivertUndecodable
  <2> i \in Nat /\ i >= 1 /\ Len(stream) \in Nat
    BY ConstantParts, LenProperties DEF TypeOK
  <2>2. (i \in pending /\ i <= cursor) \/ (i = cursor + 1 /\ i <= Len(stream))
    BY <1>0, <2>1 DEF NextEntry, Claimable, TypeOK
  <2>3. cursor <= cursor' /\ cursor' \in 0 .. Len(stream) /\ i \in 1 .. cursor'
    BY <1>0, <2>1, <2>2, ConstantParts, LenProperties DEF TypeOK
  <2>4. pending' \subseteq 1 .. cursor' /\ since' \in [Msgs -> 0 .. now]
    <3>1. pending \subseteq 1 .. cursor /\ since \in [Msgs -> 0 .. now]
      BY DEF TypeOK
    <3>2. 1 .. cursor \subseteq 1 .. cursor'
      BY <1>0, <2>3
    <3>3. pending' \subseteq 1 .. cursor'
      BY <3>1, <3>2, <2>1, <2>3
    <3> QED
      BY <3>1, <3>3, <1>0, <2>1
  <2> QED
    BY <1>0, <1>3, <2>3, <2>4, TypeFrame
    DEF DivertUndecodable, loop, broker
<1> QED
  BY <1>1, <1>2, <1>3

(* A loop that moves to another stage with an entry in hand.               *)
LEMMA StageType ==
  ASSUME TypeOK, NEW c \in Consumers, NEW s \in Stages, pc[c] \notin {"idle", "down"}
  PROVE  LET p == [pc EXCEPT ![c] = s] IN
         /\ p \in [Consumers -> Stages]
         /\ \A d \in Consumers : p[d] \notin {"idle", "down"} => msg[d] # 0
  BY DEF TypeOK

LEMMA PrepareAnswerType ==
  ASSUME TypeOK, NEW c \in Consumers, NEW status \in Statuses, NEW order \in Nat,
         pc[c] \notin {"idle", "down"}, PrepareAnswer(c, status, order)
  PROVE  /\ pc' \in [Consumers -> Stages]
         /\ \A d \in Consumers : pc'[d] \notin {"idle", "down"} => msg[d] # 0
         /\ answer' \in [Consumers -> [status : Statuses, order : Nat]]
<1>1. "answering" \in Stages
  BY DEF Stages
<1>2. [status |-> status, order |-> order] \in [status : Statuses, order : Nat]
  OBVIOUS
<1> QED
  BY <1>1, <1>2, StageType DEF PrepareAnswer, TypeOK

(* Decisions of the loop, and the answers it prepares.                     *)
LEMMA DecideType == ASSUME TypeOK, NEW c \in Consumers, Decide(c) PROVE TypeOK'
<1>1. /\ UNCHANGED <<redis, msg, life, broker, env>> /\ pc[c] = "received"
  BY DEF Decide, AnswerDuplicate, AnswerInvalid, AnswerExpired, Admit, Consult
<1>2. "Duplicate" \in Statuses /\ "Rejected" \in Statuses /\ "Expired" \in Statuses /\ 0 \in Nat
  BY DEF Statuses
<1>3. CASE AnswerDuplicate(c) \/ AnswerInvalid(c) \/ AnswerExpired(c)
  <2>1. /\ pc' \in [Consumers -> Stages]
        /\ \A d \in Consumers : pc'[d] \notin {"idle", "down"} => msg[d] # 0
        /\ answer' \in [Consumers -> [status : Statuses, order : Nat]]
    BY <1>1, <1>2, <1>3, PrepareAnswerType DEF AnswerDuplicate, AnswerInvalid, AnswerExpired
  <2> QED
    BY <1>1, <2>1, TypeFrame DEF redis, broker, env
<1>4. CASE Admit(c)
  <2>1. /\ pc' \in [Consumers -> Stages]
        /\ \A d \in Consumers : pc'[d] \notin {"idle", "down"} => msg[d] # 0
        /\ answer' = answer
    BY <1>1, <1>4, StageType DEF Admit, Stages
  <2> QED
    BY <1>1, <2>1, TypeFrame DEF redis, broker, env
<1> QED
  BY <1>3, <1>4 DEF Decide

LEMMA AnswerType ==
  ASSUME TypeOK, NEW c \in Consumers,
         AnswerStalePath(c) \/ Respond(c) \/ TransportError(c)
  PROVE  TypeOK'
<1>1. "Error" \in Statuses /\ 0 \in Nat
  BY DEF Statuses
<1>2. sendOf' = sendOf \/ sendOf' \in [Consumers -> 0 .. Len(sends)]
  <2>1. 0 \in 0 .. Len(sends) /\ sendOf \in [Consumers -> 0 .. Len(sends)]
    BY LenProperties DEF TypeOK
  <2>2. sendOf' = sendOf \/ sendOf' = [sendOf EXCEPT ![c] = 0]
    BY DEF AnswerStalePath, Respond, TransportError, broker
  <2> QED
    BY <2>1, <2>2
<1>3. CASE AnswerStalePath(c)
  <2>1. /\ pc' \in [Consumers -> Stages]
        /\ \A d \in Consumers : pc'[d] \notin {"idle", "down"} => msg[d] # 0
        /\ answer' \in [Consumers -> [status : Statuses, order : Nat]]
    BY <1>1, <1>3, PrepareAnswerType DEF AnswerStalePath
  <2> QED
    BY <1>3, <2>1, TypeFrame DEF AnswerStalePath, redis, broker, env
<1>4. CASE TransportError(c)
  <2>1. /\ pc' \in [Consumers -> Stages]
        /\ \A d \in Consumers : pc'[d] \notin {"idle", "down"} => msg[d] # 0
        /\ answer' \in [Consumers -> [status : Statuses, order : Nat]]
    BY <1>1, <1>4, PrepareAnswerType DEF TransportError
  <2> QED
    BY <1>2, <1>4, <2>1, TypeFrame DEF TransportError, redis, env
<1>5. CASE Respond(c)
  <2>1. StatusOf(reply[c].kind) \in Statuses /\ reply[c].order \in Nat
    <3>1. reply[c] \in Replies /\ reply[c] # NoReply
      BY <1>5 DEF TypeOK, Respond
    <3> QED
      BY <3>1 DEF Replies, StatusOf, Statuses
  <2>2. /\ pc' \in [Consumers -> Stages]
        /\ \A d \in Consumers : pc'[d] \notin {"idle", "down"} => msg[d] # 0
        /\ answer' \in [Consumers -> [status : Statuses, order : Nat]]
    BY <1>5, <2>1, PrepareAnswerType DEF Respond
  <2> QED
    BY <1>2, <1>5, <2>2, TypeFrame DEF Respond, redis, env
<1> QED
  BY <1>3, <1>4, <1>5

(* The entry a working loop has in hand, and the acknowledgement for it.   *)
LEMMA EntryInHand ==
  ASSUME TypeOK, NEW c \in Consumers, pc[c] \in Working
  PROVE  /\ msg[c] \in 1 .. cursor /\ msg[c] \in 1 .. Len(stream) /\ msg[c] \in Msgs
         /\ Request(c) \in Requests
         /\ AckRecord(c) \in AckRecords
<1>1. /\ Len(stream) \in Nat /\ cursor \in Nat /\ cursor <= Len(stream)
      /\ Len(stream) <= MaxMsgs /\ MaxMsgs \in Nat
  BY ConstantParts, LenProperties DEF TypeOK
<1>2. msg[c] \in 1 .. cursor
  <2>1. msg[c] \in 0 .. cursor /\ msg[c] # 0
    BY DEF TypeOK, Working
  <2> QED
    BY <2>1, <1>1
<1>3. msg[c] \in 1 .. Len(stream) /\ msg[c] \in Msgs
  BY <1>1, <1>2 DEF Msgs
<1>4. Request(c) \in Requests
  BY <1>3, ElementOfSeq DEF Request, TypeOK
<1> QED
  BY <1>2, <1>3, <1>4 DEF TypeOK, AckRecord, AckRecords

(* Writing the request to the socket.                                      *)
LEMMA SendType ==
  ASSUME TypeOK, StoresRight, NEW c \in Consumers, LoopRight(c), Send(c)
  PROVE  TypeOK'
<1> DEFINE s == [req |-> Request(c), msg |-> msg[c], con |-> c,
                 life |-> life[c], state |-> "wire",
                 marked |-> store[c].entries[Request(c)],
                 after |-> Len(acks)]
<1>1. pc[c] = "admitted" /\ sends' = Append(sends, s)
  BY DEF Send
<1>2. /\ Len(sends) \in Nat /\ Len(stream) \in Nat /\ Len(acks) \in Nat /\ now \in Nat
      /\ cursor <= Len(stream) /\ Len(stream) <= MaxMsgs /\ MaxMsgs \in Nat /\ cursor \in Nat
      /\ sends \in Seq(SendRecords)
  BY ConstantParts, LenProperties DEF TypeOK
<1>3. pc[c] \in Working
  BY <1>1 DEF Working
<1>4. msg[c] \in Msgs /\ Request(c) \in Requests
  BY <1>3, EntryInHand
<1>5. store[c].entries[Request(c)] \in Nat
  <2>1. Request(c) \in DOMAIN store[c].entries
    BY <1>1 DEF LoopRight
  <2>2. store[c].entries \in [DOMAIN store[c].entries -> 0 .. now]
    BY StoreParts DEF StoresRight
  <2> QED
    BY <2>1, <2>2, <1>2
<1>6. s \in SendRecords
  BY <1>2, <1>4, <1>5 DEF SendRecords, TypeOK
<1> HIDE DEF s
<1>7. sends' \in Seq(SendRecords) /\ Len(sends') = Len(sends) + 1
  BY <1>1, <1>2, <1>6, AppendProperties
<1>8. sendOf' \in [Consumers -> 0 .. Len(sends')]
  <2>1. sendOf' = [sendOf EXCEPT ![c] = Len(sends')] /\ sendOf \in [Consumers -> 0 .. Len(sends)]
    BY DEF Send, TypeOK
  <2> QED
    BY <2>1, <1>2, <1>7
<1>9. reply' \in [Consumers -> Replies]
  <2>1. NoReply \in Replies /\ reply \in [Consumers -> Replies]
    BY DEF TypeOK, Replies
  <2> QED
    BY <2>1 DEF Send
<1>10. /\ pc' \in [Consumers -> Stages]
       /\ \A d \in Consumers : pc'[d] \notin {"idle", "down"} => msg[d] # 0
  BY <1>1, StageType DEF Send, Stages
<1> QED
  BY <1>2, <1>7, <1>8, <1>9, <1>10, TypeFrame DEF Send, redis, env

(* A step of the broker changes the state of one request on the wire.      *)
LEMMA WireType ==
  ASSUME TypeOK, NEW n \in 1 .. Len(sends), NEW s \in {"settled", "lost"}
  PROVE  LET t == [sends EXCEPT ![n].state = s] IN
         t \in Seq(SendRecords) /\ Len(t) = Len(sends)
<1> DEFINE t == [sends EXCEPT ![n].state = s]
<1>1. sends \in Seq(SendRecords) /\ Len(sends) \in Nat /\ sends[n] \in SendRecords
  BY LenProperties, ElementOfSeq DEF TypeOK
<1>2. [sends[n] EXCEPT !.state = s] \in SendRecords
  BY <1>1 DEF SendRecords
<1>3. t = [sends EXCEPT ![n] = [sends[n] EXCEPT !.state = s]]
  OBVIOUS
<1> QED
  BY <1>1, <1>2, <1>3, ExceptSeq

LEMMA BrokerType == ASSUME TypeOK, NEW n \in 1 .. Len(sends), BrokerStep(n) PROVE TypeOK'
<1>1. CASE LoseRequest(n)
  BY <1>1, WireType, TypeFrame, LenProperties DEF LoseRequest, redis, loop, env, TypeOK
<1>2. ASSUME NEW kind \in {"ok", "refused", "garbled"}, NEW order \in Nat, Settle(n, kind, order)
      PROVE  /\ sends' \in Seq(SendRecords) /\ Len(sends') = Len(sends)
             /\ reply' \in [Consumers -> Replies]
             /\ UNCHANGED <<redis, loop, sendOf, env>>
  <2>1. sends' \in Seq(SendRecords) /\ Len(sends') = Len(sends)
    BY <1>2, WireType DEF Settle
  <2>2. [kind |-> kind, order |-> order] \in Replies
    BY DEF Replies
  <2> QED
    BY <1>2, <2>1, <2>2 DEF Settle, TypeOK
<1>3. ASSUME NEW kind \in {"refused", "garbled"}, BrokerRefuses(n, kind) PROVE TypeOK'
  <2>1. /\ sends' \in Seq(SendRecords) /\ Len(sends') = Len(sends)
        /\ reply' \in [Consumers -> Replies]
        /\ UNCHANGED <<redis, loop, sendOf, effects, env>>
    BY <1>2, <1>3 DEF BrokerRefuses
  <2>2. Len(sends) \in Nat
    BY LenProperties DEF TypeOK
  <2> QED
    BY <2>1, <2>2, TypeFrame DEF redis, loop, env
<1>4. ASSUME NEW kind \in {"ok", "garbled"}, BrokerExecutes(n, kind) PROVE TypeOK'
  <2> DEFINE r == sends[n].req
             o == IF r \in Cancels THEN CancelTarget[r] ELSE Len(effects) + 1
             e == [req |-> sends[n].req, msg |-> sends[n].msg, send |-> n]
             E == [req : Requests, msg : Msgs, send : 1 .. Len(sends)]
  <2>1. Len(sends) \in Nat /\ sends[n] \in SendRecords /\ effects \in Seq(E) /\ Len(effects) \in Nat
    BY LenProperties, ElementOfSeq DEF TypeOK
  <2>2. o \in Nat
    BY <2>1, ConstantParts
  <2>3. PICK shown \in {o, 0} : Settle(n, kind, shown)
    BY <1>4 DEF BrokerExecutes
  <2>4. /\ sends' \in Seq(SendRecords) /\ Len(sends') = Len(sends)
        /\ reply' \in [Consumers -> Replies]
        /\ UNCHANGED <<redis, loop, sendOf, env>>
    BY <1>2, <2>2, <2>3
  <2>5. effects' \in Seq([req : Requests, msg : Msgs, send : 1 .. Len(sends')])
    <3>1. e \in E
      BY <2>1 DEF SendRecords
    <3>2. effects' = Append(effects, e)
      BY <1>4 DEF BrokerExecutes
    <3> HIDE DEF e
    <3> QED
      BY <3>1, <3>2, <2>1, <2>4, AppendProperties
  <2> QED
    BY <2>1, <2>4, <2>5, TypeFrame DEF redis, loop, env
<1> QED
  BY <1>1, <1>3, <1>4 DEF BrokerStep

(* The acknowledgement and its XACK, also when they fail half way.         *)
LEMMA AckType ==
  ASSUME TypeOK, NEW c \in Consumers,
         PublishAck(c) \/ Xack(c) \/ FailPublishAck(c) \/ FailXack(c)
  PROVE  TypeOK'
<1>1. pc[c] \in {"answering", "acking"} /\ pc[c] \in Working /\ pc[c] \notin {"idle", "down"}
  BY DEF PublishAck, Xack, FailPublishAck, FailXack, Working
<1>2. acks \in Seq(AckRecords) /\ Append(acks, AckRecord(c)) \in Seq(AckRecords)
  BY <1>1, EntryInHand, AppendProperties DEF TypeOK
<1>3. acks' \in Seq(AckRecords) /\ pending' \subseteq pending
  BY <1>2 DEF PublishAck, Xack, FailPublishAck, FailXack
<1>4. PICK s \in {"acking", "idle", "stopped"} : pc' = [pc EXCEPT ![c] = s]
  BY DEF PublishAck, Xack, FailPublishAck, FailXack, StopLoop
<1>5. /\ pc' \in [Consumers -> Stages]
      /\ \A d \in Consumers : pc'[d] \notin {"idle", "down"} => msg[d] # 0
  BY <1>1, <1>4, StageType DEF Stages
<1>6. UNCHANGED <<stream, cursor, since, msg, answer, life, broker, now>>
  BY DEF PublishAck, Xack, FailPublishAck, FailXack, StopLoop, env
<1> QED
  BY <1>3, <1>5, <1>6, TypeFrame DEF broker

LEMMA RestartType == ASSUME TypeOK, NEW c \in Consumers, Die(c) \/ Start(c) PROVE TypeOK'
<1>1. CASE Die(c)
  <2>1. /\ pc' \in [Consumers -> Stages]
        /\ \A d \in Consumers : pc'[d] \notin {"idle", "down"} => msg[d] # 0
    BY <1>1 DEF Die, TypeOK, Stages
  <2>2. sendOf' \in [Consumers -> 0 .. Len(sends)]
    <3>1. 0 \in 0 .. Len(sends) /\ sendOf \in [Consumers -> 0 .. Len(sends)]
      BY LenProperties DEF TypeOK
    <3> QED
      BY <3>1, <1>1 DEF Die
  <2> QED
    BY <1>1, <2>1, <2>2, TypeFrame DEF Die, redis
<1>2. CASE Start(c)
  <2>1. /\ pc' \in [Consumers -> Stages]
        /\ \A d \in Consumers : pc'[d] \notin {"idle", "down"} => msg[d] # 0
        /\ life' \in [Consumers -> Nat]
    BY <1>2 DEF Start, TypeOK, Stages
  <2> QED
    BY <1>2, <2>1, TypeFrame DEF Start, redis, broker, env
<1> QED
  BY <1>1, <1>2

LEMMA StepTypeOK ==
  ASSUME TypeOK, StoresRight, \A c \in Consumers : LoopRight(c), Next
  PROVE  TypeOK'
<1>1. ASSUME NEW c \in Consumers, LoopStep(c) \/ Fail(c) \/ Start(c) PROVE TypeOK'
  BY <1>1, DeliveryType, DecideType, AnswerType, SendType, AckType, RestartType
  DEF LoopStep, Fail
<1> QED
  BY <1>1, PublishType, BrokerType, TickType DEF Next

-----------------------------------------------------------------------------
(* The stores.                                                             *)

LEMMA EmptyStoreRight ==
  ASSUME NEW t \in Nat
  PROVE  /\ EmptyStore \in Stores(t) /\ Consistent(EmptyStore)
         /\ Len(EmptyStore.order) <= MaxEntries /\ DOMAIN EmptyStore.entries = {}
<1>1. /\ EmptyStore.order = << >> /\ Len(EmptyStore.order) = 0 /\ 1 .. 0 = {}
      /\ DOMAIN EmptyStore.entries = {} /\ EmptyStore.entries \in [{} -> 0 .. t]
      /\ EmptyStore = [entries |-> EmptyStore.entries, order |-> EmptyStore.order]
  BY DEF EmptyStore
<1>2. EmptyStore \in Stores(t)
  BY <1>1, StoreParts
<1> QED
  BY <1>1, <1>2, MaxEntriesAssumption DEF Consistent

LEMMA StepStores == ASSUME TypeOK, StoresRight, Next PROVE StoresRight'
<1>1. now \in Nat
  BY ConstantParts DEF TypeOK
<1>2. CASE store' = store /\ now' = now
  BY <1>2 DEF StoresRight
<1>3. CASE Tick
  <2>1. store' = store /\ now' \in Nat /\ now <= now'
    BY <1>1, <1>3 DEF Tick, loop
  <2> QED
    BY <1>1, <2>1, StoreLater DEF StoresRight
<1>4. ASSUME NEW c \in Consumers, Consult(c), pc[c] = "received" PROVE StoresRight'
  <2>1. store' = [store EXCEPT ![c] = CheckAndSet(store[c], Request(c), now)] /\ now' = now
    BY <1>4 DEF Consult, env
  <2>2. Request(c) \in Requests
    BY <1>4, EntryInHand DEF Working
  <2>3. LET k == CheckAndSet(store[c], Request(c), now)
        IN  k \in Stores(now) /\ Consistent(k) /\ Len(k.order) <= MaxEntries
    BY <1>1, <2>2, CheckAndSetKeeps DEF StoresRight
  <2> QED
    BY <2>1, <2>3 DEF StoresRight
<1>5. ASSUME NEW c \in Consumers, Start(c) PROVE StoresRight'
  <2>1. store' = [store EXCEPT ![c] = EmptyStore] /\ now' = now
    BY <1>5 DEF Start, env
  <2> QED
    BY <1>1, <2>1, EmptyStoreRight DEF StoresRight
<1>6. ASSUME NEW c \in Consumers, LoopStep(c) PROVE StoresRight'
  <2>1. CASE Decide(c)
    BY <1>4, <2>1 DEF Decide, AnswerDuplicate, AnswerInvalid, AnswerExpired, Admit, Consult
  <2>2. CASE ~ Decide(c)
    <3>1. store' = store /\ now' = now
      BY <1>6, <2>2 DEF LoopStep, Receive, DivertUndecodable, AnswerStalePath, Send, Respond,
                        TransportError, PublishAck, Xack, loop, env
    <3> QED
      BY <3>1, <1>2
  <2> QED
    BY <2>1, <2>2
<1>7. ASSUME NEW c \in Consumers, Fail(c) PROVE store' = store /\ now' = now
  BY <1>7 DEF Fail, LoseDelivery, FailPublishAck, FailXack, StopLoop, Die, loop
<1>8. ASSUME NEW r \in Requests, Publish(r) PROVE store' = store /\ now' = now
  BY <1>8 DEF Publish, loop, env
<1>9. ASSUME NEW n \in 1 .. Len(sends), BrokerStep(n) PROVE store' = store /\ now' = now
  BY <1>9 DEF BrokerStep, BrokerExecutes, BrokerRefuses, LoseRequest, Settle, loop, env
<1> QED
  BY <1>2, <1>3, <1>5, <1>6, <1>7, <1>8, <1>9 DEF Next

-----------------------------------------------------------------------------
(* The histories only grow.                                                *)

Extends(t, s) == Len(s) <= Len(t) /\ \A i \in 1 .. Len(s) : t[i] = s[i]

Later ==
  /\ Extends(stream', stream) /\ cursor <= cursor'
  /\ Extends(acks', acks)
  /\ Extends(effects', effects)
  /\ Len(sends) <= Len(sends')
  /\ \A n \in 1 .. Len(sends) : sends'[n].msg = sends[n].msg

LEMMA AppendExtends ==
  ASSUME NEW S, NEW s \in Seq(S), NEW e \in S
  PROVE  /\ Extends(Append(s, e), s)
         /\ Len(Append(s, e)) = Len(s) + 1 /\ Append(s, e)[Len(s) + 1] = e
  BY AppendProperties, LenProperties DEF Extends

LEMMA SameExtends == ASSUME NEW S, NEW s \in Seq(S) PROVE Extends(s, s)
  BY LenProperties DEF Extends

(* The step settles or loses one request on the wire.                      *)
LEMMA WireLater ==
  ASSUME TypeOK, NEW n \in 1 .. Len(sends), NEW s \in {"settled", "lost"},
         sends' = [sends EXCEPT ![n].state = s]
  PROVE  /\ Len(sends) <= Len(sends')
         /\ \A m \in 1 .. Len(sends) : sends'[m].msg = sends[m].msg
<1>1. sends \in Seq(SendRecords) /\ Len(sends) \in Nat /\ sends[n] \in SendRecords
      /\ DOMAIN sends = 1 .. Len(sends)
  BY LenProperties, ElementOfSeq DEF TypeOK
<1>2. Len(sends') = Len(sends)
  BY WireType
<1>3. [sends[n] EXCEPT !.state = s].msg = sends[n].msg
  BY <1>1 DEF SendRecords
<1> QED
  BY <1>1, <1>2, <1>3

LEMMA StepLater ==
  ASSUME TypeOK, StoresRight, \A c \in Consumers : LoopRight(c), Next
  PROVE  Later
<1> DEFINE E == [req : Requests, msg : Msgs, send : 1 .. Len(sends)]
<1>1. /\ stream \in Seq(Requests) /\ acks \in Seq(AckRecords) /\ sends \in Seq(SendRecords)
      /\ effects \in Seq(E) /\ cursor \in Nat
      /\ Len(sends) \in Nat /\ Len(sends) <= Len(sends)
  BY LenProperties DEF TypeOK
<1>2. Extends(stream, stream) /\ Extends(acks, acks) /\ Extends(effects, effects)
      /\ cursor <= cursor
  BY <1>1, SameExtends
<1>3. CASE UNCHANGED <<redis, broker>>
  BY <1>1, <1>2, <1>3 DEF redis, broker, Later
<1>4. ASSUME NEW r \in Requests, Publish(r) PROVE Later
  <2>1. Extends(stream', stream)
    BY <1>1, <1>4, AppendExtends DEF Publish
  <2> QED
    BY <1>1, <1>2, <1>4, <2>1 DEF Publish, broker, Later
<1>5. ASSUME NEW c \in Consumers, Receive(c) \/ LoseDelivery(c) PROVE Later
  <2>1. PICK i \in Msgs : HandOver(i)
    BY <1>5 DEF Receive, LoseDelivery
  <2>2. cursor <= cursor' /\ UNCHANGED <<stream, acks, broker>>
    BY <1>5, <2>1, HandOverType DEF Receive, LoseDelivery, HandOver
  <2> QED
    BY <1>1, <1>2, <2>2 DEF broker, Later
<1>6. ASSUME NEW c \in Consumers, DivertUndecodable(c) PROVE Later
  <2>1. PICK i \in Msgs : cursor' = IF i > cursor THEN i ELSE cursor
    BY <1>6 DEF DivertUndecodable
  <2>2. cursor <= cursor' /\ UNCHANGED <<stream, acks, broker>>
    BY <1>1, <1>6, <2>1, ConstantParts DEF DivertUndecodable
  <2> QED
    BY <1>1, <1>2, <2>2 DEF broker, Later
<1>7. ASSUME NEW c \in Consumers, Decide(c) \/ AnswerStalePath(c) \/ Start(c)
      PROVE  UNCHANGED <<redis, broker>>
  BY <1>7 DEF Decide, AnswerDuplicate, AnswerInvalid, AnswerExpired, Admit, Consult,
              AnswerStalePath, Start
<1>8. ASSUME NEW c \in Consumers, Send(c) PROVE Later
  <2>1. PICK e : sends' = Append(sends, e)
    BY <1>8 DEF Send
  <2>2. sends' \in Seq(SendRecords) /\ TypeOK'
    BY <1>8, SendType DEF TypeOK, SendRecords, Msgs
  <2>3. Len(sends) <= Len(sends') /\ \A n \in 1 .. Len(sends) : sends'[n] = sends[n]
    BY <1>1, <2>1
  <2> QED
    BY <1>2, <1>8, <2>3 DEF Send, redis, Later
<1>9. ASSUME NEW c \in Consumers, Respond(c) \/ TransportError(c) \/ Xack(c) \/ FailXack(c) \/ Die(c)
      PROVE  Later
  BY <1>1, <1>2, <1>9
  DEF Respond, TransportError, Xack, FailXack, StopLoop, Die, redis, broker, Later
<1>10. ASSUME NEW c \in Consumers, PublishAck(c) \/ FailPublishAck(c) PROVE Later
  <2>1. pc[c] \in Working
    BY <1>10 DEF PublishAck, FailPublishAck, Working
  <2>2. Extends(acks', acks)
    BY <1>1, <1>2, <1>10, <2>1, EntryInHand, AppendExtends DEF PublishAck, FailPublishAck
  <2> QED
    BY <1>1, <1>2, <1>10, <2>2 DEF PublishAck, FailPublishAck, StopLoop, broker, Later
<1>11. ASSUME NEW n \in 1 .. Len(sends), BrokerStep(n) PROVE Later
  <2>1. PICK s \in {"settled", "lost"} : sends' = [sends EXCEPT ![n].state = s]
    BY <1>11 DEF BrokerStep, BrokerExecutes, BrokerRefuses, Settle, LoseRequest
  <2>2. Extends(effects', effects)
    <3>1. sends[n] \in SendRecords
      BY <1>1, ElementOfSeq
    <3>2. [req |-> sends[n].req, msg |-> sends[n].msg, send |-> n] \in E
      BY <3>1 DEF SendRecords
    <3> HIDE DEF E
    <3> QED
      BY <1>1, <1>2, <1>11, <3>2, AppendExtends
      DEF BrokerStep, BrokerExecutes, BrokerRefuses, LoseRequest
  <2>3. UNCHANGED redis
    BY <1>11 DEF BrokerStep, BrokerExecutes, BrokerRefuses, Settle, LoseRequest
  <2> QED
    BY <1>2, <2>1, <2>2, <2>3, WireLater DEF redis, Later
<1>12. CASE Tick
  BY <1>3, <1>12 DEF Tick
<1> QED
  BY <1>3, <1>4, <1>5, <1>6, <1>7, <1>8, <1>9, <1>10, <1>11, <1>12
  DEF Next, LoopStep, Fail

-----------------------------------------------------------------------------
(* What is sent, and what the other loops know, survives every step.       *)

LEMMA StepSends ==
  ASSUME TypeOK, StoresRight, SendsRight, \A c \in Consumers : LoopRight(c), Next
  PROVE  SendsRight'
<1>1. Later
  BY StepLater
<1>2. /\ cursor \in Nat /\ cursor <= Len(stream) /\ Len(stream) \in Nat
      /\ Len(sends) \in Nat /\ TypeOK' /\ cursor' \in Nat
  <2>1. TypeOK'
    BY StepTypeOK
  <2> QED
    BY <2>1, LenProperties DEF TypeOK
<1>3. ASSUME NEW n \in 1 .. Len(sends)
      PROVE  sends'[n].msg \in 1 .. cursor' /\ stream'[sends'[n].msg] \notin Undecodable
  <2>1. sends[n].msg \in 1 .. cursor /\ stream[sends[n].msg] \notin Undecodable
    BY DEF SendsRight
  <2>2. sends'[n].msg = sends[n].msg /\ cursor <= cursor'
        /\ \A i \in 1 .. Len(stream) : stream'[i] = stream[i]
    BY <1>1 DEF Later, Extends
  <2> QED
    BY <1>2, <2>1, <2>2
<1>4. CASE Len(sends') = Len(sends)
  BY <1>3, <1>4 DEF SendsRight
<1>5. ASSUME NEW c \in Consumers, Send(c) PROVE SendsRight'
  <2>1. pc[c] = "admitted" /\ pc[c] \in Working
    BY <1>5 DEF Send, Working
  <2>2. PICK e : sends' = Append(sends, e) /\ e.msg = msg[c]
    BY <1>5 DEF Send
  <2>3. Len(sends') = Len(sends) + 1 /\ sends'[Len(sends) + 1] = e
    BY <2>2, <1>2 DEF TypeOK
  <2>4. msg[c] \in 1 .. cursor /\ stream[msg[c]] \notin Undecodable
    BY <2>1, EntryInHand DEF LoopRight, Request
  <2>5. stream' = stream /\ cursor' = cursor
    BY <1>5 DEF Send, redis
  <2> QED
    BY <1>2, <1>3, <2>2, <2>3, <2>4, <2>5 DEF SendsRight
<1>6. ASSUME NEW n \in 1 .. Len(sends), BrokerStep(n) PROVE Len(sends') = Len(sends)
  BY <1>6, WireType DEF BrokerStep, BrokerExecutes, BrokerRefuses, Settle, LoseRequest
<1>7. ASSUME NEW c \in Consumers, LoopStep(c), ~ Send(c) PROVE sends' = sends
  BY <1>7 DEF LoopStep, Receive, DivertUndecodable, Decide, AnswerDuplicate, AnswerInvalid,
              AnswerExpired, Admit, Consult, AnswerStalePath, Respond, TransportError,
              PublishAck, Xack, broker
<1>8. ASSUME NEW c \in Consumers, Fail(c) \/ Start(c) PROVE sends' = sends
  BY <1>8 DEF Fail, LoseDelivery, FailPublishAck, FailXack, StopLoop, Die, Start, broker
<1>9. ASSUME (\E r \in Requests : Publish(r)) \/ Tick PROVE sends' = sends
  BY <1>9 DEF Publish, Tick, broker
<1> QED
  BY <1>4, <1>5, <1>6, <1>7, <1>8, <1>9 DEF Next

(* A loop that does not move keeps what it knows.                          *)
LEMMA IdleLoop ==
  ASSUME TypeOK, NEW c \in Consumers, LoopRight(c), MemoryRight(c), Later,
         pc'[c] = pc[c], msg'[c] = msg[c], answer'[c] = answer[c],
         store'[c] = store[c], life'[c] = life[c], sendOf'[c] = sendOf[c],
         reply'[c] = reply[c] \/ (pc[c] = "sent" /\ reply'[c].kind = "ok" => Executed(msg[c])')
  PROVE  LoopRight(c)' /\ MemoryRight(c)'
<1>1. pc[c] \in Working => Request(c)' = Request(c) /\ Request(c) \in Requests
  BY EntryInHand DEF Later, Extends, Request
<1>2. Executed(msg[c]) => Executed(msg[c])'
  BY DEF Later, Extends, Executed
<1>3. Answered(msg[c]) => Answered(msg[c])'
  BY DEF Later, Extends, Answered
<1>4. \A r : Told(c, r) => Told(c, r)'
  BY DEF Later, Extends, Told
<1>5. pc[c] \in Working => \A r : WillTell(c, r) => WillTell(c, r)'
  BY <1>1 DEF WillTell
<1>6. sendOf[c] # 0 => sends'[sendOf[c]].msg = sends[sendOf[c]].msg
  BY LenProperties DEF TypeOK, Later
<1>7. LoopRight(c)'
  BY <1>1, <1>2, <1>3, <1>6 DEF LoopRight, Working
<1>8. MemoryRight(c)'
  BY <1>1, <1>4, <1>5 DEF MemoryRight, Working, WillTell
<1> QED
  BY <1>7, <1>8

(* A loop moves itself only.                                               *)
Still(d) ==
  /\ pc'[d] = pc[d] /\ msg'[d] = msg[d] /\ answer'[d] = answer[d]
  /\ store'[d] = store[d] /\ life'[d] = life[d]
  /\ sendOf'[d] = sendOf[d] /\ reply'[d] = reply[d]

LEMMA OthersStill ==
  ASSUME TypeOK, StoresRight, NEW c \in Consumers, NEW d \in Consumers, d # c,
         LoopStep(c) \/ Fail(c) \/ Start(c)
  PROVE  Still(d)
<1>1. /\ pc \in [Consumers -> Stages] /\ DOMAIN msg = Consumers /\ DOMAIN answer = Consumers
      /\ DOMAIN store = Consumers /\ DOMAIN life = Consumers
      /\ DOMAIN sendOf = Consumers /\ DOMAIN reply = Consumers
  BY DEF TypeOK, StoresRight
<1>2. CASE Receive(c) \/ DivertUndecodable(c)
  BY <1>1, <1>2 DEF Receive, DivertUndecodable, loop, broker, Still
<1>3. CASE Decide(c)
  BY <1>1, <1>3 DEF Decide, AnswerDuplicate, AnswerInvalid, AnswerExpired, Admit, Consult,
                    PrepareAnswer, broker, Still
<1>4. CASE AnswerStalePath(c) \/ Respond(c) \/ TransportError(c)
  BY <1>1, <1>4 DEF AnswerStalePath, Respond, TransportError, PrepareAnswer, broker, Still
<1>5. CASE Send(c)
  BY <1>1, <1>5 DEF Send, Still
<1>6. CASE PublishAck(c) \/ Xack(c) \/ FailPublishAck(c) \/ FailXack(c) \/ LoseDelivery(c)
  BY <1>1, <1>6
  DEF PublishAck, Xack, FailPublishAck, FailXack, LoseDelivery, StopLoop, loop, broker, Still
<1>7. CASE Die(c) \/ Start(c)
  BY <1>1, <1>7 DEF Die, Start, broker, Still
<1> QED
  BY <1>2, <1>3, <1>4, <1>5, <1>6, <1>7 DEF LoopStep, Fail

(* The loop that moves, one lemma per kind of move.                        *)

LEMMA ReceiveLoop ==
  ASSUME TypeOK, StoresRight, NEW c \in Consumers, MemoryRight(c), Receive(c), Later, TypeOK'
  PROVE  LoopRight(c)' /\ MemoryRight(c)'
<1>1. PICK i \in Msgs : stream[i] \notin Undecodable /\ msg' = [msg EXCEPT ![c] = i]
  BY DEF Receive
<1>2. /\ pc[c] = "idle" /\ pc'[c] = "received" /\ msg'[c] = i
      /\ store' = store /\ life' = life /\ acks' = acks /\ stream' = stream
  BY <1>1 DEF Receive, HandOver, TypeOK
<1>3. LoopRight(c)'
  BY <1>1, <1>2 DEF LoopRight, Request
<1>4. \A r \in DOMAIN store[c].entries : Told(c, r)'
  BY <1>2 DEF MemoryRight, WillTell, Told
<1> QED
  BY <1>2, <1>3, <1>4 DEF MemoryRight

LEMMA PrepareAnswerLoop ==
  ASSUME TypeOK, NEW c \in Consumers, NEW status, NEW order, PrepareAnswer(c, status, order)
  PROVE  pc'[c] = "answering" /\ answer'[c].status = status
<1>1. pc \in [Consumers -> Stages] /\ DOMAIN answer = Consumers
  BY DEF TypeOK
<1> QED
  BY <1>1 DEF PrepareAnswer

LEMMA DecideLoop ==
  ASSUME TypeOK, StoresRight, NEW c \in Consumers, LoopRight(c), MemoryRight(c), Decide(c)
  PROVE  LoopRight(c)' /\ MemoryRight(c)'
<1>0. PICK r \in Requests : r = Request(c)
  BY EntryInHand DEF Decide, AnswerDuplicate, AnswerInvalid, AnswerExpired, Admit, Consult, Working
<1>1. /\ UNCHANGED <<redis, msg, life, broker, env>> /\ pc[c] = "received"
      /\ store'[c] = CheckAndSet(store[c], r, now)
  BY <1>0 DEF Decide, AnswerDuplicate, AnswerInvalid, AnswerExpired, Admit, Consult, StoresRight
<1>2. /\ DOMAIN store'[c].entries \subseteq DOMAIN store[c].entries \cup {r}
      /\ r \in DOMAIN store'[c].entries
      /\ ~ Fresh(c) => r \in DOMAIN store[c].entries
  <2>1. now \in Nat
    BY ConstantParts DEF TypeOK
  <2>2. LET k == CheckAndSet(store[c], r, now) IN
        /\ DOMAIN k.entries \subseteq DOMAIN store[c].entries \cup {r}
        /\ r \in DOMAIN k.entries
        /\ ~ IsFresh(store[c], r, now) => r \in DOMAIN store[c].entries
    BY <2>1, CheckAndSetDomain DEF StoresRight
  <2> QED
    BY <1>0, <1>1, <2>2 DEF Fresh
<1>3. /\ Request(c)' = r /\ r \notin Undecodable
      /\ \A q : Told(c, q)' <=> Told(c, q)
  BY <1>0, <1>1 DEF redis, Request, LoopRight, Working, Told
<1>4. \A q \in DOMAIN store[c].entries : Told(c, q)'
  BY <1>1, <1>3 DEF MemoryRight, WillTell
<1>5. CASE AnswerDuplicate(c)
  <2>1. pc'[c] = "answering" /\ answer'[c].status = "Duplicate" /\ ~ Fresh(c)
    BY <1>5, PrepareAnswerLoop DEF AnswerDuplicate
  <2>2. Told(c, r)'
    BY <2>1, <1>2, <1>4
  <2> QED
    BY <1>2, <1>3, <1>4, <2>1, <2>2 DEF LoopRight, MemoryRight
<1>6. CASE AnswerInvalid(c) \/ AnswerExpired(c)
  <2>1. pc'[c] = "answering" /\ answer'[c].status \in {"Rejected", "Expired"}
    BY <1>6, PrepareAnswerLoop DEF AnswerInvalid, AnswerExpired
  <2>2. WillTell(c, r)'
    BY <2>1, <1>3 DEF WillTell
  <2> QED
    BY <1>2, <1>3, <1>4, <2>1, <2>2 DEF LoopRight, MemoryRight
<1>7. CASE Admit(c)
  <2>1. pc'[c] = "admitted"
    BY <1>7 DEF Admit, TypeOK
  <2>2. WillTell(c, r)'
    BY <2>1, <1>3 DEF WillTell
  <2> QED
    BY <1>2, <1>3, <1>4, <2>1, <2>2 DEF LoopRight, MemoryRight
<1> QED
  BY <1>5, <1>6, <1>7 DEF Decide

(* A command on its way to a real answer.                                  *)
LEMMA AnswerLoop ==
  ASSUME TypeOK, StoresRight, NEW c \in Consumers, LoopRight(c), MemoryRight(c),
         AnswerStalePath(c) \/ Respond(c) \/ TransportError(c) \/ Send(c)
  PROVE  LoopRight(c)' /\ MemoryRight(c)'
<1>1. /\ pc[c] \in {"admitted", "sent"}
      /\ UNCHANGED <<redis, msg, store, life, effects>>
  BY DEF AnswerStalePath, Respond, TransportError, Send, broker
<1>2. /\ Request(c)' = Request(c) /\ Request(c) \notin Undecodable
      /\ Executed(msg[c])' <=> Executed(msg[c])
  BY <1>1 DEF redis, Request, Executed, LoopRight, Working
<1>3. \A q \in DOMAIN store[c].entries : Told(c, q) \/ q = Request(c)
  BY <1>1 DEF MemoryRight, WillTell
<1>4. \A q : Told(c, q)' <=> Told(c, q)
  BY <1>1 DEF Told, redis
<1>5. CASE Send(c)
  <2>1. pc'[c] = "sent" /\ sendOf'[c] = Len(sends') /\ reply'[c] = NoReply
    BY <1>5 DEF Send, TypeOK
  <2>2. PICK e : sends' = Append(sends, e) /\ e.msg = msg[c]
    BY <1>5 DEF Send
  <2>3. Len(sends') = Len(sends) + 1 /\ Len(sends) \in Nat /\ sends'[Len(sends')] = e
    BY <2>2, LenProperties DEF TypeOK
  <2>4. LoopRight(c)'
    BY <1>1, <1>2, <2>1, <2>2, <2>3 DEF LoopRight, NoReply
  <2> QED
    BY <1>1, <1>2, <1>3, <1>4, <2>1, <2>4 DEF MemoryRight, WillTell
<1>6. CASE ~ Send(c)
  <2>1. /\ pc'[c] = "answering" /\ answer'[c].status # "Duplicate"
        /\ answer'[c].status = "Accepted" => Executed(msg[c])
    <3>1. CASE AnswerStalePath(c) \/ TransportError(c)
      BY <3>1, PrepareAnswerLoop DEF AnswerStalePath, TransportError
    <3>2. CASE Respond(c)
      <4>1. pc'[c] = "answering" /\ answer'[c].status = StatusOf(reply[c].kind)
            /\ pc[c] = "sent" /\ reply[c] # NoReply
        BY <3>2, PrepareAnswerLoop DEF Respond
      <4>2. reply[c].kind \in {"ok", "refused", "garbled"}
        BY <4>1 DEF TypeOK, Replies
      <4> QED
        BY <4>1, <4>2 DEF StatusOf, LoopRight
    <3> QED
      BY <1>6, <3>1, <3>2
  <2>2. LoopRight(c)'
    BY <1>1, <1>2, <2>1 DEF LoopRight
  <2> QED
    BY <1>1, <1>2, <1>3, <1>4, <2>1, <2>2 DEF MemoryRight, WillTell
<1> QED
  BY <1>5, <1>6

LEMMA PublishAckLoop ==
  ASSUME TypeOK, NEW c \in Consumers, LoopRight(c), MemoryRight(c), PublishAck(c)
  PROVE  LoopRight(c)' /\ MemoryRight(c)'
<1>1. /\ pc[c] = "answering" /\ pc[c] \in Working /\ pc'[c] = "acking"
      /\ UNCHANGED <<stream, msg, store, life>>
  BY DEF PublishAck, TypeOK, Working
<1>2. PICK n \in Nat : n = Len(acks)
  BY LenProperties DEF TypeOK
<1>3. /\ Len(acks') = n + 1
      /\ \A j \in 1 .. n : acks'[j] = acks[j]
      /\ acks'[n + 1] = AckRecord(c)
  BY <1>1, <1>2, EntryInHand, AppendProperties DEF PublishAck, TypeOK
<1>4. Answered(msg[c])' /\ Request(c)' = Request(c)
  BY <1>1, <1>3 DEF Answered, AckRecord, Request
<1>5. \A q : Told(c, q) => Told(c, q)'
  BY <1>1, <1>2, <1>3 DEF Told
<1>6. PICK r : r = Request(c)
  OBVIOUS
<1>7. Told(c, r)'
  <2>1. CASE answer[c].status = "Duplicate"
    BY <2>1, <1>1, <1>5, <1>6 DEF MemoryRight
  <2>2. CASE answer[c].status # "Duplicate"
    BY <2>2, <1>1, <1>3, <1>6 DEF Told, AckRecord
  <2> QED
    BY <2>1, <2>2
<1>8. \A q \in DOMAIN store[c].entries : Told(c, q) \/ q = r
  BY <1>1, <1>6 DEF MemoryRight, WillTell
<1>9. LoopRight(c)'
  BY <1>1, <1>4 DEF LoopRight
<1> QED
  BY <1>1, <1>5, <1>7, <1>8, <1>9 DEF MemoryRight

LEMMA XackLoop ==
  ASSUME TypeOK, NEW c \in Consumers, MemoryRight(c), Xack(c)
  PROVE  LoopRight(c)' /\ MemoryRight(c)'
<1>1. /\ pc[c] = "acking" /\ pc'[c] = "idle"
      /\ UNCHANGED <<acks, store, life>>
  BY DEF Xack, TypeOK
<1>2. \A q \in DOMAIN store[c].entries : Told(c, q)'
  BY <1>1 DEF MemoryRight, WillTell, Told
<1> QED
  BY <1>1, <1>2 DEF LoopRight, MemoryRight, Working

(* A loop that stops, dies or starts again knows nothing.                  *)
LEMMA StoppedLoop ==
  ASSUME TypeOK, StoresRight, NEW c \in Consumers,
         FailPublishAck(c) \/ FailXack(c) \/ Die(c) \/ Start(c)
  PROVE  LoopRight(c)' /\ MemoryRight(c)'
<1>1. CASE FailPublishAck(c) \/ FailXack(c) \/ Die(c)
  <2>1. pc'[c] \in {"stopped", "down"}
    BY <1>1 DEF FailPublishAck, FailXack, StopLoop, Die, TypeOK
  <2> QED
    BY <2>1 DEF LoopRight, MemoryRight, Working
<1>2. CASE Start(c)
  <2>1. pc'[c] = "idle" /\ DOMAIN store'[c].entries = {}
    BY <1>2, EmptyStoreRight DEF Start, TypeOK, StoresRight
  <2> QED
    BY <2>1 DEF LoopRight, MemoryRight, Working
<1> QED
  BY <1>1, <1>2

(* A response reaches the loop that waits for it, and says ok only when    *)
(* the broker acted on its entry.                                          *)
LEMMA BrokerLoops ==
  ASSUME TypeOK, NEW n \in 1 .. Len(sends), BrokerStep(n),
         NEW c \in Consumers, LoopRight(c), MemoryRight(c), Later
  PROVE  LoopRight(c)' /\ MemoryRight(c)'
<1>1. UNCHANGED <<loop, sendOf>>
  BY DEF BrokerStep, BrokerExecutes, BrokerRefuses, Settle, LoseRequest
<1>2. ASSUME NEW kind, NEW order, Settle(n, kind, order)
      PROVE  \/ reply'[c] = reply[c]
             \/ /\ pc[c] = "sent" /\ sendOf[c] = n
                /\ reply'[c].kind = kind
  BY <1>2 DEF Settle, Waits, TypeOK
<1>3. \/ reply'[c] = reply[c]
      \/ pc[c] = "sent" /\ reply'[c].kind = "ok" => Executed(msg[c])'
  <2>1. CASE LoseRequest(n)
    BY <2>1 DEF LoseRequest
  <2>2. ASSUME NEW kind \in {"refused", "garbled"}, BrokerRefuses(n, kind)
        PROVE  reply'[c] = reply[c] \/ reply'[c].kind # "ok"
    BY <1>2, <2>2 DEF BrokerRefuses
  <2>3. ASSUME NEW kind \in {"ok", "garbled"}, BrokerExecutes(n, kind)
        PROVE  reply'[c] = reply[c] \/ Executed(msg[c])'
    <3>1. PICK order : Settle(n, kind, order)
      BY <2>3 DEF BrokerExecutes
    <3>2. PICK k \in Nat : k = Len(effects)
      BY LenProperties DEF TypeOK
    <3>3. Len(effects') = k + 1 /\ effects'[k + 1].msg = sends[n].msg
      BY <2>3, <3>2 DEF BrokerExecutes, TypeOK
    <3>4. CASE pc[c] = "sent" /\ sendOf[c] = n
      <4>1. sends[n].msg = msg[c] /\ msg' = msg
        BY <1>1, <3>4 DEF LoopRight, loop
      <4> QED
        BY <3>2, <3>3, <4>1 DEF Executed
    <3> QED
      BY <1>2, <3>1, <3>4
  <2> QED
    BY <2>1, <2>2, <2>3 DEF BrokerStep
<1> QED
  BY <1>1, <1>3, IdleLoop DEF loop

LEMMA StepLoops ==
  ASSUME TypeOK, StoresRight, Next, \A d \in Consumers : LoopRight(d) /\ MemoryRight(d)
  PROVE  \A d \in Consumers : LoopRight(d)' /\ MemoryRight(d)'
<1> TAKE d \in Consumers
<1>1. Later /\ TypeOK'
  BY StepLater, StepTypeOK
<1>2. CASE Still(d)
  BY <1>1, <1>2, IdleLoop DEF Still
<1>3. ASSUME NEW c \in Consumers, LoopStep(c) \/ Fail(c) \/ Start(c), c # d
      PROVE  Still(d)
  BY <1>3, OthersStill
<1>4. CASE LoopStep(d) \/ Fail(d) \/ Start(d)
  <2>1. CASE DivertUndecodable(d) \/ LoseDelivery(d)
    BY <1>2, <2>1 DEF DivertUndecodable, LoseDelivery, loop, broker, Still
  <2> QED
    BY <1>1, <1>4, <2>1, ReceiveLoop, DecideLoop, AnswerLoop, PublishAckLoop, XackLoop, StoppedLoop
    DEF LoopStep, Fail
<1>5. ASSUME NEW r \in Requests, Publish(r) PROVE Still(d)
  BY <1>5 DEF Publish, loop, broker, Still
<1>6. CASE Tick
  BY <1>2, <1>6 DEF Tick, loop, broker, Still
<1> QED
  BY <1>1, <1>2, <1>3, <1>4, <1>5, <1>6, BrokerLoops DEF Next

(* An acknowledgement is added: a Duplicate has its answer before it.      *)
LEMMA StepDuplicates ==
  ASSUME TypeOK, StoresRight, Next, \A c \in Consumers : LoopRight(c) /\ MemoryRight(c),
         DuplicateFollowsAnswer
  PROVE  DuplicateFollowsAnswer'
<1>1. PICK n \in Nat : n = Len(acks)
  BY LenProperties DEF TypeOK
<1>2. CASE acks' = acks
  BY <1>2 DEF DuplicateFollowsAnswer
<1>3. ASSUME NEW c \in Consumers, pc[c] = "answering", acks' = Append(acks, AckRecord(c))
      PROVE  DuplicateFollowsAnswer'
  <2>1. pc[c] \in Working
    BY <1>3 DEF Working
  <2>2. /\ Len(acks') = n + 1
        /\ \A j \in 1 .. n : acks'[j] = acks[j]
        /\ acks'[n + 1] = AckRecord(c)
    BY <1>1, <1>3, <2>1, EntryInHand, AppendProperties DEF TypeOK
  <2>3. ASSUME NEW k \in 1 .. n + 1, acks'[k].status = "Duplicate"
        PROVE  \E j \in 1 .. k - 1 : /\ acks'[j].req = acks'[k].req
                                     /\ acks'[j].con = acks'[k].con
                                     /\ acks'[j].life = acks'[k].life
                                     /\ acks'[j].status # "Duplicate"
    <3>1. CASE k = n + 1
      <4>1. Told(c, Request(c)) /\ acks'[k] = AckRecord(c)
        BY <1>3, <2>2, <2>3, <3>1 DEF MemoryRight, AckRecord
      <4> QED
        BY <1>1, <2>2, <3>1, <4>1 DEF Told, AckRecord
    <3>2. CASE k # n + 1
      <4>1. k \in 1 .. n /\ \A j \in 1 .. k - 1 : j \in 1 .. n
        BY <3>2
      <4> QED
        BY <1>1, <2>2, <2>3, <4>1 DEF DuplicateFollowsAnswer
    <3> QED
      BY <3>1, <3>2
  <2> QED
    BY <2>2, <2>3 DEF DuplicateFollowsAnswer
<1>4. ASSUME NEW c \in Consumers, LoopStep(c) \/ Fail(c) \/ Start(c)
      PROVE  acks' = acks \/ (pc[c] = "answering" /\ acks' = Append(acks, AckRecord(c)))
  BY <1>4 DEF LoopStep, Fail, Receive, HandOver, DivertUndecodable, Decide, AnswerDuplicate,
              AnswerInvalid, AnswerExpired, Admit, Consult, AnswerStalePath, Send, Respond,
              TransportError, PublishAck, Xack, LoseDelivery, FailPublishAck, FailXack, Die,
              Start, redis
<1>5. ASSUME NEW m \in 1 .. Len(sends), BrokerStep(m) PROVE acks' = acks
  BY <1>5 DEF BrokerStep, BrokerExecutes, BrokerRefuses, Settle, LoseRequest, redis
<1>6. ASSUME (\E r \in Requests : Publish(r)) \/ Tick PROVE acks' = acks
  BY <1>6 DEF Publish, Tick, redis
<1> QED
  BY <1>2, <1>3, <1>4, <1>5, <1>6 DEF Next

-----------------------------------------------------------------------------
(* The inductive invariant.                                                *)

LEMMA InitInvariant == Init => IInv
<1> SUFFICES ASSUME Init PROVE IInv
  OBVIOUS
<1>1. Len(<< >>) = 0 /\ 1 .. 0 = {} /\ 0 \in Nat
  OBVIOUS
<1>2. /\ stream = << >> /\ acks = << >> /\ sends = << >> /\ effects = << >> /\ now = 0
      /\ store = [c \in Consumers |-> EmptyStore]
      /\ \A c \in Consumers : pc[c] = "idle" /\ store[c] = EmptyStore
  BY DEF Init
<1>3. StoresRight
  BY <1>1, <1>2, EmptyStoreRight DEF StoresRight
<1>4. SendsRight /\ DuplicateFollowsAnswer
  BY <1>1, <1>2 DEF SendsRight, DuplicateFollowsAnswer
<1>5. \A c \in Consumers : LoopRight(c) /\ MemoryRight(c)
  BY <1>1, <1>2, EmptyStoreRight DEF LoopRight, MemoryRight, Working
<1> QED
  BY <1>3, <1>4, <1>5, InitTypeOK DEF IInv

LEMMA StutterInvariant == IInv /\ UNCHANGED vars => IInv'
<1> SUFFICES ASSUME IInv, UNCHANGED vars PROVE IInv'
  OBVIOUS
<1> USE DEF vars, redis, loop, broker, env
<1>1. TypeOK'
  BY DEF IInv, TypeOK, AckRecords, SendRecords, Replies, Msgs, Stages, Statuses, NoReply
<1>2. StoresRight' /\ SendsRight' /\ DuplicateFollowsAnswer'
  BY DEF IInv, StoresRight, SendsRight, DuplicateFollowsAnswer
<1>3. ASSUME NEW c \in Consumers PROVE LoopRight(c)' /\ MemoryRight(c)'
  BY DEF IInv, LoopRight, MemoryRight, Executed, Answered, Told, WillTell, Request, Working
<1> QED
  BY <1>1, <1>2, <1>3 DEF IInv

(* The inductive invariant holds in every reachable state.                 *)
THEOREM PathInvariant == Spec => []IInv
<1>1. IInv /\ Next => IInv'
  <2> SUFFICES ASSUME IInv, Next PROVE IInv'
    OBVIOUS
  <2>1. TypeOK /\ StoresRight /\ SendsRight /\ DuplicateFollowsAnswer
        /\ \A c \in Consumers : LoopRight(c) /\ MemoryRight(c)
    BY DEF IInv
  <2>2. TypeOK' /\ StoresRight' /\ SendsRight' /\ DuplicateFollowsAnswer'
    BY <2>1, StepTypeOK, StepStores, StepSends, StepDuplicates
  <2>3. \A c \in Consumers : LoopRight(c)' /\ MemoryRight(c)'
    BY <2>1, StepLoops
  <2> QED
    BY <2>2, <2>3 DEF IInv
<1>2. IInv /\ [Next]_vars => IInv'
  BY <1>1, StutterInvariant
<1> QED
  BY InitInvariant, <1>2, PTL DEF Spec

(* Type correctness of the command path (run_command_consumer with its     *)
(* streams, stores and broker).                                            *)
THEOREM PathTypeOK == Spec => []TypeOK
  BY PathInvariant, PTL DEF IInv

(* A gateway says Duplicate only of a request it has answered in the same  *)
(* life: in run_command_consumer a request that check_and_set remembers    *)
(* was answered, unless the loop that took it has stopped.                 *)
THEOREM PathDuplicates == Spec => []DuplicateFollowsAnswer
  BY PathInvariant, PTL DEF IInv

-----------------------------------------------------------------------------
(* The command path implements its contract.                               *)

(* The messages of a history that gets one more record.                    *)
LEMMA MessagesAppend ==
  ASSUME NEW S, NEW s \in Seq(S), NEW e \in S
  PROVE  LET t == Append(s, e) IN
         /\ {t[k].msg : k \in 1 .. Len(t)} = {s[k].msg : k \in 1 .. Len(s)} \cup {e.msg}
         /\ {t[k].msg : k \in {j \in 1 .. Len(t) : t[j].status = "Accepted"}}
              = {s[k].msg : k \in {j \in 1 .. Len(s) : s[j].status = "Accepted"}}
                  \cup (IF e.status = "Accepted" THEN {e.msg} ELSE {})
<1> DEFINE t == Append(s, e)
<1>1. PICK n \in Nat : n = Len(s)
  BY LenProperties
<1>2. Len(t) = n + 1 /\ t[n + 1] = e /\ \A k \in 1 .. n : t[k] = s[k]
  BY <1>1, AppendProperties
<1>3. 1 .. n + 1 = (1 .. n) \cup {n + 1} /\ n + 1 \notin 1 .. n
  BY <1>1
<1> HIDE DEF t
<1>4. {t[k].msg : k \in 1 .. n + 1} = {s[k].msg : k \in 1 .. n} \cup {e.msg}
  BY <1>2, <1>3
<1>5. {t[k].msg : k \in {j \in 1 .. n + 1 : t[j].status = "Accepted"}}
        = {s[k].msg : k \in {j \in 1 .. n : s[j].status = "Accepted"}}
            \cup (IF e.status = "Accepted" THEN {e.msg} ELSE {})
  BY <1>2, <1>3
<1> QED
  BY <1>1, <1>2, <1>4, <1>5 DEF t

(* The sets of the contract.                                               *)
Published == 1 .. Len(stream)
Poison == {i \in 1 .. Len(stream) : stream[i] \in Undecodable}
Taken == 1 .. cursor
ExecutedSet == {effects[k].msg : k \in 1 .. Len(effects)}
AnsweredSet == {acks[k].msg : k \in 1 .. Len(acks)}
AcceptedSet == {acks[k].msg : k \in {j \in 1 .. Len(acks) : acks[j].status = "Accepted"}}
Retired == (1 .. cursor) \ pending

LEMMA InitContract == Init => Contract!Init
<1>1. Len(<< >>) = 0 /\ 1 .. 0 = {}
  OBVIOUS
<1> QED
  BY <1>1 DEF Init, Contract!Init

LEMMA PublishContract ==
  ASSUME TypeOK, NEW r \in Requests, Publish(r)
  PROVE  \E e \in Msgs : Contract!Publish(e)
<1>1. PICK n \in Nat : n = Len(stream)
  BY LenProperties DEF TypeOK
<1>2. /\ Len(stream') = n + 1 /\ stream'[n + 1] = r
      /\ \A i \in 1 .. n : stream'[i] = stream[i]
      /\ n < MaxMsgs
  BY <1>1, AppendProperties DEF Publish, TypeOK
<1>3. n + 1 \in Msgs /\ n + 1 \notin 1 .. n /\ 1 .. n + 1 = (1 .. n) \cup {n + 1}
  BY <1>2, ConstantParts
<1>4. Published' = Published \cup {n + 1}
  BY <1>1, <1>2, <1>3 DEF Published
<1>5. Poison' \in {Poison, Poison \cup {n + 1}}
  BY <1>1, <1>2, <1>3 DEF Poison
<1>6. UNCHANGED <<Taken, ExecutedSet, AnsweredSet, AcceptedSet, Retired>>
  BY DEF Publish, broker, Taken, ExecutedSet, AnsweredSet, AcceptedSet, Retired
<1>7. Contract!Publish(n + 1)
  BY <1>1, <1>3, <1>4, <1>5, <1>6
  DEF Contract!Publish, Published, Poison, Taken, ExecutedSet, AnsweredSet, AcceptedSet, Retired
<1> QED
  BY <1>3, <1>7

(* What the consumer group delivers is new, or was delivered before.       *)
LEMMA NextEntryParts ==
  ASSUME TypeOK, NEW i \in Msgs, NextEntry(i)
  PROVE  /\ i \in Nat /\ cursor \in Nat /\ i \in Published
         /\ pending \subseteq 1 .. cursor
         /\ \/ i \in pending /\ i \in 1 .. cursor /\ ~ (i > cursor)
            \/ i = cursor + 1 /\ i > cursor /\ i \notin pending
               /\ 1 .. i = (1 .. cursor) \cup {i}
<1>1. /\ i \in Nat /\ i >= 1 /\ cursor \in Nat /\ cursor <= Len(stream) /\ Len(stream) \in Nat
      /\ pending \subseteq 1 .. cursor
  BY ConstantParts, LenProperties DEF TypeOK
<1>2. i \in pending \/ (i = cursor + 1 /\ i <= Len(stream))
  BY <1>1 DEF NextEntry, Claimable
<1>3. CASE i \in pending
  BY <1>1, <1>3 DEF Published
<1>4. CASE i = cursor + 1 /\ i <= Len(stream)
  BY <1>1, <1>4 DEF Published
<1> QED
  BY <1>2, <1>3, <1>4

LEMMA TakeContract ==
  ASSUME TypeOK, NEW i \in Msgs, HandOver(i), UNCHANGED broker
  PROVE  Contract!Take(i)
<1>1. /\ pending' = pending \cup {i} /\ cursor' = (IF i > cursor THEN i ELSE cursor)
      /\ NextEntry(i)
  BY DEF HandOver
<1>2. Taken' = Taken \cup {i} /\ Retired' = Retired
  BY <1>1, NextEntryParts DEF Taken, Retired
<1>3. UNCHANGED <<Published, Poison, ExecutedSet, AnsweredSet, AcceptedSet>>
  BY DEF HandOver, broker, Published, Poison, ExecutedSet, AnsweredSet, AcceptedSet
<1>4. i \in Published
  BY <1>1, NextEntryParts
<1> QED
  BY <1>2, <1>3, <1>4
  DEF Contract!Take, Published, Poison, Taken, ExecutedSet, AnsweredSet, AcceptedSet, Retired

LEMMA DivertContract ==
  ASSUME TypeOK, NEW c \in Consumers, DivertUndecodable(c)
  PROVE  \E e \in Msgs : Contract!Divert(e)
<1>1. PICK i \in Msgs :
        /\ NextEntry(i) /\ stream[i] \in Undecodable
        /\ cursor' = (IF i > cursor THEN i ELSE cursor)
        /\ pending' = pending \ {i} \/ pending' = pending \cup {i}
  BY DEF DivertUndecodable
<1>2. Taken' = Taken \cup {i} /\ Retired' \in {Retired, Retired \cup {i}}
  <2>1. CASE i \in pending
    <3>1. cursor' = cursor /\ i \in 1 .. cursor
      BY <1>1, <2>1, NextEntryParts
    <3> QED
      BY <1>1, <2>1, <3>1 DEF Taken, Retired
  <2>2. CASE i \notin pending
    <3>1. cursor' = i /\ 1 .. i = (1 .. cursor) \cup {i} /\ i \notin 1 .. cursor
      BY <1>1, <2>2, NextEntryParts
    <3> QED
      BY <1>1, <2>2, <3>1 DEF Taken, Retired
  <2> QED
    BY <2>1, <2>2
<1>3. UNCHANGED <<Published, Poison, ExecutedSet, AnsweredSet, AcceptedSet>>
  BY DEF DivertUndecodable, broker, Published, Poison, ExecutedSet, AnsweredSet, AcceptedSet
<1>4. i \in Published \cap Poison
  BY <1>1, NextEntryParts DEF Published, Poison
<1>5. Contract!Divert(i)
  BY <1>2, <1>3, <1>4
  DEF Contract!Divert, Published, Poison, Taken, ExecutedSet, AnsweredSet, AcceptedSet, Retired
<1> QED
  BY <1>5

(* The broker acts on an entry that was delivered and decoded.             *)
LEMMA ExecuteContract ==
  ASSUME TypeOK, SendsRight, NEW n \in 1 .. Len(sends), NEW kind, BrokerExecutes(n, kind)
  PROVE  \E e \in Msgs : Contract!Execute(e)
<1> DEFINE E == [req : Requests, msg : Msgs, send : 1 .. Len(sends)]
           x == [req |-> sends[n].req, msg |-> sends[n].msg, send |-> n]
<1>1. PICK e : e = sends[n].msg
  OBVIOUS
<1>2. effects \in Seq(E) /\ x \in E /\ e \in Msgs
  <2>1. sends[n] \in SendRecords /\ effects \in Seq(E)
    BY ElementOfSeq DEF TypeOK
  <2> QED
    BY <1>1, <2>1 DEF SendRecords
<1>3. effects' = Append(effects, x) /\ x.msg = e
  BY <1>1 DEF BrokerExecutes
<1> HIDE DEF E, x
<1>4. ExecutedSet' = ExecutedSet \cup {e}
  BY <1>2, <1>3, MessagesAppend DEF ExecutedSet
<1>5. UNCHANGED <<Published, Poison, Taken, AnsweredSet, AcceptedSet, Retired>>
  BY DEF BrokerExecutes, Settle, redis, Published, Poison, Taken, AnsweredSet, AcceptedSet, Retired
<1>6. e \in Taken \ Poison
  BY <1>1 DEF SendsRight, Taken, Poison
<1>7. Contract!Execute(e)
  BY <1>4, <1>5, <1>6
  DEF Contract!Execute, Published, Poison, Taken, ExecutedSet, AnsweredSet, AcceptedSet, Retired
<1> QED
  BY <1>2, <1>7

(* An acknowledgement is published for the entry in hand; Accepted only    *)
(* when the broker has acted on it.                                        *)
LEMMA AnswerContract ==
  ASSUME TypeOK, NEW c \in Consumers, LoopRight(c), pc[c] = "answering",
         acks' = Append(acks, AckRecord(c)),
         UNCHANGED <<stream, cursor, pending, broker>>
  PROVE  \E e \in Msgs : Contract!Accept(e) \/ Contract!Refuse(e)
<1>1. PICK e : e = msg[c]
  OBVIOUS
<1>2. /\ pc[c] \in Working /\ AckRecord(c) \in AckRecords /\ acks \in Seq(AckRecords)
      /\ e \in Msgs /\ e \in Taken \ Poison
  <2>1. pc[c] \in Working
    BY DEF Working
  <2>2. AckRecord(c) \in AckRecords /\ e \in Msgs /\ e \in 1 .. cursor /\ stream[e] \notin Undecodable
    BY <1>1, <2>1, EntryInHand DEF LoopRight, Request
  <2> QED
    BY <2>1, <2>2 DEF TypeOK, Taken, Poison
<1>3. AckRecord(c).msg = e /\ AckRecord(c).status = answer[c].status
  BY <1>1 DEF AckRecord
<1>4. /\ AnsweredSet' = AnsweredSet \cup {e}
      /\ AcceptedSet' = AcceptedSet \cup (IF answer[c].status = "Accepted" THEN {e} ELSE {})
  BY <1>2, <1>3, MessagesAppend DEF AnsweredSet, AcceptedSet
<1>5. UNCHANGED <<Published, Poison, Taken, ExecutedSet, Retired>>
  BY DEF broker, Published, Poison, Taken, ExecutedSet, Retired
<1>6. CASE answer[c].status = "Accepted"
  <2>1. e \in ExecutedSet
    BY <1>1, <1>6 DEF LoopRight, Executed, ExecutedSet
  <2>2. AcceptedSet' = AcceptedSet \cup {e}
    BY <1>4, <1>6
  <2>3. Contract!Accept(e)
    BY <1>4, <1>5, <2>1, <2>2
    DEF Contract!Accept, Published, Poison, Taken, ExecutedSet, AnsweredSet, AcceptedSet, Retired
  <2> QED
    BY <1>2, <2>3
<1>7. CASE answer[c].status # "Accepted"
  <2>1. AcceptedSet' = AcceptedSet
    BY <1>4, <1>7
  <2>2. Contract!Refuse(e)
    BY <1>2, <1>4, <1>5, <2>1
    DEF Contract!Refuse, Published, Poison, Taken, ExecutedSet, AnsweredSet, AcceptedSet, Retired
  <2> QED
    BY <1>2, <2>2
<1> QED
  BY <1>6, <1>7

LEMMA RetireContract ==
  ASSUME TypeOK, NEW c \in Consumers, LoopRight(c), pc[c] = "acking",
         pending' = pending \ {msg[c]},
         UNCHANGED <<stream, cursor, acks, broker>>
  PROVE  \E e \in Msgs : Contract!Retire(e)
<1>1. PICK e : e = msg[c]
  OBVIOUS
<1>2. e \in Msgs /\ e \in 1 .. cursor
  BY <1>1, EntryInHand DEF Working
<1>3. Retired' = Retired \cup {e}
  BY <1>1, <1>2 DEF Retired
<1>4. UNCHANGED <<Published, Poison, Taken, ExecutedSet, AnsweredSet, AcceptedSet>>
  BY DEF broker, Published, Poison, Taken, ExecutedSet, AnsweredSet, AcceptedSet
<1>5. e \in AnsweredSet
  BY <1>1 DEF LoopRight, Answered, AnsweredSet
<1>6. Contract!Retire(e)
  BY <1>3, <1>4, <1>5
  DEF Contract!Retire, Published, Poison, Taken, ExecutedSet, AnsweredSet, AcceptedSet, Retired
<1> QED
  BY <1>2, <1>6

LEMMA StutterContract ==
  ASSUME UNCHANGED <<stream, cursor, pending, acks, effects>>
  PROVE  UNCHANGED Contract!vars
  BY DEF Contract!vars

(* Every step of the command path is a step of the contract or leaves it   *)
(* unchanged.                                                              *)
LEMMA StepContract ==
  ASSUME IInv, Next
  PROVE  Contract!Next \/ UNCHANGED Contract!vars
<1>1. TypeOK /\ SendsRight /\ \A c \in Consumers : LoopRight(c)
  BY DEF IInv
<1>2. ASSUME NEW r \in Requests, Publish(r) PROVE Contract!Next
  BY <1>1, <1>2, PublishContract DEF Contract!Next
<1>3. ASSUME NEW c \in Consumers, Receive(c) \/ LoseDelivery(c) PROVE Contract!Next
  <2>1. PICK i \in Msgs : HandOver(i)
    BY <1>3 DEF Receive, LoseDelivery
  <2>2. UNCHANGED broker
    BY <1>3 DEF Receive, LoseDelivery
  <2>3. Contract!Take(i)
    BY <1>1, <2>1, <2>2, TakeContract
  <2> QED
    BY <2>3 DEF Contract!Next
<1>4. ASSUME NEW c \in Consumers, DivertUndecodable(c) PROVE Contract!Next
  BY <1>1, <1>4, DivertContract DEF Contract!Next
<1>5. ASSUME NEW c \in Consumers, PublishAck(c) \/ FailPublishAck(c)
      PROVE  Contract!Next \/ UNCHANGED Contract!vars
  <2>1. /\ pc[c] = "answering" /\ UNCHANGED <<stream, cursor, pending, broker>>
        /\ acks' \in {acks, Append(acks, AckRecord(c))}
    BY <1>5 DEF PublishAck, FailPublishAck, StopLoop
  <2>2. CASE acks' = acks
    BY <2>1, <2>2, StutterContract DEF broker
  <2>3. CASE acks' = Append(acks, AckRecord(c))
    BY <1>1, <2>1, <2>3, AnswerContract DEF Contract!Next
  <2> QED
    BY <2>1, <2>2, <2>3
<1>6. ASSUME NEW c \in Consumers, Xack(c) \/ FailXack(c)
      PROVE  Contract!Next \/ UNCHANGED Contract!vars
  <2>1. /\ pc[c] = "acking" /\ UNCHANGED <<stream, cursor, acks, broker>>
        /\ pending' \in {pending, pending \ {msg[c]}}
    BY <1>6 DEF Xack, FailXack, StopLoop
  <2>2. CASE pending' = pending
    BY <2>1, <2>2, StutterContract DEF broker
  <2>3. CASE pending' = pending \ {msg[c]}
    BY <1>1, <2>1, <2>3, RetireContract DEF Contract!Next
  <2> QED
    BY <2>1, <2>2, <2>3
<1>7. ASSUME NEW c \in Consumers,
             Decide(c) \/ AnswerStalePath(c) \/ Send(c) \/ Respond(c) \/ TransportError(c)
               \/ Die(c) \/ Start(c)
      PROVE  UNCHANGED Contract!vars
  <2>1. UNCHANGED <<stream, cursor, pending, acks, effects>>
    BY <1>7 DEF Decide, AnswerDuplicate, AnswerInvalid, AnswerExpired, Admit, Consult,
                AnswerStalePath, Send, Respond, TransportError, Die, Start, redis, broker
  <2> QED
    BY <2>1, StutterContract
<1>8. ASSUME NEW n \in 1 .. Len(sends), BrokerStep(n)
      PROVE  Contract!Next \/ UNCHANGED Contract!vars
  <2>1. CASE \E kind \in {"ok", "garbled"} : BrokerExecutes(n, kind)
    BY <1>1, <2>1, ExecuteContract DEF Contract!Next
  <2>2. CASE LoseRequest(n) \/ \E kind \in {"refused", "garbled"} : BrokerRefuses(n, kind)
    <3>1. UNCHANGED <<stream, cursor, pending, acks, effects>>
      BY <2>2 DEF LoseRequest, BrokerRefuses, Settle, redis
    <3> QED
      BY <3>1, StutterContract
  <2> QED
    BY <1>8, <2>1, <2>2 DEF BrokerStep
<1>9. CASE Tick
  <2>1. UNCHANGED <<stream, cursor, pending, acks, effects>>
    BY <1>9 DEF Tick, redis, broker
  <2> QED
    BY <2>1, StutterContract
<1> QED
  BY <1>2, <1>3, <1>4, <1>5, <1>6, <1>7, <1>8, <1>9 DEF Next, LoopStep, Fail

(* The command path implements the contract: for any number of gateways,   *)
(* with crashes, failed Redis calls and redeliveries, an entry leaves the  *)
(* pending list only after an acknowledgement for it (run_command_consumer *)
(* publishes the ack before it XACKs), and Accepted follows the broker's   *)
(* act (the http 200 branch).                                              *)
THEOREM PathImplementsContract == Spec => ImplementsContract
<1>1. IInv /\ [Next]_vars => [Contract!Next]_(Contract!vars)
  <2>1. IInv /\ Next => [Contract!Next]_(Contract!vars)
    BY StepContract
  <2>2. UNCHANGED vars => UNCHANGED Contract!vars
    BY StutterContract DEF vars, redis, broker
  <2> QED
    BY <2>1, <2>2
<1> QED
  BY InitContract, PathInvariant, <1>1, PTL DEF Spec, ImplementsContract, Contract!Spec
-----------------------------------------------------------------------------
(* What an answer says.  A second invariant, on top of IInv: a life of a   *)
(* process works on an entry once, so what it answers of an entry is about *)
(* the only request it sent for it; and broker orders are numbered by the  *)
(* broker, so the number of an order just placed is new to request_map.    *)

(* Entry i was delivered and is retired, so it is never delivered again.   *)
Done(i) == i <= cursor /\ i \notin pending

(* Process c wrote send n, or published ack k, in its present life.        *)
OwnSend(c, n) == sends[n].con = c /\ sends[n].life = life[c]
OwnAck(c, k) == acks[k].con = c /\ acks[k].life = life[c]

(* What a process has sent or answered of an entry is about the one it     *)
(* still has in hand, or that entry is retired, or its loop runs no more.  *)
DeliveredOnce(c) ==
  /\ \A n \in 1 .. Len(sends) : sends[n].con = c => sends[n].life <= life[c]
  /\ \A k \in 1 .. Len(acks) : acks[k].con = c => acks[k].life <= life[c]
  /\ \A n \in 1 .. Len(sends) : OwnSend(c, n) =>
       \/ Done(sends[n].msg) \/ pc[c] \in {"down", "stopped"}
       \/ pc[c] \in {"sent", "answering", "acking"} /\ msg[c] = sends[n].msg
  /\ \A k \in 1 .. Len(acks) : OwnAck(c, k) =>
       \/ Done(acks[k].msg) \/ pc[c] \in {"down", "stopped"}
       \/ pc[c] = "acking" /\ msg[c] = acks[k].msg
  /\ pc[c] \in {"received", "admitted"} =>
       \A n \in 1 .. Len(sends) : OwnSend(c, n) => sends[n].msg # msg[c]
  /\ pc[c] \in {"received", "admitted", "sent", "answering"} =>
       \A k \in 1 .. Len(acks) : OwnAck(c, k) => acks[k].msg # msg[c]

(* The broker has not carried out request n and will not do so.            *)
Harmless(n) ==
  /\ sends[n].state # "wire"
  /\ \A e \in 1 .. Len(effects) : effects[e].send # n

(* The broker settles a request by carrying it out.                        *)
EffectsRight == \A e \in 1 .. Len(effects) : sends[effects[e].send].state = "settled"

(* A loop waits on the one send it made for its entry, and a refusal, read *)
(* or about to be published, is about sends without effect.                *)
RefusalRight(c) ==
  /\ pc[c] = "sent" =>
       /\ OwnSend(c, sendOf[c])
       /\ sends[sendOf[c]].req = Request(c)
       /\ \A n \in 1 .. Len(sends) : (OwnSend(c, n) /\ sends[n].msg = msg[c]) => n = sendOf[c]
       /\ reply[c].kind = "refused" => Harmless(sendOf[c])
  /\ (pc[c] = "answering" /\ answer[c].status \in {"Rejected", "Expired"}) =>
       \A n \in 1 .. Len(sends) : (OwnSend(c, n) /\ sends[n].msg = msg[c]) => Harmless(n)

(* Events of order o can be given request r.                               *)
Mapped(c, o, r) ==
  /\ o \in DOMAIN reqMap[c]
  /\ LET q == reqMap[c][o] IN q = r \/ (q \in Cancels /\ CancelTarget[q] = o)

(* An order number comes from the broker; the number of an order just      *)
(* placed is new to its process, and whatever number is answered is mapped.*)
OrderRight(c) ==
  /\ pc[c] = "sent" =>
       /\ reply[c].order <= Len(effects)
       /\ reply[c].order # 0 =>
            IF Request(c) \in Cancels
              THEN reply[c].order = CancelTarget[Request(c)]
              ELSE \A k \in 1 .. Len(acks) : OwnAck(c, k) => acks[k].order # reply[c].order
  /\ pc[c] = "answering" =>
       /\ answer[c].order <= Len(effects)
       /\ (answer[c].status = "Accepted" /\ answer[c].order # 0) =>
            Mapped(c, answer[c].order, Request(c))
  /\ \A k \in 1 .. Len(acks) : OwnAck(c, k) =>
       /\ acks[k].order <= Len(effects)
       /\ (acks[k].status = "Accepted" /\ acks[k].order # 0) =>
            Mapped(c, acks[k].order, acks[k].req)

AnswersRight(c) == DeliveredOnce(c) /\ RefusalRight(c) /\ OrderRight(c)

AInv ==
  /\ DOMAIN reqMap = Consumers
  /\ EffectsRight
  /\ \A c \in Consumers : AnswersRight(c)
  /\ NegativeAnswerHasNoEffect

-----------------------------------------------------------------------------
(* Steps that leave process c alone.                                       *)

(* Retired entries stay retired.                                           *)
DoneStays == \A i \in Nat : Done(i) => Done(i)'

LEMMA DeliveryDone ==
  ASSUME TypeOK, NEW i \in Msgs, NextEntry(i),
         cursor' = (IF i > cursor THEN i ELSE cursor),
         pending' \subseteq pending \cup {i}
  PROVE  DoneStays /\ ~ Done(i)
<1>1. i \in Nat /\ cursor \in Nat /\ (i \in pending \/ i > cursor)
  BY NextEntryParts
<1>2. cursor <= cursor' /\ cursor' \in Nat
  BY <1>1
<1> QED
  BY <1>1, <1>2 DEF DoneStays, Done

LEMMA StepDone == ASSUME TypeOK, Next PROVE DoneStays
<1>1. cursor \in Nat
  BY LenProperties DEF TypeOK
<1>2. CASE cursor' = cursor /\ pending' \subseteq pending
  BY <1>1, <1>2 DEF DoneStays, Done
<1>3. ASSUME NEW c \in Consumers, Receive(c) \/ LoseDelivery(c) \/ DivertUndecodable(c)
      PROVE  DoneStays
  <2>1. PICK i \in Msgs : /\ NextEntry(i)
                          /\ cursor' = (IF i > cursor THEN i ELSE cursor)
                          /\ pending' \subseteq pending \cup {i}
    BY <1>3 DEF Receive, LoseDelivery, DivertUndecodable, HandOver
  <2> QED
    BY <2>1, DeliveryDone
<1>4. ASSUME NEW c \in Consumers, Decide(c) \/ AnswerStalePath(c) \/ Send(c) \/ Respond(c)
                \/ TransportError(c) \/ PublishAck(c) \/ Xack(c) \/ FailPublishAck(c)
                \/ FailXack(c) \/ Die(c) \/ Start(c)
      PROVE  cursor' = cursor /\ pending' \subseteq pending
  BY <1>4 DEF Decide, AnswerDuplicate, AnswerInvalid, AnswerExpired, Admit, Consult,
              AnswerStalePath, Send, Respond, TransportError, PublishAck, Xack, FailPublishAck,
              FailXack, StopLoop, Die, Start, redis
<1>5. ASSUME NEW n \in 1 .. Len(sends), BrokerStep(n)
      PROVE  cursor' = cursor /\ pending' \subseteq pending
  BY <1>5 DEF BrokerStep, BrokerExecutes, BrokerRefuses, Settle, LoseRequest, redis
<1>6. ASSUME (\E r \in Requests : Publish(r)) \/ Tick
      PROVE  cursor' = cursor /\ pending' \subseteq pending
  BY <1>6 DEF Publish, Tick, redis
<1> QED
  BY <1>2, <1>3, <1>4, <1>5, <1>6 DEF Next, LoopStep, Fail

(* What a record of the histories is made of.                              *)
LEMMA HistoryParts ==
  ASSUME TypeOK
  PROVE  /\ \A n \in 1 .. Len(sends) : sends[n] \in SendRecords /\ sends[n].msg \in Nat
                                       /\ sends[n].life \in Nat
         /\ \A k \in 1 .. Len(acks) : acks[k] \in AckRecords /\ acks[k].msg \in Nat
                                      /\ acks[k].life \in Nat /\ acks[k].order \in Nat
                                      /\ acks[k].con \in Consumers
         /\ \A e \in 1 .. Len(effects) : effects[e].send \in 1 .. Len(sends)
         /\ Len(sends) \in Nat /\ Len(acks) \in Nat /\ Len(effects) \in Nat
<1>1. Len(sends) \in Nat /\ Len(acks) \in Nat /\ Len(effects) \in Nat
  BY LenProperties DEF TypeOK
<1>2. ASSUME NEW n \in 1 .. Len(sends)
      PROVE  sends[n] \in SendRecords /\ sends[n].msg \in Nat /\ sends[n].life \in Nat
  <2>1. sends[n] \in SendRecords
    BY ElementOfSeq DEF TypeOK
  <2> QED
    BY <2>1, ConstantParts DEF SendRecords
<1>3. ASSUME NEW k \in 1 .. Len(acks)
      PROVE  /\ acks[k] \in AckRecords /\ acks[k].msg \in Nat /\ acks[k].life \in Nat
             /\ acks[k].order \in Nat /\ acks[k].con \in Consumers
  <2>1. acks[k] \in AckRecords
    BY ElementOfSeq DEF TypeOK
  <2> QED
    BY <2>1, ConstantParts DEF AckRecords
<1>4. ASSUME NEW e \in 1 .. Len(effects) PROVE effects[e].send \in 1 .. Len(sends)
  <2>1. effects[e] \in [req : Requests, msg : Msgs, send : 1 .. Len(sends)]
    BY ElementOfSeq DEF TypeOK
  <2> QED
    BY <2>1
<1> QED
  BY <1>1, <1>2, <1>3, <1>4

(* The histories of process c do not change.                               *)
Unheard(c) ==
  /\ \A n \in 1 .. Len(sends) : n \in 1 .. Len(sends') /\ sends'[n] = sends[n]
  /\ \A n \in 1 .. Len(sends') : sends'[n].con = c => n \in 1 .. Len(sends)
  /\ \A k \in 1 .. Len(acks') : acks'[k].con = c => k \in 1 .. Len(acks) /\ acks'[k] = acks[k]
  /\ effects' = effects
  /\ life'[c] = life[c]

LEMMA UnheardKeeps ==
  ASSUME TypeOK, NEW c \in Consumers, DoneStays, Unheard(c)
  PROVE  /\ \A n \in 1 .. Len(sends') : OwnSend(c, n)' =>
              /\ n \in 1 .. Len(sends) /\ OwnSend(c, n) /\ sends'[n] = sends[n]
              /\ Done(sends[n].msg) => Done(sends[n].msg)'
         /\ \A k \in 1 .. Len(acks') : OwnAck(c, k)' =>
              /\ k \in 1 .. Len(acks) /\ OwnAck(c, k) /\ acks'[k] = acks[k]
              /\ Done(acks[k].msg) => Done(acks[k].msg)'
         /\ \A n \in 1 .. Len(sends) : Harmless(n)' <=> Harmless(n)
<1>1. ASSUME NEW n \in 1 .. Len(sends'), OwnSend(c, n)'
      PROVE  /\ n \in 1 .. Len(sends) /\ OwnSend(c, n) /\ sends'[n] = sends[n]
             /\ Done(sends[n].msg) => Done(sends[n].msg)'
  <2>1. n \in 1 .. Len(sends) /\ OwnSend(c, n) /\ sends'[n] = sends[n]
    BY <1>1 DEF Unheard, OwnSend
  <2>2. PICK i \in Nat : i = sends[n].msg /\ i = sends'[n].msg
    BY <2>1, HistoryParts
  <2> QED
    BY <2>1, <2>2 DEF DoneStays
<1>2. ASSUME NEW k \in 1 .. Len(acks'), OwnAck(c, k)'
      PROVE  /\ k \in 1 .. Len(acks) /\ OwnAck(c, k) /\ acks'[k] = acks[k]
             /\ Done(acks[k].msg) => Done(acks[k].msg)'
  <2>1. k \in 1 .. Len(acks) /\ OwnAck(c, k) /\ acks'[k] = acks[k]
    BY <1>2 DEF Unheard, OwnAck
  <2>2. PICK i \in Nat : i = acks[k].msg /\ i = acks'[k].msg
    BY <2>1, HistoryParts
  <2> QED
    BY <2>1, <2>2 DEF DoneStays
<1>3. \A n \in 1 .. Len(sends) : Harmless(n)' <=> Harmless(n)
  BY DEF Unheard, Harmless
<1> QED
  BY <1>1, <1>2, <1>3

LEMMA StillAnswers ==
  ASSUME TypeOK, NEW c \in Consumers, LoopRight(c), AnswersRight(c), DoneStays, Unheard(c),
         Still(c), reqMap'[c] = reqMap[c], Extends(stream', stream)
  PROVE  AnswersRight(c)'
<1>1. pc[c] \in Working => Request(c)' = Request(c)
  BY EntryInHand DEF Extends, Request, Still
<1>2. /\ \A n \in 1 .. Len(sends') : sends'[n].con = c => n \in 1 .. Len(sends) /\ sends'[n] = sends[n]
      /\ \A k \in 1 .. Len(acks') : acks'[k].con = c => k \in 1 .. Len(acks) /\ acks'[k] = acks[k]
      /\ life'[c] = life[c] /\ effects' = effects
  BY DEF Unheard
<1>3. DeliveredOnce(c)'
  BY SMTT(30), <1>2, UnheardKeeps DEF AnswersRight, DeliveredOnce, Still
<1>4. ASSUME pc[c] = "sent"
      PROVE  /\ sendOf[c] \in 1 .. Len(sends) /\ sends'[sendOf[c]] = sends[sendOf[c]]
             /\ OwnSend(c, sendOf[c])'
  <2>1. sendOf[c] \in 1 .. Len(sends)
    BY <1>4, LenProperties DEF LoopRight, TypeOK
  <2>2. sends'[sendOf[c]] = sends[sendOf[c]] /\ OwnSend(c, sendOf[c])
    BY <1>4, <2>1 DEF Unheard, AnswersRight, RefusalRight
  <2> QED
    BY <2>1, <2>2 DEF OwnSend, Unheard, Still
<1>5. RefusalRight(c)'
  BY <1>1, <1>4, UnheardKeeps DEF AnswersRight, RefusalRight, Still, Working
<1>6. \A o, r : Mapped(c, o, r)' <=> Mapped(c, o, r)
  BY DEF Mapped
<1>7. OrderRight(c)'
  BY <1>1, <1>2, <1>6, UnheardKeeps DEF AnswersRight, OrderRight, Still, Working
<1> QED
  BY <1>3, <1>5, <1>7 DEF AnswersRight

(* Steps of process c that add nothing to the histories.                   *)
Quiet == UNCHANGED <<sends, acks, effects>>

LEMMA QuietKeeps ==
  ASSUME TypeOK, NEW c \in Consumers, DoneStays, Quiet, life'[c] = life[c]
  PROVE  /\ \A n \in 1 .. Len(sends) :
              /\ OwnSend(c, n)' <=> OwnSend(c, n)
              /\ Done(sends[n].msg) => Done(sends[n].msg)'
              /\ Harmless(n)' <=> Harmless(n)
         /\ \A k \in 1 .. Len(acks) :
              /\ OwnAck(c, k)' <=> OwnAck(c, k)
              /\ Done(acks[k].msg) => Done(acks[k].msg)'
<1>1. sends' = sends /\ acks' = acks /\ effects' = effects
  BY DEF Quiet
<1>2. ASSUME NEW n \in 1 .. Len(sends) PROVE Done(sends[n].msg) => Done(sends[n].msg)'
  <2>1. PICK i \in Nat : i = sends[n].msg /\ i = sends'[n].msg
    BY <1>1, HistoryParts
  <2> QED
    BY <2>1 DEF DoneStays
<1>3. ASSUME NEW k \in 1 .. Len(acks) PROVE Done(acks[k].msg) => Done(acks[k].msg)'
  <2>1. PICK i \in Nat : i = acks[k].msg /\ i = acks'[k].msg
    BY <1>1, HistoryParts
  <2> QED
    BY <2>1 DEF DoneStays
<1> QED
  BY <1>1, <1>2, <1>3 DEF OwnSend, OwnAck, Harmless

-----------------------------------------------------------------------------
(* The process that moves, one lemma per kind of move.                     *)

LEMMA ReceiveAnswers ==
  ASSUME TypeOK, StoresRight, NEW c \in Consumers, AnswersRight(c), DoneStays, Receive(c)
  PROVE  AnswersRight(c)'
<1>1. PICK i \in Msgs : HandOver(i) /\ msg' = [msg EXCEPT ![c] = i]
  BY DEF Receive
<1>2. /\ pc[c] = "idle" /\ pc'[c] = "received" /\ msg'[c] = i
      /\ life' = life /\ reqMap' = reqMap /\ Quiet
  BY <1>1 DEF Receive, HandOver, TypeOK, broker, Quiet
<1>3. ~ Done(i)
  BY <1>1, DeliveryDone DEF HandOver
<1>4. DeliveredOnce(c)'
  BY <1>2, <1>3, QuietKeeps DEF AnswersRight, DeliveredOnce, Quiet
<1>5. RefusalRight(c)'
  BY <1>2 DEF RefusalRight
<1>6. OrderRight(c)'
  BY <1>2, QuietKeeps DEF AnswersRight, OrderRight, Mapped, Quiet
<1> QED
  BY <1>4, <1>5, <1>6 DEF AnswersRight

(* An entry of request_map is added.                                       *)
LEMMA InsertMaps ==
  ASSUME DOMAIN reqMap = Consumers, NEW c \in Consumers, NEW o, NEW r,
         reqMap' = [reqMap EXCEPT ![c] = InsertOrder(@, o, r)]
  PROVE  /\ DOMAIN reqMap' = Consumers
         /\ Mapped(c, o, r)'
         /\ \A p, q : (Mapped(c, p, q) /\ (p # o \/ (r \in Cancels /\ CancelTarget[r] = o)))
                         => Mapped(c, p, q)'
<1>1. reqMap'[c] = [k \in DOMAIN reqMap[c] \cup {o} |-> IF k = o THEN r ELSE reqMap[c][k]]
  BY DEF InsertOrder
<1> QED
  BY <1>1 DEF Mapped

LEMMA DecideAnswers ==
  ASSUME TypeOK, StoresRight, DOMAIN reqMap = Consumers, NEW c \in Consumers, AnswersRight(c),
         DoneStays, Decide(c)
  PROVE  AnswersRight(c)' /\ DOMAIN reqMap' = Consumers
<1>1. /\ UNCHANGED <<redis, msg, life, broker>> /\ pc[c] = "received" /\ Quiet
  BY DEF Decide, AnswerDuplicate, AnswerInvalid, AnswerExpired, Admit, Consult, redis, broker, Quiet
<1>2. \/ /\ pc'[c] = "answering" /\ answer'[c].status # "Accepted" /\ answer'[c].order = 0
         /\ reqMap' = reqMap
      \/ pc'[c] = "admitted" /\ Admit(c)
  <2>1. CASE Admit(c)
    BY <2>1 DEF Admit, TypeOK
  <2>2. ASSUME NEW s \in {"Duplicate", "Rejected", "Expired"}, PrepareAnswer(c, s, 0)
        PROVE  pc'[c] = "answering" /\ answer'[c].status # "Accepted" /\ answer'[c].order = 0
    BY <2>2 DEF PrepareAnswer, TypeOK
  <2> QED
    BY <2>1, <2>2 DEF Decide, AnswerDuplicate, AnswerInvalid, AnswerExpired
<1>3. DeliveredOnce(c)'
  BY <1>1, <1>2, QuietKeeps DEF AnswersRight, DeliveredOnce, Quiet
<1>4. RefusalRight(c)'
  BY <1>1, <1>2, QuietKeeps DEF AnswersRight, DeliveredOnce, RefusalRight, Quiet
<1>5. DOMAIN reqMap' = Consumers /\ \A p, q : Mapped(c, p, q) => Mapped(c, p, q)'
  <2>1. CASE reqMap' = reqMap
    BY <2>1 DEF Mapped
  <2>2. CASE reqMap' # reqMap
    <3>1. PICK r : r = Request(c)
      OBVIOUS
    <3>2. /\ r \in Cancels
          /\ reqMap' = [reqMap EXCEPT ![c] = InsertOrder(@, CancelTarget[r], r)]
      BY <1>2, <2>2, <3>1 DEF Admit
    <3> QED
      BY <3>2, InsertMaps
  <2> QED
    BY <2>1, <2>2
<1>6. OrderRight(c)'
  <2>1. 0 <= Len(effects)
    BY HistoryParts
  <2> QED
    BY <1>1, <1>2, <1>5, <2>1, QuietKeeps DEF AnswersRight, OrderRight, Quiet
<1> QED
  BY <1>3, <1>4, <1>5, <1>6 DEF AnswersRight

(* The answer Error, of a command not sent or without a response.          *)
LEMMA ErrorAnswers ==
  ASSUME TypeOK, NEW c \in Consumers, AnswersRight(c), DoneStays,
         AnswerStalePath(c) \/ TransportError(c)
  PROVE  AnswersRight(c)'
<1>1. /\ UNCHANGED <<msg, life, reqMap, cursor, pending>> /\ Quiet
      /\ pc[c] \in {"admitted", "sent"} /\ PrepareAnswer(c, "Error", 0)
  BY DEF AnswerStalePath, TransportError, redis, broker, Quiet
<1>2. pc'[c] = "answering" /\ answer'[c].status = "Error" /\ answer'[c].order = 0
  BY <1>1 DEF PrepareAnswer, TypeOK
<1>3. DeliveredOnce(c)'
  BY <1>1, <1>2, QuietKeeps DEF AnswersRight, DeliveredOnce, Quiet
<1>4. RefusalRight(c)'
  BY <1>2 DEF RefusalRight
<1>5. OrderRight(c)'
  <2>1. 0 <= Len(effects)
    BY HistoryParts
  <2> QED
    BY <1>1, <1>2, <2>1, QuietKeeps DEF AnswersRight, OrderRight, Mapped, Quiet
<1> QED
  BY <1>3, <1>4, <1>5 DEF AnswersRight

LEMMA RespondAnswers ==
  ASSUME TypeOK, NEW c \in Consumers, DOMAIN reqMap = Consumers, AnswersRight(c), DoneStays,
         Respond(c)
  PROVE  AnswersRight(c)' /\ DOMAIN reqMap' = Consumers
<1>0. PICK st, o : st = StatusOf(reply[c].kind) /\ o = reply[c].order
  OBVIOUS
<1>1. /\ UNCHANGED <<redis, msg, life>> /\ Quiet
      /\ pc[c] = "sent" /\ reply[c] # NoReply /\ PrepareAnswer(c, st, o)
  BY <1>0 DEF Respond, Quiet, redis
<1>2. pc'[c] = "answering" /\ answer'[c].status = st /\ answer'[c].order = o
  BY <1>1 DEF PrepareAnswer, TypeOK
<1>3. DeliveredOnce(c)'
  BY <1>1, <1>2, QuietKeeps DEF AnswersRight, DeliveredOnce, Quiet
<1>4. st \in {"Rejected", "Expired"} => reply[c].kind = "refused"
  <2>1. reply[c].kind \in {"ok", "refused", "garbled"}
    BY <1>1 DEF TypeOK, Replies
  <2> QED
    BY <1>0, <2>1 DEF StatusOf
<1>5. RefusalRight(c)'
  <2>1. ASSUME st \in {"Rejected", "Expired"}, NEW n \in 1 .. Len(sends), OwnSend(c, n),
               sends[n].msg = msg[c]
        PROVE  Harmless(n)
    BY <1>1, <1>4, <2>1 DEF AnswersRight, RefusalRight
  <2> QED
    BY <1>1, <1>2, <2>1, QuietKeeps DEF RefusalRight, Quiet
<1>6. PICK r : r = Request(c) /\ r = Request(c)'
  BY <1>1 DEF redis, Request
<1>7. o \in Nat
  BY <1>0, <1>1 DEF TypeOK, Replies
<1>8. CASE st = "Accepted" /\ o # 0
  <2>1. reqMap' = [reqMap EXCEPT ![c] = InsertOrder(@, o, r)]
    BY <1>0, <1>6, <1>8 DEF Respond
  <2>2. /\ DOMAIN reqMap' = Consumers /\ Mapped(c, o, r)'
        /\ \A p, q : (Mapped(c, p, q) /\ (p # o \/ (r \in Cancels /\ CancelTarget[r] = o)))
                        => Mapped(c, p, q)'
    BY <2>1, InsertMaps
  <2>3. \A k \in 1 .. Len(acks) : OwnAck(c, k) =>
          acks[k].order # o \/ (r \in Cancels /\ CancelTarget[r] = o)
    BY <1>0, <1>1, <1>6, <1>8 DEF AnswersRight, OrderRight
  <2>4. o <= Len(effects)
    BY <1>0, <1>1 DEF AnswersRight, OrderRight
  <2>5. ASSUME NEW k \in 1 .. Len(acks), OwnAck(c, k), acks[k].status = "Accepted", acks[k].order # 0
        PROVE  Mapped(c, acks[k].order, acks[k].req)'
    <3>1. PICK p, q : p = acks[k].order /\ q = acks[k].req
      OBVIOUS
    <3>2. Mapped(c, p, q)
      BY <2>5, <3>1 DEF AnswersRight, OrderRight
    <3> QED
      BY <1>1, <2>2, <2>3, <2>5, <3>1, <3>2 DEF Quiet
  <2>6. OrderRight(c)'
    BY <1>1, <1>2, <1>6, <2>2, <2>4, <2>5, QuietKeeps DEF AnswersRight, OrderRight, Quiet
  <2> QED
    BY <1>3, <1>5, <2>2, <2>6 DEF AnswersRight
<1>9. CASE ~ (st = "Accepted" /\ o # 0)
  <2>1. reqMap' = reqMap
    BY <1>0, <1>9 DEF Respond
  <2>2. o <= Len(effects)
    BY <1>0, <1>1 DEF AnswersRight, OrderRight
  <2>3. OrderRight(c)'
    BY <1>1, <1>2, <1>9, <2>1, <2>2, QuietKeeps DEF AnswersRight, OrderRight, Mapped, Quiet
  <2> QED
    BY <1>3, <1>5, <2>1, <2>3 DEF AnswersRight
<1> QED
  BY <1>8, <1>9

LEMMA SendAnswers ==
  ASSUME TypeOK, StoresRight, NEW c \in Consumers, LoopRight(c), AnswersRight(c), DoneStays, Send(c)
  PROVE  AnswersRight(c)'
<1>1. PICK s : /\ sends' = Append(sends, s)
               /\ s.req = Request(c) /\ s.msg = msg[c] /\ s.con = c /\ s.life = life[c]
  BY DEF Send
<1>2. PICK m \in Nat : m = Len(sends)
  BY LenProperties DEF TypeOK
<1>3. /\ Len(sends') = m + 1 /\ sends'[m + 1] = s
      /\ \A n \in 1 .. m : sends'[n] = sends[n]
  BY <1>1, <1>2, AppendProperties DEF TypeOK
<1>4. /\ UNCHANGED <<redis, msg, life, reqMap, acks, effects>>
      /\ pc[c] = "admitted" /\ pc'[c] = "sent" /\ reply'[c] = NoReply /\ sendOf'[c] = m + 1
  BY <1>2, <1>3 DEF Send, TypeOK, redis
<1>5. \A n \in 1 .. m : /\ OwnSend(c, n)' <=> OwnSend(c, n)
                        /\ OwnSend(c, n) => sends[n].msg # msg[c]
                        /\ Done(sends[n].msg) => Done(sends[n].msg)'
  <2>1. ASSUME NEW n \in 1 .. m PROVE Done(sends[n].msg) => Done(sends[n].msg)'
    <3>1. PICK i \in Nat : i = sends[n].msg /\ i = sends'[n].msg
      BY <1>2, <1>3, HistoryParts
    <3> QED
      BY <3>1 DEF DoneStays
  <2> QED
    BY <1>2, <1>3, <1>4, <2>1 DEF OwnSend, AnswersRight, DeliveredOnce
<1>6. \A k \in 1 .. Len(acks) : /\ OwnAck(c, k)' <=> OwnAck(c, k)
                                /\ Done(acks[k].msg) => Done(acks[k].msg)'
  BY <1>4 DEF OwnAck, redis, Done
<1>7. life[c] \in Nat /\ life[c] <= life[c] /\ 0 <= Len(effects)
  BY HistoryParts DEF TypeOK
<1>8. DeliveredOnce(c)'
  <2>1. \A n \in 1 .. m + 1 : n \in 1 .. m \/ n = m + 1
    OBVIOUS
  <2> QED
    BY <1>1, <1>2, <1>3, <1>4, <1>5, <1>6, <1>7, <2>1 DEF AnswersRight, DeliveredOnce
<1>9. RefusalRight(c)'
  <2>1. \A n \in 1 .. m + 1 : n \in 1 .. m \/ n = m + 1
    OBVIOUS
  <2>2. Request(c)' = Request(c)
    BY <1>4 DEF Request, redis
  <2>3. \A n \in 1 .. Len(sends') : (OwnSend(c, n)' /\ sends'[n].msg = msg'[c]) => n = m + 1
    BY <1>3, <1>4, <1>5, <2>1
  <2> QED
    BY <1>1, <1>3, <1>4, <2>2, <2>3 DEF RefusalRight, OwnSend, NoReply
<1>10. OrderRight(c)'
  BY <1>4, <1>6, <1>7 DEF AnswersRight, OrderRight, Mapped, NoReply
<1> QED
  BY <1>8, <1>9, <1>10 DEF AnswersRight

LEMMA PublishAckAnswers ==
  ASSUME TypeOK, NEW c \in Consumers, AnswersRight(c), DoneStays, PublishAck(c) \/ FailPublishAck(c)
  PROVE  AnswersRight(c)'
<1>1. /\ UNCHANGED <<stream, cursor, pending, msg, life, reqMap, broker>>
      /\ pc[c] = "answering" /\ pc'[c] \in {"acking", "stopped"}
      /\ acks' = acks \/ acks' = Append(acks, AckRecord(c))
      /\ pc'[c] = "acking" => acks' = Append(acks, AckRecord(c))
  BY DEF PublishAck, FailPublishAck, StopLoop, TypeOK
<1>2. PICK m \in Nat : m = Len(acks)
  BY LenProperties DEF TypeOK
<1>3. /\ Len(acks') \in {m, m + 1}
      /\ \A k \in 1 .. m : acks'[k] = acks[k]
      /\ Len(acks') = m + 1 => acks'[m + 1] = AckRecord(c)
  BY SMTT(30), <1>1, <1>2, EntryInHand, AppendProperties DEF TypeOK, Working
<1>4. /\ AckRecord(c).msg = msg[c] /\ AckRecord(c).con = c /\ AckRecord(c).life = life[c]
      /\ AckRecord(c).status = answer[c].status /\ AckRecord(c).order = answer[c].order
      /\ AckRecord(c).req = Request(c)
  BY DEF AckRecord
<1>5. \A k \in 1 .. m : /\ OwnAck(c, k)' <=> OwnAck(c, k)
                        /\ Done(acks[k].msg) => Done(acks[k].msg)'
  BY <1>1, <1>2, <1>3 DEF OwnAck, Done
<1>6. /\ sends' = sends /\ effects' = effects
      /\ \A n \in 1 .. Len(sends) : /\ OwnSend(c, n)' <=> OwnSend(c, n)
                                    /\ Done(sends[n].msg) => Done(sends[n].msg)'
  BY <1>1 DEF OwnSend, broker, Done
<1>7. life[c] \in Nat /\ life[c] <= life[c]
  BY DEF TypeOK
<1>8. \A k \in 1 .. Len(acks') : k \in 1 .. m \/ (k = m + 1 /\ acks'[k] = AckRecord(c))
  BY <1>3
<1>9. DeliveredOnce(c)'
  BY <1>1, <1>2, <1>3, <1>4, <1>5, <1>6, <1>7, <1>8 DEF AnswersRight, DeliveredOnce
<1>10. RefusalRight(c)'
  BY <1>1 DEF RefusalRight
<1>11. OrderRight(c)'
  <2>1. \A o, r : Mapped(c, o, r)' <=> Mapped(c, o, r)
    BY <1>1 DEF Mapped
  <2>2. /\ answer[c].order <= Len(effects)
        /\ (answer[c].status = "Accepted" /\ answer[c].order # 0) =>
             Mapped(c, answer[c].order, Request(c))
    BY <1>1 DEF AnswersRight, OrderRight
  <2>3. ASSUME NEW k \in 1 .. Len(acks'), OwnAck(c, k)'
        PROVE  /\ acks'[k].order <= Len(effects)
               /\ (acks'[k].status = "Accepted" /\ acks'[k].order # 0) =>
                    Mapped(c, acks'[k].order, acks'[k].req)
    <3>1. CASE k \in 1 .. m
      BY <1>2, <1>3, <1>5, <2>3, <3>1 DEF AnswersRight, OrderRight
    <3>2. CASE acks'[k] = AckRecord(c)
      BY <1>4, <2>2, <3>2
    <3> QED
      BY <1>8, <3>1, <3>2
  <2> QED
    BY <1>1, <1>6, <2>1, <2>3 DEF OrderRight
<1> QED
  BY <1>9, <1>10, <1>11 DEF AnswersRight

(* XACK retires the entry in hand.                                         *)
LEMMA XackAnswers ==
  ASSUME TypeOK, NEW c \in Consumers, AnswersRight(c), DoneStays, Xack(c) \/ FailXack(c)
  PROVE  AnswersRight(c)'
<1>1. /\ UNCHANGED <<cursor, msg, life, reqMap>> /\ Quiet
      /\ pc[c] = "acking" /\ pc'[c] \in {"idle", "stopped"}
      /\ pc'[c] = "idle" => pending' = pending \ {msg[c]}
  BY DEF Xack, FailXack, StopLoop, TypeOK, broker, Quiet
<1>2. pc'[c] = "idle" => Done(msg[c])'
  BY <1>1, EntryInHand DEF Done, Working, TypeOK
<1>3. ASSUME NEW i, i = msg[c], pc'[c] = "idle" PROVE Done(i)'
  BY <1>1, <1>2, <1>3
<1>4. DeliveredOnce(c)'
  BY <1>1, <1>3, QuietKeeps DEF AnswersRight, DeliveredOnce, Quiet
<1>5. RefusalRight(c)'
  BY <1>1 DEF RefusalRight
<1>6. OrderRight(c)'
  BY <1>1, QuietKeeps DEF AnswersRight, OrderRight, Mapped, Quiet
<1> QED
  BY <1>4, <1>5, <1>6 DEF AnswersRight

LEMMA DieAnswers ==
  ASSUME TypeOK, NEW c \in Consumers, AnswersRight(c), DoneStays, Die(c)
  PROVE  AnswersRight(c)'
<1>1. UNCHANGED <<msg, life, reqMap>> /\ Quiet /\ pc'[c] = "down"
  BY DEF Die, TypeOK, redis, Quiet
<1>2. DeliveredOnce(c)'
  BY <1>1, QuietKeeps DEF AnswersRight, DeliveredOnce, Quiet
<1>3. RefusalRight(c)' /\ OrderRight(c)'
  BY <1>1, QuietKeeps DEF AnswersRight, RefusalRight, OrderRight, Mapped, Quiet
<1> QED
  BY <1>2, <1>3 DEF AnswersRight

(* A process starts a new life, in which it has sent and answered nothing. *)
LEMMA StartAnswers ==
  ASSUME TypeOK, NEW c \in Consumers, DOMAIN reqMap = Consumers, AnswersRight(c), DoneStays, Start(c)
  PROVE  AnswersRight(c)' /\ DOMAIN reqMap' = Consumers
<1>1. Quiet /\ pc'[c] = "idle" /\ life[c] \in Nat /\ life'[c] = life[c] + 1
      /\ DOMAIN reqMap' = Consumers
  BY DEF Start, TypeOK, redis, broker, Quiet
<1>2. /\ \A n \in 1 .. Len(sends) : ~ OwnSend(c, n)' /\ (sends[n].con = c => sends[n].life <= life'[c])
      /\ \A k \in 1 .. Len(acks) : ~ OwnAck(c, k)' /\ (acks[k].con = c => acks[k].life <= life'[c])
  <2>1. ASSUME NEW n \in 1 .. Len(sends)
        PROVE  ~ OwnSend(c, n)' /\ (sends[n].con = c => sends[n].life <= life'[c])
    <3>1. sends[n].life \in Nat /\ (sends[n].con = c => sends[n].life <= life[c]) /\ sends' = sends
      BY <1>1, HistoryParts DEF AnswersRight, DeliveredOnce, Quiet
    <3> QED
      BY <1>1, <3>1 DEF OwnSend
  <2>2. ASSUME NEW k \in 1 .. Len(acks)
        PROVE  ~ OwnAck(c, k)' /\ (acks[k].con = c => acks[k].life <= life'[c])
    <3>1. acks[k].life \in Nat /\ (acks[k].con = c => acks[k].life <= life[c]) /\ acks' = acks
      BY <1>1, HistoryParts DEF AnswersRight, DeliveredOnce, Quiet
    <3> QED
      BY <1>1, <3>1 DEF OwnAck
  <2> QED
    BY <2>1, <2>2
<1>3. DeliveredOnce(c)'
  BY <1>1, <1>2 DEF DeliveredOnce, Quiet
<1>4. RefusalRight(c)' /\ OrderRight(c)'
  BY <1>1, <1>2 DEF RefusalRight, OrderRight, Quiet
<1> QED
  BY <1>1, <1>3, <1>4 DEF AnswersRight

-----------------------------------------------------------------------------
(* The broker takes one request off the wire, and only a request it then   *)
(* carries out gets an effect.                                             *)
LEMMA BrokerKeeps ==
  ASSUME TypeOK, NEW n \in 1 .. Len(sends), BrokerStep(n)
  PROVE  /\ UNCHANGED <<redis, loop, sendOf>>
         /\ sends[n].state = "wire" /\ Len(sends') = Len(sends)
         /\ sends'[n].state \in {"settled", "lost"}
         /\ \A m \in 1 .. Len(sends) :
              /\ sends'[m].req = sends[m].req /\ sends'[m].msg = sends[m].msg
              /\ sends'[m].con = sends[m].con /\ sends'[m].life = sends[m].life
              /\ sends'[m].marked = sends[m].marked /\ sends'[m].after = sends[m].after
              /\ m # n => sends'[m] = sends[m]
         /\ \A e \in 1 .. Len(effects) : effects'[e] = effects[e]
         /\ \/ effects' = effects
            \/ /\ Len(effects') = Len(effects) + 1 /\ sends'[n].state = "settled"
               /\ effects'[Len(effects) + 1].send = n
<1>1. /\ sends \in Seq(SendRecords) /\ Len(sends) \in Nat /\ sends[n] \in SendRecords
      /\ DOMAIN sends = 1 .. Len(sends)
  BY LenProperties, ElementOfSeq DEF TypeOK
<1>2. PICK s \in {"settled", "lost"} :
        /\ sends' = [sends EXCEPT ![n].state = s] /\ sends[n].state = "wire"
        /\ effects' # effects => s = "settled"
  BY DEF BrokerStep, BrokerExecutes, BrokerRefuses, Settle, LoseRequest
<1>3. Len(sends') = Len(sends)
  BY <1>2, WireType
<1>4. UNCHANGED <<redis, loop, sendOf>>
  BY DEF BrokerStep, BrokerExecutes, BrokerRefuses, Settle, LoseRequest
<1>5. LET x == [sends[n] EXCEPT !.state = s] IN
      /\ x.state = s /\ x.req = sends[n].req /\ x.msg = sends[n].msg
      /\ x.con = sends[n].con /\ x.life = sends[n].life
      /\ x.marked = sends[n].marked /\ x.after = sends[n].after
  BY <1>1 DEF SendRecords
<1>6. sends'[n].state = s
      /\ \A m \in 1 .. Len(sends) :
           /\ sends'[m].req = sends[m].req /\ sends'[m].msg = sends[m].msg
           /\ sends'[m].con = sends[m].con /\ sends'[m].life = sends[m].life
           /\ sends'[m].marked = sends[m].marked /\ sends'[m].after = sends[m].after
           /\ m # n => sends'[m] = sends[m]
  BY <1>1, <1>2, <1>5
<1>7. PICK l \in Nat : l = Len(effects)
  BY HistoryParts
<1>8. CASE effects' = effects
  BY <1>2, <1>3, <1>4, <1>6, <1>8
<1>9. CASE effects' # effects
  <2>1. effects' = Append(effects, [req |-> sends[n].req, msg |-> sends[n].msg, send |-> n])
    BY <1>9 DEF BrokerStep, BrokerExecutes, BrokerRefuses, LoseRequest
  <2>2. Len(effects') = l + 1 /\ effects'[l + 1].send = n
        /\ \A e \in 1 .. l : effects'[e] = effects[e]
    BY <1>7, <2>1 DEF TypeOK
  <2> QED
    BY <1>2, <1>3, <1>4, <1>6, <1>7, <1>9, <2>2
<1> QED
  BY <1>8, <1>9

LEMMA BrokerHarmless ==
  ASSUME TypeOK, NEW n \in 1 .. Len(sends), BrokerStep(n)
  PROVE  /\ EffectsRight => EffectsRight'
         /\ \A m \in 1 .. Len(sends) : Harmless(m) => Harmless(m)'
         /\ (EffectsRight /\ effects' = effects) => Harmless(n)'
<1>1. PICK l \in Nat : l = Len(effects)
  BY HistoryParts
<1>2. /\ \A e \in 1 .. Len(effects') : e \in 1 .. l \/ (e = l + 1 /\ effects' # effects)
      /\ \A e \in 1 .. l : effects'[e] = effects[e] /\ effects[e].send \in 1 .. Len(sends)
      /\ effects' # effects => effects'[l + 1].send = n /\ sends'[n].state = "settled"
  BY <1>1, BrokerKeeps, HistoryParts
<1>3. /\ sends[n].state = "wire" /\ sends'[n].state # "wire"
      /\ \A m \in 1 .. Len(sends) : m # n => sends'[m] = sends[m]
  BY BrokerKeeps
<1>4. EffectsRight => EffectsRight'
  BY <1>1, <1>2, <1>3 DEF EffectsRight
<1>5. \A m \in 1 .. Len(sends) : Harmless(m) => Harmless(m)'
  BY <1>1, <1>2, <1>3 DEF Harmless
<1>6. (EffectsRight /\ effects' = effects) => Harmless(n)'
  BY <1>1, <1>2, <1>3 DEF Harmless, EffectsRight
<1> QED
  BY <1>4, <1>5, <1>6

(* The response, if process c waits for it.                                *)
LEMMA BrokerReply ==
  ASSUME TypeOK, NEW c \in Consumers, LoopRight(c), AnswersRight(c), EffectsRight,
         NEW n \in 1 .. Len(sends), BrokerStep(n)
  PROVE  \/ reply'[c] = reply[c]
         \/ /\ pc[c] = "sent"
            /\ reply'[c].kind = "refused" => Harmless(sendOf[c])'
            /\ \/ reply'[c].order = 0
               \/ /\ effects' # effects
                  /\ IF Request(c) \in Cancels
                       THEN reply'[c].order = CancelTarget[Request(c)]
                            /\ reply'[c].order <= Len(effects)
                       ELSE reply'[c].order = Len(effects) + 1
<1>1. ASSUME NEW kind, NEW order, Settle(n, kind, order)
      PROVE  \/ reply'[c] = reply[c]
             \/ /\ pc[c] = "sent" /\ sendOf[c] = n /\ sendOf' = sendOf
                /\ reply'[c].kind = kind /\ reply'[c].order = order
  BY <1>1 DEF Settle, Waits, TypeOK
<1>2. CASE LoseRequest(n)
  BY <1>2 DEF LoseRequest
<1>3. ASSUME NEW kind \in {"refused", "garbled"}, BrokerRefuses(n, kind)
      PROVE  \/ reply'[c] = reply[c]
             \/ /\ pc[c] = "sent" /\ reply'[c].order = 0
                /\ Harmless(sendOf[c])'
  <2>1. Settle(n, kind, 0) /\ effects' = effects
    BY <1>3 DEF BrokerRefuses
  <2>2. Harmless(n)'
    BY <2>1, BrokerHarmless
  <2>3. ASSUME sendOf[c] = n, sendOf' = sendOf PROVE Harmless(sendOf[c])'
    BY <2>2, <2>3 DEF Harmless
  <2> QED
    BY <1>1, <2>1, <2>3
<1>4. ASSUME NEW kind \in {"ok", "garbled"}, BrokerExecutes(n, kind)
      PROVE  \/ reply'[c] = reply[c]
             \/ /\ pc[c] = "sent" /\ reply'[c].kind # "refused"
                /\ \/ reply'[c].order = 0
                   \/ /\ effects' # effects
                      /\ IF Request(c) \in Cancels
                           THEN reply'[c].order = CancelTarget[Request(c)]
                                /\ reply'[c].order <= Len(effects)
                           ELSE reply'[c].order = Len(effects) + 1
  <2>1. PICK r : r = sends[n].req
    OBVIOUS
  <2>2. PICK shown \in {IF r \in Cancels THEN CancelTarget[r] ELSE Len(effects) + 1, 0} :
          Settle(n, kind, shown)
    BY <1>4, <2>1 DEF BrokerExecutes
  <2>3. (r \in Cancels => CancelTarget[r] <= Len(effects)) /\ effects' # effects
    <3>1. Len(effects') = Len(effects) + 1 /\ Len(effects) \in Nat
      BY <1>4, HistoryParts DEF BrokerExecutes, TypeOK
    <3>2. r \in Cancels => CancelTarget[r] \in 1 .. Len(effects)
      BY <1>4, <2>1 DEF BrokerExecutes, Known
    <3> QED
      BY <3>1, <3>2
  <2>4. (pc[c] = "sent" /\ sendOf[c] = n) => r = Request(c)
    BY <2>1 DEF AnswersRight, RefusalRight
  <2>5. CASE reply'[c] # reply[c]
    <3>1. pc[c] = "sent" /\ sendOf[c] = n /\ reply'[c].kind = kind /\ reply'[c].order = shown
      BY <1>1, <2>2, <2>5
    <3>2. r = Request(c)
      BY <2>4, <3>1
    <3> QED
      BY <2>2, <2>3, <3>1, <3>2
  <2> QED
    BY <2>5
<1> QED
  BY <1>2, <1>3, <1>4 DEF BrokerStep

LEMMA BrokerAnswers ==
  ASSUME TypeOK, NEW c \in Consumers, LoopRight(c), AnswersRight(c), EffectsRight, DoneStays,
         NEW n \in 1 .. Len(sends), BrokerStep(n)
  PROVE  AnswersRight(c)'
<1>1. UNCHANGED <<redis, loop, sendOf>>
  BY BrokerKeeps
<1>2. /\ acks' = acks /\ Len(sends') = Len(sends) /\ Request(c)' = Request(c)
      /\ UNCHANGED <<pc, msg, answer, life, reqMap, cursor, pending>>
  BY <1>1, BrokerKeeps DEF redis, loop, Request
<1>3. \A m \in 1 .. Len(sends) :
        /\ sends'[m].req = sends[m].req /\ sends'[m].msg = sends[m].msg
        /\ sends'[m].con = sends[m].con /\ sends'[m].life = sends[m].life
        /\ OwnSend(c, m)' <=> OwnSend(c, m)
        /\ Done(sends[m].msg)' <=> Done(sends[m].msg)
        /\ Harmless(m) => Harmless(m)'
  BY <1>2, BrokerKeeps, BrokerHarmless DEF OwnSend, Done
<1>4. \A k \in 1 .. Len(acks) : (OwnAck(c, k)' <=> OwnAck(c, k))
                                /\ (Done(acks[k].msg)' <=> Done(acks[k].msg))
  BY <1>2 DEF OwnAck, Done
<1>5. PICK l \in Nat : l = Len(effects)
  BY HistoryParts
<1>6. l <= Len(effects') /\ (effects' # effects => Len(effects') = l + 1)
  BY <1>5, BrokerKeeps
<1>7. DeliveredOnce(c)'
  BY <1>2, <1>3, <1>4 DEF AnswersRight, DeliveredOnce
<1>8. ASSUME pc[c] = "sent"
      PROVE  /\ sendOf[c] \in 1 .. Len(sends)
             /\ OwnSend(c, sendOf[c])'
             /\ sends'[sendOf[c]].req = Request(c)
             /\ reply'[c].kind = "refused" => Harmless(sendOf[c])'
  <2>1. sendOf[c] \in 1 .. Len(sends)
    BY <1>8, LenProperties DEF LoopRight, TypeOK
  <2>2. OwnSend(c, sendOf[c]) /\ sends[sendOf[c]].req = Request(c)
        /\ (reply[c].kind = "refused" => Harmless(sendOf[c]))
    BY <1>8 DEF AnswersRight, RefusalRight
  <2>3. PICK m \in 1 .. Len(sends) : m = sendOf[c] /\ m = sendOf'[c]
    BY <1>1, <2>1
  <2>4. OwnSend(c, m)' /\ sends'[m].req = Request(c) /\ (Harmless(m) => Harmless(m)')
    BY <1>3, <2>2, <2>3
  <2>5. reply'[c].kind = "refused" => Harmless(sendOf[c])'
    <3>1. CASE reply'[c] = reply[c]
      BY <2>2, <2>3, <2>4, <3>1
    <3>2. CASE reply'[c] # reply[c]
      BY <3>2, BrokerReply
    <3> QED
      BY <3>1, <3>2
  <2> QED
    BY <2>1, <2>3, <2>4, <2>5
<1>9. RefusalRight(c)'
  <2>1. pc[c] = "sent" =>
          \A m \in 1 .. Len(sends) : (OwnSend(c, m) /\ sends[m].msg = msg[c]) => m = sendOf[c]
    BY DEF AnswersRight, RefusalRight
  <2>2. (pc[c] = "answering" /\ answer[c].status \in {"Rejected", "Expired"}) =>
          \A m \in 1 .. Len(sends) : (OwnSend(c, m) /\ sends[m].msg = msg[c]) => Harmless(m)
    BY DEF AnswersRight, RefusalRight
  <2> QED
    BY <1>1, <1>2, <1>3, <1>8, <2>1, <2>2 DEF RefusalRight
<1>10. \A o, r : Mapped(c, o, r)' <=> Mapped(c, o, r)
  BY <1>2 DEF Mapped
<1>11. ASSUME pc[c] = "sent"
       PROVE  /\ reply'[c].order <= Len(effects')
              /\ reply'[c].order # 0 =>
                   IF Request(c) \in Cancels
                     THEN reply'[c].order = CancelTarget[Request(c)]
                     ELSE \A k \in 1 .. Len(acks) : OwnAck(c, k) => acks[k].order # reply'[c].order
  <2>1. CASE reply'[c] = reply[c]
    <3>1. reply[c].order \in Nat /\ reply[c].order <= l
      BY <1>5, <1>11 DEF AnswersRight, OrderRight, TypeOK, Replies, NoReply
    <3>2. reply'[c].order <= Len(effects')
      BY <1>5, <1>6, <2>1, <3>1
    <3> QED
      BY <1>11, <2>1, <3>2 DEF AnswersRight, OrderRight
  <2>2. CASE reply'[c] # reply[c]
    <3>1. \A k \in 1 .. Len(acks) : OwnAck(c, k) => acks[k].order \in Nat /\ acks[k].order <= l
      BY <1>5, HistoryParts DEF AnswersRight, OrderRight
    <3>2. \/ reply'[c].order = 0
          \/ /\ effects' # effects
             /\ IF Request(c) \in Cancels
                  THEN reply'[c].order = CancelTarget[Request(c)] /\ reply'[c].order <= l
                  ELSE reply'[c].order = l + 1
      BY <1>5, <2>2, BrokerReply
    <3>3. Request(c) \in Requests
      BY <1>11, EntryInHand DEF Working
    <3>4. Request(c) \in Cancels => CancelTarget[Request(c)] \in Nat
      BY ConstantParts
    <3> QED
      BY <1>5, <1>6, <3>1, <3>2, <3>4
  <2> QED
    BY <2>1, <2>2
<1>12. \A k \in 1 .. Len(acks) : OwnAck(c, k) => acks[k].order <= Len(effects')
  BY <1>5, <1>6, HistoryParts DEF AnswersRight, OrderRight
<1>13. pc[c] = "answering" => answer[c].order <= Len(effects')
  <2>1. answer[c].order \in Nat
    BY DEF TypeOK
  <2> QED
    BY <1>5, <1>6, <2>1 DEF AnswersRight, OrderRight
<1>14. OrderRight(c)'
  BY <1>2, <1>4, <1>10, <1>11, <1>12, <1>13 DEF AnswersRight, OrderRight
<1> QED
  BY <1>7, <1>9, <1>14 DEF AnswersRight

-----------------------------------------------------------------------------
(* Every step keeps the second invariant.                                  *)

(* A step of process d says nothing of process c.                          *)
LEMMA OthersUnheard ==
  ASSUME TypeOK, StoresRight, NEW c \in Consumers, NEW d \in Consumers, d # c,
         DOMAIN reqMap = Consumers, LoopStep(d) \/ Fail(d) \/ Start(d)
  PROVE  Unheard(c) /\ reqMap'[c] = reqMap[c] /\ stream' = stream
<1>1. Still(c) /\ stream' = stream
  <2>1. stream' = stream
    BY DEF LoopStep, Fail, Start, Receive, HandOver, DivertUndecodable, Decide, AnswerDuplicate,
           AnswerInvalid, AnswerExpired, Admit, Consult, AnswerStalePath, Send, Respond,
           TransportError, PublishAck, Xack, LoseDelivery, FailPublishAck, FailXack, StopLoop,
           Die, redis
  <2> QED
    BY <2>1, OthersStill
<1>2. reqMap'[c] = reqMap[c]
  <2>1. \/ reqMap' = reqMap
        \/ \E m : reqMap' = [reqMap EXCEPT ![d] = m]
    BY DEF LoopStep, Fail, Start, Receive, DivertUndecodable, Decide, AnswerDuplicate,
           AnswerInvalid, AnswerExpired, Admit, Consult, AnswerStalePath, Send, Respond,
           TransportError, PublishAck, Xack, LoseDelivery, FailPublishAck, FailXack, StopLoop,
           Die, loop
  <2> QED
    BY <2>1
<1>3. PICK m \in Nat, k \in Nat : m = Len(sends) /\ k = Len(acks)
  BY HistoryParts
<1>4. effects' = effects
  BY DEF LoopStep, Fail, Start, Receive, DivertUndecodable, Decide, AnswerDuplicate,
         AnswerInvalid, AnswerExpired, Admit, Consult, AnswerStalePath, Send, Respond,
         TransportError, PublishAck, Xack, LoseDelivery, FailPublishAck, FailXack, StopLoop,
         Die, broker
<1>5. \/ sends' = sends
      \/ /\ Len(sends') = m + 1 /\ sends'[m + 1].con = d
         /\ \A n \in 1 .. m : sends'[n] = sends[n]
  <2>1. CASE Send(d)
    <3>1. PICK s : sends' = Append(sends, s) /\ s.con = d
      BY <2>1 DEF Send
    <3> QED
      BY <1>3, <3>1 DEF TypeOK
  <2>2. CASE ~ Send(d)
    BY <2>2 DEF LoopStep, Fail, Start, Receive, DivertUndecodable, Decide, AnswerDuplicate,
           AnswerInvalid, AnswerExpired, Admit, Consult, AnswerStalePath, Respond,
           TransportError, PublishAck, Xack, LoseDelivery, FailPublishAck, FailXack, StopLoop,
           Die, broker
  <2> QED
    BY <2>1, <2>2
<1>6. \/ acks' = acks
      \/ /\ Len(acks') = k + 1 /\ acks'[k + 1].con = d
         /\ \A i \in 1 .. k : acks'[i] = acks[i]
  <2>1. CASE PublishAck(d) \/ FailPublishAck(d)
    <3>1. PICK a \in AckRecords : a = AckRecord(d)
      BY <2>1, EntryInHand DEF PublishAck, FailPublishAck, Working
    <3>2. a.con = d
      BY <3>1 DEF AckRecord
    <3>3. acks' = acks \/ acks' = Append(acks, a)
      BY <2>1, <3>1 DEF PublishAck, FailPublishAck
    <3>4. acks \in Seq(AckRecords)
      BY DEF TypeOK
    <3>5. CASE acks' = Append(acks, a)
      <4>1. Len(acks') = k + 1 /\ acks'[k + 1] = a /\ \A i \in 1 .. k : acks'[i] = acks[i]
        BY <1>3, <3>4, <3>5, AppendProperties
      <4> QED
        BY <3>2, <4>1
    <3> QED
      BY <3>3, <3>5
  <2>2. CASE ~ (PublishAck(d) \/ FailPublishAck(d))
    BY <2>2 DEF LoopStep, Fail, Start, Receive, HandOver, DivertUndecodable, Decide,
           AnswerDuplicate, AnswerInvalid, AnswerExpired, Admit, Consult, AnswerStalePath, Send,
           Respond, TransportError, Xack, LoseDelivery, FailXack, StopLoop, Die, redis
  <2> QED
    BY <2>1, <2>2
<1>7. life'[c] = life[c]
  BY <1>1 DEF Still
<1> QED
  BY <1>1, <1>2, <1>3, <1>4, <1>5, <1>6, <1>7 DEF Unheard

LEMMA StepAnswers ==
  ASSUME TypeOK, StoresRight, Next, DOMAIN reqMap = Consumers, EffectsRight,
         \A d \in Consumers : LoopRight(d) /\ AnswersRight(d)
  PROVE  \A d \in Consumers : AnswersRight(d)'
<1> TAKE d \in Consumers
<1>1. DoneStays /\ Later
  BY StepDone, StepLater
<1>2. Extends(stream', stream)
  BY <1>1 DEF Later
<1>3. CASE Still(d) /\ Unheard(d) /\ reqMap'[d] = reqMap[d]
  BY <1>1, <1>2, <1>3, StillAnswers
<1>4. CASE UNCHANGED <<loop, broker, acks>>
  BY <1>3, <1>4 DEF loop, broker, Still, Unheard
<1>5. ASSUME NEW c \in Consumers, LoopStep(c) \/ Fail(c) \/ Start(c), c # d
      PROVE  AnswersRight(d)'
  <2>1. Still(d) /\ Unheard(d) /\ reqMap'[d] = reqMap[d]
    BY <1>5, OthersStill, OthersUnheard
  <2> QED
    BY <1>3, <2>1
<1>6. CASE LoopStep(d) \/ Fail(d) \/ Start(d)
  <2>1. CASE DivertUndecodable(d) \/ LoseDelivery(d)
    BY <1>4, <2>1 DEF DivertUndecodable, LoseDelivery, HandOver
  <2> QED
    BY <1>1, <1>6, <2>1, ReceiveAnswers, DecideAnswers, ErrorAnswers, RespondAnswers,
       SendAnswers, PublishAckAnswers, XackAnswers, DieAnswers, StartAnswers
    DEF LoopStep, Fail
<1>7. ASSUME NEW r \in Requests, Publish(r) PROVE UNCHANGED <<loop, broker, acks>>
  BY <1>7 DEF Publish
<1>8. CASE Tick
  BY <1>4, <1>8 DEF Tick, redis
<1> QED
  BY <1>1, <1>4, <1>5, <1>6, <1>7, <1>8, BrokerAnswers DEF Next

LEMMA StepMaps ==
  ASSUME TypeOK, Next, DOMAIN reqMap = Consumers
  PROVE  DOMAIN reqMap' = Consumers
<1>1. ASSUME NEW c \in Consumers, LoopStep(c) \/ Fail(c) \/ Start(c)
      PROVE  reqMap' = reqMap \/ \E m : reqMap' = [reqMap EXCEPT ![c] = m]
  BY <1>1 DEF LoopStep, Fail, Start, Receive, DivertUndecodable, Decide, AnswerDuplicate,
         AnswerInvalid, AnswerExpired, Admit, Consult, AnswerStalePath, Send, Respond,
         TransportError, PublishAck, Xack, LoseDelivery, FailPublishAck, FailXack, StopLoop,
         Die, loop
<1>2. ASSUME ~ \E c \in Consumers : LoopStep(c) \/ Fail(c) \/ Start(c) PROVE reqMap' = reqMap
  <2>1. ASSUME NEW n \in 1 .. Len(sends), BrokerStep(n) PROVE reqMap' = reqMap
    BY <2>1, BrokerKeeps DEF loop
  <2>2. ASSUME (\E r \in Requests : Publish(r)) \/ Tick PROVE reqMap' = reqMap
    BY <2>2 DEF Publish, Tick, loop
  <2> QED
    BY <1>2, <2>1, <2>2 DEF Next
<1> QED
  BY <1>1, <1>2

(* Sending, answering, and what the broker does, as the histories see it.  *)
LEMMA StepHistories ==
  ASSUME TypeOK, Next
  PROVE  \/ sends' = sends /\ acks' = acks /\ effects' = effects
         \/ \E c \in Consumers : Send(c)
         \/ /\ sends' = sends /\ effects' = effects
            /\ \E c \in Consumers : /\ pc[c] = "answering" /\ acks' = Append(acks, AckRecord(c))
         \/ acks' = acks /\ \E n \in 1 .. Len(sends) : BrokerStep(n)
<1>1. ASSUME NEW c \in Consumers, PublishAck(c) \/ FailPublishAck(c)
      PROVE  /\ sends' = sends /\ effects' = effects
             /\ acks' = acks \/ (pc[c] = "answering" /\ acks' = Append(acks, AckRecord(c)))
  BY <1>1 DEF PublishAck, FailPublishAck, StopLoop, broker
<1>2. ASSUME NEW c \in Consumers, LoopStep(c) \/ Fail(c) \/ Start(c),
             ~ Send(c), ~ PublishAck(c), ~ FailPublishAck(c)
      PROVE  sends' = sends /\ acks' = acks /\ effects' = effects
  BY <1>2 DEF LoopStep, Fail, Start, Receive, HandOver, DivertUndecodable, Decide,
         AnswerDuplicate, AnswerInvalid, AnswerExpired, Admit, Consult, AnswerStalePath,
         Respond, TransportError, Xack, LoseDelivery, FailXack, StopLoop, Die, redis, broker
<1>3. ASSUME NEW n \in 1 .. Len(sends), BrokerStep(n) PROVE acks' = acks
  BY <1>3, BrokerKeeps DEF redis
<1>4. ASSUME (\E r \in Requests : Publish(r)) \/ Tick
      PROVE  sends' = sends /\ acks' = acks /\ effects' = effects
  BY <1>4 DEF Publish, Tick, redis, broker
<1> QED
  BY <1>1, <1>2, <1>3, <1>4 DEF Next

LEMMA StepEffects == ASSUME TypeOK, Next, EffectsRight PROVE EffectsRight'
<1>1. CASE sends' = sends /\ effects' = effects
  BY <1>1 DEF EffectsRight
<1>2. ASSUME NEW c \in Consumers, Send(c) PROVE EffectsRight'
  <2>1. PICK s : sends' = Append(sends, s)
    BY <1>2 DEF Send
  <2>2. \A n \in 1 .. Len(sends) : sends'[n] = sends[n]
    BY <2>1 DEF TypeOK
  <2>3. effects' = effects
    BY <1>2 DEF Send
  <2> QED
    BY <2>2, <2>3, HistoryParts DEF EffectsRight
<1> QED
  BY <1>1, <1>2, BrokerHarmless, StepHistories

LEMMA StepRefusals ==
  ASSUME TypeOK, Next, EffectsRight, NegativeAnswerHasNoEffect,
         \A c \in Consumers : AnswersRight(c)
  PROVE  NegativeAnswerHasNoEffect'
<1> DEFINE About(n, k) == /\ sends[n].msg = acks[k].msg
                          /\ sends[n].con = acks[k].con
                          /\ sends[n].life = acks[k].life
           Negative(k) == acks[k].status \in {"Rejected", "Expired"}
<1>1. \A k \in 1 .. Len(acks) : Negative(k) =>
        \A n \in 1 .. Len(sends) : About(n, k) => Harmless(n)
  BY DEF NegativeAnswerHasNoEffect, Harmless
<1>2. SUFFICES ASSUME NEW k \in 1 .. Len(acks'), Negative(k)',
                      NEW n \in 1 .. Len(sends'), About(n, k)'
               PROVE  Harmless(n)'
  BY DEF NegativeAnswerHasNoEffect, Harmless
<1>3. CASE sends' = sends /\ acks' = acks /\ effects' = effects
  BY <1>1, <1>2, <1>3 DEF Harmless
<1>4. ASSUME NEW c \in Consumers, Send(c) PROVE Harmless(n)'
  <2>1. PICK s : /\ sends' = Append(sends, s) /\ s.msg = msg[c] /\ s.con = c /\ s.life = life[c]
                 /\ acks' = acks /\ effects' = effects /\ pc[c] = "admitted"
    BY <1>4 DEF Send, redis
  <2>2. PICK m \in Nat : m = Len(sends)
    BY HistoryParts
  <2>3. Len(sends') = m + 1 /\ sends'[m + 1] = s /\ \A i \in 1 .. m : sends'[i] = sends[i]
    BY <2>1, <2>2 DEF TypeOK
  <2>4. CASE n \in 1 .. m
    BY <1>1, <1>2, <2>1, <2>2, <2>3, <2>4 DEF Harmless
  <2>5. CASE n = m + 1
    <3>1. OwnAck(c, k) /\ acks[k].msg = msg[c]
      BY <1>2, <2>1, <2>3, <2>5 DEF OwnAck
    <3> QED
      BY <1>2, <2>1, <3>1 DEF AnswersRight, DeliveredOnce
  <2> QED
    BY <2>3, <2>4, <2>5
<1>5. ASSUME NEW c \in Consumers, sends' = sends, effects' = effects, pc[c] = "answering",
             acks' = Append(acks, AckRecord(c))
      PROVE  Harmless(n)'
  <2>1. PICK m \in Nat : m = Len(acks)
    BY HistoryParts
  <2>2. Len(acks') = m + 1 /\ acks'[m + 1] = AckRecord(c) /\ \A i \in 1 .. m : acks'[i] = acks[i]
    BY <1>5, <2>1 DEF TypeOK
  <2>3. CASE k \in 1 .. m
    BY <1>1, <1>2, <1>5, <2>1, <2>2, <2>3 DEF Harmless
  <2>4. CASE k = m + 1
    <3>1. OwnSend(c, n) /\ sends[n].msg = msg[c] /\ answer[c].status \in {"Rejected", "Expired"}
      BY <1>2, <1>5, <2>2, <2>4 DEF OwnSend, AckRecord
    <3>2. Harmless(n)
      BY <1>2, <1>5, <3>1 DEF AnswersRight, RefusalRight
    <3> QED
      BY <1>5, <3>2 DEF Harmless
  <2> QED
    BY <2>2, <2>3, <2>4
<1>6. ASSUME acks' = acks, NEW i \in 1 .. Len(sends), BrokerStep(i) PROVE Harmless(n)'
  <2>1. n \in 1 .. Len(sends) /\ About(n, k) /\ Negative(k)
    BY <1>2, <1>6, BrokerKeeps
  <2>2. Harmless(n)
    BY <1>1, <1>2, <1>6, <2>1
  <2> QED
    BY <1>6, <2>1, <2>2, BrokerHarmless
<1> QED
  BY <1>3, <1>4, <1>5, <1>6, StepHistories

LEMMA InitAnswers == Init => AInv
<1> SUFFICES ASSUME Init PROVE AInv
  OBVIOUS
<1>1. Len(<< >>) = 0 /\ 1 .. 0 = {}
  OBVIOUS
<1>2. /\ sends = << >> /\ acks = << >> /\ effects = << >> /\ DOMAIN reqMap = Consumers
      /\ \A c \in Consumers : pc[c] = "idle"
  BY DEF Init
<1>3. EffectsRight /\ NegativeAnswerHasNoEffect
  BY <1>1, <1>2 DEF EffectsRight, NegativeAnswerHasNoEffect
<1>4. \A c \in Consumers : AnswersRight(c)
  BY <1>1, <1>2 DEF AnswersRight, DeliveredOnce, RefusalRight, OrderRight
<1> QED
  BY <1>2, <1>3, <1>4 DEF AInv

LEMMA StutterAnswers == AInv /\ UNCHANGED vars => AInv'
<1> SUFFICES ASSUME AInv, UNCHANGED vars PROVE AInv'
  OBVIOUS
<1> USE DEF vars, redis, loop, broker, env
<1>1. DOMAIN reqMap' = Consumers /\ EffectsRight' /\ NegativeAnswerHasNoEffect'
  BY DEF AInv, EffectsRight, NegativeAnswerHasNoEffect
<1>2. ASSUME NEW c \in Consumers PROVE AnswersRight(c)'
  <2>1. DeliveredOnce(c)'
    BY DEF AInv, AnswersRight, DeliveredOnce, OwnSend, OwnAck, Done
  <2>2. RefusalRight(c)'
    BY DEF AInv, AnswersRight, RefusalRight, OwnSend, Harmless, Request
  <2>3. OrderRight(c)'
    BY DEF AInv, AnswersRight, OrderRight, OwnAck, Mapped, Request
  <2> QED
    BY <2>1, <2>2, <2>3 DEF AnswersRight
<1> QED
  BY <1>1, <1>2 DEF AInv

THEOREM AnswersInvariant == Spec => []AInv
<1>1. IInv /\ AInv /\ Next => AInv'
  <2> SUFFICES ASSUME IInv, AInv, Next PROVE AInv'
    OBVIOUS
  <2>1. TypeOK /\ StoresRight /\ \A c \in Consumers : LoopRight(c)
    BY DEF IInv
  <2> QED
    BY <2>1, StepMaps, StepEffects, StepAnswers, StepRefusals DEF AInv
<1>2. IInv /\ AInv /\ [Next]_vars => AInv'
  BY <1>1, StutterAnswers
<1> QED
  BY InitAnswers, PathInvariant, <1>2, PTL DEF Spec

(* Rejected and Expired are final: in run_command_consumer they are        *)
(* answered before anything was sent for the entry, or for the one         *)
(* response of the broker that refuses the one request sent for it.        *)
THEOREM PathNegativeAnswers == Spec => []NegativeAnswerHasNoEffect
  BY AnswersInvariant, PTL DEF AInv

(* Whatever order number an Accepted acknowledgement names, request_map    *)
(* of the process that named it has a request for its events: the loop     *)
(* enters the number before it publishes, and the only requests that can   *)
(* take its place are cancels of that order.                               *)
THEOREM PathOrdersMapped == Spec => []AcceptedOrderIsMapped
<1>1. IInv /\ AInv => AcceptedOrderIsMapped
  <2> SUFFICES ASSUME IInv, AInv, NEW k \in 1 .. Len(acks),
                      acks[k].status = "Accepted", acks[k].order # 0, acks[k].life = life[acks[k].con]
               PROVE  Mapped(acks[k].con, acks[k].order, acks[k].req)
    BY DEF AcceptedOrderIsMapped, Mapped
  <2>1. TypeOK
    BY DEF IInv
  <2>2. PICK c \in Consumers : c = acks[k].con
    BY <2>1, HistoryParts
  <2>3. OwnAck(c, k) /\ OrderRight(c)
    BY <2>2 DEF OwnAck, AInv, AnswersRight
  <2> QED
    BY <2>2, <2>3 DEF OrderRight
<1> QED
  BY <1>1, PathInvariant, AnswersInvariant, PTL

-----------------------------------------------------------------------------
(* When a request is sent again.  A third invariant follows what a process *)
(* has sent through its idempotency store: as long as the store holds the  *)
(* id, under the instant it had then, it is not sent again; and it goes by *)
(* age, or because as many others as the store can hold came after it.     *)

(* The acknowledgements, other than Duplicate and about other requests,    *)
(* that the process of send a has published since.                         *)
HandledSince(a) ==
  {k \in sends[a].after + 1 .. Len(acks) :
     /\ acks[k].con = sends[a].con
     /\ acks[k].life = sends[a].life
     /\ acks[k].status # "Duplicate"
     /\ acks[k].req # sends[a].req}

(* The store holds the request of send a, under the instant at which it    *)
(* was marked then, and whatever is queued behind it was handled since or  *)
(* is in hand.                                                             *)
Held(c, a) ==
  LET st == store[c]
      r  == sends[a].req
  IN  /\ r \in DOMAIN st.entries /\ st.entries[r] = sends[a].marked
      /\ \A i, j \in 1 .. Len(st.order) : (i < j /\ st.order[i] = r) =>
           \/ \E k \in HandledSince(a) : acks[k].req = st.order[j]
           \/ WillTell(c, st.order[j])

(* It is older than the ttl, and if it is marked again, that was later.    *)
Outlived(c, a) ==
  LET r == sends[a].req
  IN  /\ now - sends[a].marked > Ttl
      /\ r \in DOMAIN store[c].entries => store[c].entries[r] - sends[a].marked > Ttl

(* As many others as the store can hold were handled since, the one in     *)
(* hand included.                                                          *)
Crowded(c, a) ==
  \/ Cardinality(HandledSince(a)) >= MaxEntries
  \/ /\ Cardinality(HandledSince(a)) + 1 >= MaxEntries
     /\ \E q \in Requests : q # sends[a].req /\ WillTell(c, q)

ForgetRight(c) ==
  /\ pc[c] = "admitted" =>
       /\ Len(store[c].order) # 0 /\ store[c].order[Len(store[c].order)] = Request(c)
       /\ \A a \in 1 .. Len(sends) : (OwnSend(c, a) /\ sends[a].req = Request(c)) =>
            Outlived(c, a) \/ Crowded(c, a)
  /\ pc[c] \notin {"down", "stopped"} =>
       \A a \in 1 .. Len(sends) : OwnSend(c, a) => Held(c, a) \/ Outlived(c, a) \/ Crowded(c, a)

AfterRight == \A a \in 1 .. Len(sends) : sends[a].after <= Len(acks)

SInv ==
  /\ AfterRight
  /\ \A c \in Consumers : ForgetRight(c)
  /\ SentAgainOnlyWhenForgotten

(* As many different things at the places after p of a queue as members    *)
(* of K that stand for them, at most.                                      *)
LEMMA PigeonQueue ==
  ASSUME NEW K, IsFiniteSet(K), NEW p \in Nat, NEW m \in Nat, p <= m,
         NEW h \in [p + 1 .. m -> K],
         \A i, j \in p + 1 .. m : i # j => h[i] # h[j]
  PROVE  m - p <= Cardinality(K)
<1>1. h \in Injection(p + 1 .. m, K)
  BY DEF Injection, IsInjective
<1>2. Cardinality(p + 1 .. m) <= Cardinality(K)
  BY <1>1, FS_Injection
<1>3. p + 1 \in Int /\ m \in Int
  OBVIOUS
<1>4. Cardinality(p + 1 .. m) = IF p + 1 > m THEN 0 ELSE m - (p + 1) + 1
  BY <1>3, FS_Interval
<1> QED
  BY <1>2, <1>4

(* What a step leaves of a send.                                           *)
Recalled(a) ==
  /\ a \in 1 .. Len(sends')
  /\ sends'[a].req = sends[a].req /\ sends'[a].con = sends[a].con
  /\ sends'[a].life = sends[a].life /\ sends'[a].marked = sends[a].marked
  /\ sends'[a].after = sends[a].after

LEMMA StepRecalled ==
  ASSUME TypeOK, Next
  PROVE  /\ \A a \in 1 .. Len(sends) : Recalled(a)
         /\ \/ Len(sends') = Len(sends)
            \/ Len(sends') = Len(sends) + 1 /\ \E c \in Consumers : Send(c)
<1>1. Len(sends) \in Nat
  BY HistoryParts
<1>2. CASE sends' = sends
  BY <1>1, <1>2 DEF Recalled
<1>3. ASSUME NEW c \in Consumers, Send(c)
      PROVE  Len(sends') = Len(sends) + 1 /\ \A a \in 1 .. Len(sends) : Recalled(a)
  <2>1. PICK s : sends' = Append(sends, s)
    BY <1>3 DEF Send
  <2>2. Len(sends') = Len(sends) + 1 /\ \A n \in 1 .. Len(sends) : sends'[n] = sends[n]
    BY <2>1 DEF TypeOK
  <2> QED
    BY <1>1, <2>2 DEF Recalled
<1>4. ASSUME NEW n \in 1 .. Len(sends), BrokerStep(n)
      PROVE  Len(sends') = Len(sends) /\ \A a \in 1 .. Len(sends) : Recalled(a)
  BY <1>4, BrokerKeeps DEF Recalled
<1> QED
  BY <1>2, <1>3, <1>4, StepHistories

LEMMA HandledFinite ==
  ASSUME TypeOK, NEW a \in 1 .. Len(sends)
  PROVE  IsFiniteSet(HandledSince(a)) /\ Cardinality(HandledSince(a)) \in Nat
<1>1. sends[a].after + 1 \in Int /\ Len(acks) \in Int
  <2>1. sends[a] \in SendRecords
    BY HistoryParts
  <2> QED
    BY <2>1, HistoryParts DEF SendRecords
<1>2. IsFiniteSet(sends[a].after + 1 .. Len(acks))
  BY <1>1, FS_Interval
<1>3. HandledSince(a) \in SUBSET (sends[a].after + 1 .. Len(acks))
  BY DEF HandledSince
<1>4. IsFiniteSet(HandledSince(a))
  BY <1>2, <1>3, FS_Subset
<1> QED
  BY <1>4, FS_CardinalityType

LEMMA HandledGrows ==
  ASSUME TypeOK, TypeOK', Extends(acks', acks), NEW a \in 1 .. Len(sends), Recalled(a)
  PROVE  /\ HandledSince(a) \subseteq HandledSince(a)'
         /\ \A k \in HandledSince(a) : acks'[k] = acks[k]
         /\ IsFiniteSet(HandledSince(a)')
         /\ Cardinality(HandledSince(a)) <= Cardinality(HandledSince(a)')
<1>1. sends[a].after \in Nat /\ Len(acks) \in Nat /\ Len(acks') \in Nat
  <2>1. sends[a] \in SendRecords
    BY HistoryParts
  <2>2. Len(acks') \in Nat
    BY LenProperties DEF TypeOK
  <2> QED
    BY <2>1, <2>2, HistoryParts DEF SendRecords
<1>2. \A k \in HandledSince(a) : k \in 1 .. Len(acks) /\ acks'[k] = acks[k] /\ k \in HandledSince(a)'
  <2> TAKE k \in HandledSince(a)
  <2>1. k \in 1 .. Len(acks) /\ k \in sends[a].after + 1 .. Len(acks) /\ Len(acks) <= Len(acks')
    BY <1>1 DEF HandledSince, Extends
  <2>2. acks'[k] = acks[k] /\ k \in sends[a].after + 1 .. Len(acks')
    BY <1>1, <2>1 DEF Extends
  <2> QED
    BY <2>1, <2>2 DEF HandledSince, Recalled
<1>3. a \in 1 .. Len(sends')
  BY DEF Recalled
<1>4. IsFiniteSet(HandledSince(a)')
  <2>1. PICK K : K = HandledSince(a)'
    OBVIOUS
  <2>2. sends'[a].after + 1 \in Int /\ Len(acks') \in Int
    BY <1>1 DEF Recalled
  <2>3. IsFiniteSet(sends'[a].after + 1 .. Len(acks'))
    BY <2>2, FS_Interval
  <2>4. K \in SUBSET (sends'[a].after + 1 .. Len(acks'))
    BY <2>1 DEF HandledSince
  <2> QED
    BY <2>1, <2>3, <2>4, FS_Subset
<1>5. HandledSince(a) \in SUBSET HandledSince(a)'
  BY <1>2
<1> QED
  BY <1>2, <1>4, <1>5, FS_Subset

(* A step that leaves the store alone, and the request in hand in hand     *)
(* unless it publishes its answer.                                         *)
KeepsInHand(c, a) ==
  \A q \in Requests : (WillTell(c, q) /\ q # sends[a].req) =>
    \/ WillTell(c, q)'
    \/ \E k \in HandledSince(a)' : k \notin HandledSince(a) /\ acks'[k].req = q

LEMMA ForgetPasses ==
  ASSUME TypeOK, TypeOK', StoresRight, NEW c \in Consumers, NEW a \in 1 .. Len(sends),
         Recalled(a), Extends(acks', acks), now <= now',
         store'[c] = store[c], KeepsInHand(c, a),
         Held(c, a) \/ Outlived(c, a) \/ Crowded(c, a)
  PROVE  /\ Held(c, a)' \/ Outlived(c, a)' \/ Crowded(c, a)'
         /\ Outlived(c, a) \/ Crowded(c, a) => Outlived(c, a)' \/ Crowded(c, a)'
<1>1. PICK r : r = sends[a].req /\ r = sends'[a].req
  BY DEF Recalled
<1>2. PICK st \in Stores(now) : st = store[c] /\ st = store'[c]
  BY DEF StoresRight
<1>3. PICK t : t = sends[a].marked /\ t = sends'[a].marked
  BY DEF Recalled
<1>4. t \in Nat /\ now \in Nat /\ now' \in Nat /\ Ttl \in Nat /\ MaxEntries \in Nat
  <2>1. sends[a] \in SendRecords
    BY HistoryParts
  <2>2. now \in 0 .. MaxTime /\ now' \in 0 .. MaxTime
    BY DEF TypeOK
  <2>3. t \in Nat
    BY <1>3, <2>1 DEF SendRecords
  <2> QED
    BY <2>2, <2>3, ConstantParts, MaxEntriesAssumption
<1>5. /\ HandledSince(a) \subseteq HandledSince(a)'
      /\ \A k \in HandledSince(a) : acks'[k] = acks[k]
      /\ IsFiniteSet(HandledSince(a)')
      /\ Cardinality(HandledSince(a)) <= Cardinality(HandledSince(a)')
  BY HandledGrows
<1>6. Cardinality(HandledSince(a)) \in Nat /\ IsFiniteSet(HandledSince(a))
      /\ Cardinality(HandledSince(a)') \in Nat
  BY <1>5, HandledFinite, FS_CardinalityType
<1>7. Consistent(st) /\ \A j \in 1 .. Len(st.order) : st.order[j] \in Requests
  BY <1>2, StoreParts, ElementOfSeq DEF StoresRight
<1>8. ASSUME Held(c, a) PROVE Held(c, a)'
  <2>1. r \in DOMAIN st.entries /\ st.entries[r] = t
    BY <1>1, <1>2, <1>3, <1>8 DEF Held
  <2>2. ASSUME NEW i \in 1 .. Len(st.order), NEW j \in 1 .. Len(st.order), i < j, st.order[i] = r
        PROVE  \/ \E k \in HandledSince(a)' : acks'[k].req = st.order[j]
               \/ WillTell(c, st.order[j])'
    <3>1. PICK q \in Requests : q = st.order[j] /\ q # r
      BY <1>7, <2>2 DEF Consistent
    <3>2. (\E k \in HandledSince(a) : acks[k].req = q) \/ WillTell(c, q)
      BY <1>1, <1>2, <1>8, <2>2, <3>1 DEF Held
    <3>3. (\E k \in HandledSince(a)' : acks'[k].req = q) \/ WillTell(c, q)'
      BY <1>1, <1>5, <3>1, <3>2 DEF KeepsInHand
    <3>4. ASSUME WillTell(c, q)' PROVE WillTell(c, st.order[j])'
      BY <3>1, <3>4
    <3> QED
      BY <3>1, <3>3, <3>4
  <2> QED
    BY <1>1, <1>2, <1>3, <2>1, <2>2 DEF Held
<1>9. Outlived(c, a) => Outlived(c, a)'
  BY <1>1, <1>2, <1>3, <1>4 DEF Outlived
<1>10. ASSUME Crowded(c, a) PROVE Crowded(c, a)'
  <2>1. CASE Cardinality(HandledSince(a)) >= MaxEntries
    BY <1>4, <1>5, <1>6, <2>1 DEF Crowded
  <2>2. CASE /\ Cardinality(HandledSince(a)) + 1 >= MaxEntries
             /\ \E q \in Requests : q # sends[a].req /\ WillTell(c, q)
    <3>1. PICK q \in Requests : q # r /\ WillTell(c, q)
      BY <1>1, <2>2
    <3>2. CASE WillTell(c, q)'
      <4>1. \E p \in Requests : p # sends'[a].req /\ WillTell(c, p)'
        BY <1>1, <3>1, <3>2
      <4> QED
        BY <1>4, <1>5, <1>6, <2>2, <4>1 DEF Crowded
    <3>3. CASE \E k \in HandledSince(a)' : k \notin HandledSince(a)
      <4>1. PICK k \in HandledSince(a)' : k \notin HandledSince(a)
        BY <3>3
      <4>2. Cardinality(HandledSince(a) \cup {k}) = Cardinality(HandledSince(a)) + 1
        BY <1>6, <4>1, FS_AddElement
      <4>3. HandledSince(a) \cup {k} \in SUBSET HandledSince(a)'
        BY <1>5, <4>1
      <4>4. Cardinality(HandledSince(a) \cup {k}) <= Cardinality(HandledSince(a)')
        BY <1>5, <4>3, FS_Subset
      <4> QED
        BY <1>4, <1>6, <2>2, <4>2, <4>4 DEF Crowded
    <3> QED
      BY <1>1, <3>1, <3>2, <3>3 DEF KeepsInHand
  <2> QED
    BY <1>10, <2>1, <2>2 DEF Crowded
<1> QED
  BY <1>8, <1>9, <1>10

(* The store is consulted about the request in hand.                       *)
LEMMA DecideForgets ==
  ASSUME TypeOK, StoresRight, NEW c \in Consumers, ForgetRight(c), Decide(c)
  PROVE  ForgetRight(c)'
<1>0. PICK r \in Requests : r = Request(c)
  BY EntryInHand DEF Decide, AnswerDuplicate, AnswerInvalid, AnswerExpired, Admit, Consult, Working
<1>1. /\ UNCHANGED <<redis, msg, life, broker, env>> /\ pc[c] = "received"
      /\ store'[c] = CheckAndSet(store[c], r, now) /\ Request(c)' = r
  BY <1>0 DEF Decide, AnswerDuplicate, AnswerInvalid, AnswerExpired, Admit, Consult, StoresRight,
              Request, redis
<1>2. PICK st, nx : st \in Stores(now) /\ st = store[c] /\ nx = store'[c] /\ nx = CheckAndSet(st, r, now)
  BY <1>1 DEF StoresRight
<1>3. PICK fresh \in BOOLEAN : fresh <=> IsFresh(st, r, now)
  OBVIOUS
<1>4. /\ pc'[c] \in {"answering", "admitted"}
      /\ pc'[c] = "admitted" => fresh
      /\ fresh => WillTell(c, r)'
  <2>1. CASE AnswerDuplicate(c)
    <3>1. pc'[c] = "answering" /\ ~ fresh
      BY <1>0, <1>2, <1>3, <2>1, PrepareAnswerLoop DEF AnswerDuplicate, Fresh
    <3> QED
      BY <3>1
  <2>2. CASE AnswerInvalid(c) \/ AnswerExpired(c)
    <3>1. pc'[c] = "answering" /\ answer'[c].status # "Duplicate"
      BY <2>2, PrepareAnswerLoop DEF AnswerInvalid, AnswerExpired
    <3> QED
      BY <1>1, <3>1 DEF WillTell
  <2>3. CASE Admit(c)
    <3>1. pc'[c] = "admitted" /\ fresh
      BY <1>0, <1>2, <1>3, <2>3 DEF Admit, Fresh, TypeOK
    <3> QED
      BY <1>1, <3>1 DEF WillTell
  <2> QED
    BY <2>1, <2>2, <2>3 DEF Decide
<1>5. now \in Nat /\ Ttl \in Nat /\ MaxEntries \in Nat /\ Consistent(st)
  BY <1>2, ConstantParts, MaxEntriesAssumption DEF TypeOK, StoresRight
<1>6. /\ fresh => /\ r \in DOMAIN nx.entries /\ nx.entries[r] = now
                  /\ Len(nx.order) # 0 /\ nx.order[Len(nx.order)] = r
                  /\ r \in DOMAIN st.entries => now - st.entries[r] > Ttl
      /\ \A q \in DOMAIN nx.entries :
           (q # r \/ ~ fresh) => q \in DOMAIN st.entries /\ nx.entries[q] = st.entries[q]
      /\ \A q \in DOMAIN st.entries \ DOMAIN nx.entries :
           \/ now - st.entries[q] > Ttl
           \/ /\ fresh
              /\ \E p \in 1 .. Len(st.order) :
                   st.order[p] = q /\ Len(st.order) - p + 1 >= MaxEntries
  BY <1>2, <1>3, <1>5, CheckAndSetQueue
<1>7. PICK n \in Nat : \A i \in 1 .. Len(nx.order) :
        \/ n + i \in 1 .. Len(st.order) /\ nx.order[i] = st.order[n + i]
        \/ fresh /\ nx.order[i] = r
  <2>1. IF fresh THEN EndOf(nx.order, st.order, r) ELSE EndOnly(nx.order, st.order)
    BY <1>2, <1>3, <1>5, CheckAndSetQueue
  <2>2. CASE fresh
    BY <2>1, <2>2 DEF EndOf
  <2>3. CASE ~ fresh
    BY <2>1, <2>3 DEF EndOnly
  <2> QED
    BY <2>2, <2>3
<1>8. \A q \in Requests : ~ WillTell(c, q)
  BY <1>1 DEF WillTell
<1>9. ASSUME NEW a \in 1 .. Len(sends), OwnSend(c, a)
      PROVE  /\ Held(c, a)' \/ Outlived(c, a)' \/ Crowded(c, a)'
             /\ (fresh /\ sends[a].req = r) => Outlived(c, a)' \/ Crowded(c, a)'
  <2>1. PICK q \in Requests, t \in Nat : q = sends[a].req /\ t = sends[a].marked
    <3>1. sends[a] \in SendRecords
      BY HistoryParts
    <3> QED
      BY <3>1 DEF SendRecords
  <2>2. q = sends'[a].req /\ t = sends'[a].marked /\ now' = now
    BY <1>1, <2>1 DEF broker, env
  <2>3. PICK K : K = HandledSince(a) /\ K = HandledSince(a)'
    BY <1>1 DEF HandledSince, broker, redis
  <2>4. IsFiniteSet(K) /\ Cardinality(K) \in Nat
    BY <2>3, HandledFinite
  <2>5. acks' = acks
    BY <1>1 DEF redis
  <2>6. CASE Crowded(c, a)
    BY <1>8, <2>3, <2>6 DEF Crowded
  <2>7. CASE Outlived(c, a)
    <3>1. now - t > Ttl /\ (q \in DOMAIN st.entries => st.entries[q] - t > Ttl)
      BY <1>2, <2>1, <2>7 DEF Outlived
    <3>2. q \in DOMAIN nx.entries => nx.entries[q] - t > Ttl
      BY <1>6, <3>1
    <3>3. Outlived(c, a)'
      BY <1>2, <2>2, <3>1, <3>2 DEF Outlived
    <3> QED
      BY <3>3
  <2>8. CASE Held(c, a)
    <3>1. /\ q \in DOMAIN st.entries /\ st.entries[q] = t
          /\ \A i, j \in 1 .. Len(st.order) : (i < j /\ st.order[i] = q) =>
               \E k \in K : acks[k].req = st.order[j]
      <4>1. \A j \in 1 .. Len(st.order) : ~ WillTell(c, st.order[j])
        BY <1>1 DEF WillTell
      <4> QED
        BY <1>2, <2>1, <2>3, <2>8, <4>1 DEF Held
    <3>2. CASE now - t > Ttl /\ (q \in DOMAIN nx.entries => q = r /\ fresh)
      <4>1. q \in DOMAIN nx.entries => nx.entries[q] - t > Ttl
        BY <1>6, <3>2
      <4>2. Outlived(c, a)'
        BY <1>2, <2>2, <3>2, <4>1 DEF Outlived
      <4> QED
        BY <4>2
    <3>3. CASE q \in DOMAIN nx.entries /\ ~ (q = r /\ fresh)
      <4>1. nx.entries[q] = t
        BY <1>6, <3>1, <3>3
      <4>2. ASSUME NEW i \in 1 .. Len(nx.order), NEW j \in 1 .. Len(nx.order), i < j, nx.order[i] = q
            PROVE  (\E k \in K : acks[k].req = nx.order[j]) \/ WillTell(c, nx.order[j])'
        <5>1. n + i \in 1 .. Len(st.order) /\ st.order[n + i] = q
          BY <1>7, <3>3, <4>2
        <5>2. CASE n + j \in 1 .. Len(st.order) /\ nx.order[j] = st.order[n + j]
          <6>1. n + i < n + j
            BY <4>2
          <6> QED
            BY <3>1, <5>1, <5>2, <6>1
        <5>3. CASE fresh /\ nx.order[j] = r
          BY <1>2, <1>4, <5>3
        <5> QED
          BY <1>7, <5>2, <5>3
      <4>3. Held(c, a)'
        BY <1>2, <2>2, <2>3, <2>5, <3>3, <4>1, <4>2 DEF Held
      <4> QED
        BY <2>1, <3>3, <4>3
    <3>4. CASE q \notin DOMAIN nx.entries /\ ~ (now - t > Ttl)
      <4>1. PICK p \in 1 .. Len(st.order) :
              fresh /\ st.order[p] = q /\ Len(st.order) - p + 1 >= MaxEntries
        BY <1>6, <3>1, <3>4
      <4>2. PICK l \in Nat : l = Len(st.order)
        BY <1>2, StoreParts, LenProperties
      <4>3. \A j \in p + 1 .. l : j \in 1 .. l /\ \E k \in K : acks[k].req = st.order[j]
        <5>1. p \in 1 .. l /\ \A j \in p + 1 .. l : j \in 1 .. l
          BY <4>1, <4>2
        <5>2. \A j \in 1 .. l : j >= p + 1 => \E k \in K : acks[k].req = st.order[j]
          BY <3>1, <4>1, <4>2
        <5> QED
          BY <5>1, <5>2
      <4> DEFINE h == [j \in p + 1 .. l |-> CHOOSE k \in K : acks[k].req = st.order[j]]
      <4>4. \A j \in p + 1 .. l : h[j] \in K /\ acks[h[j]].req = st.order[j]
        BY <4>3
      <4>5. h \in [p + 1 .. l -> K]
        BY <4>4
      <4>6. \A i, j \in p + 1 .. l : i # j => h[i] # h[j]
        <5>1. \A i, j \in p + 1 .. l : i < j => st.order[i] # st.order[j]
          BY <1>5, <4>2, <4>3 DEF Consistent
        <5>2. \A i, j \in p + 1 .. l : i # j => i < j \/ j < i
          OBVIOUS
        <5> QED
          BY <4>4, <5>1, <5>2
      <4> HIDE DEF h
      <4>7. l - p <= Cardinality(K)
        <5>1. p \in Nat /\ p <= l
          BY <4>2
        <5> QED
          BY <2>4, <4>2, <4>5, <4>6, <5>1, PigeonQueue
      <4>8. Cardinality(K) + 1 >= MaxEntries
        BY <1>5, <2>4, <4>1, <4>2, <4>7
      <4>9. q # r /\ WillTell(c, r)'
        BY <1>4, <1>6, <3>4, <4>1
      <4>10. Crowded(c, a)'
        BY <2>2, <2>3, <4>8, <4>9 DEF Crowded
      <4> QED
        BY <4>10
    <3>5. CASE q = r /\ fresh
      <4>1. now - t > Ttl
        BY <1>6, <3>1, <3>5
      <4> QED
        BY <3>2, <3>5, <4>1
    <3> QED
      BY <3>2, <3>3, <3>4, <3>5
  <2> QED
    BY <1>1, <1>9, <2>6, <2>7, <2>8 DEF ForgetRight
<1>10. sends' = sends /\ \A a \in 1 .. Len(sends) : OwnSend(c, a)' <=> OwnSend(c, a)
  BY <1>1 DEF OwnSend, broker
<1> QED
  BY <1>1, <1>2, <1>4, <1>6, <1>9, <1>10 DEF ForgetRight

(* A step of whoever that lets process c keep its store and what it has in *)
(* hand, or publish that.                                                  *)
LEMMA KeepForgets ==
  ASSUME TypeOK, TypeOK', StoresRight, Extends(acks', acks), now <= now',
         \A a \in 1 .. Len(sends) : Recalled(a),
         NEW c \in Consumers, ForgetRight(c), life'[c] = life[c], store'[c] = store[c],
         pc'[c] \notin {"down", "stopped"} => pc[c] \notin {"down", "stopped"},
         pc'[c] = "admitted" => pc[c] = "admitted" /\ Request(c)' = Request(c),
         \A a \in 1 .. Len(sends') : OwnSend(c, a)' => a \in 1 .. Len(sends),
         \A a \in 1 .. Len(sends) : OwnSend(c, a) => KeepsInHand(c, a)
  PROVE  ForgetRight(c)'
<1>1. ASSUME NEW a \in 1 .. Len(sends'), OwnSend(c, a)'
      PROVE  /\ a \in 1 .. Len(sends) /\ OwnSend(c, a) /\ sends'[a].req = sends[a].req
             /\ (Held(c, a) \/ Outlived(c, a) \/ Crowded(c, a)) =>
                  /\ Held(c, a)' \/ Outlived(c, a)' \/ Crowded(c, a)'
                  /\ Outlived(c, a) \/ Crowded(c, a) => Outlived(c, a)' \/ Crowded(c, a)'
  <2>1. a \in 1 .. Len(sends) /\ Recalled(a)
    BY <1>1
  <2>2. OwnSend(c, a) /\ sends'[a].req = sends[a].req
    BY <1>1, <2>1 DEF OwnSend, Recalled
  <2> QED
    BY <2>1, <2>2, ForgetPasses
<1>2. pc'[c] = "admitted" =>
        /\ Len(store'[c].order) # 0 /\ store'[c].order[Len(store'[c].order)] = Request(c)'
        /\ \A a \in 1 .. Len(sends') : (OwnSend(c, a)' /\ sends'[a].req = Request(c)') =>
             Outlived(c, a)' \/ Crowded(c, a)'
  BY <1>1 DEF ForgetRight
<1>3. pc'[c] \notin {"down", "stopped"} =>
        \A a \in 1 .. Len(sends') : OwnSend(c, a)' => Held(c, a)' \/ Outlived(c, a)' \/ Crowded(c, a)'
  BY <1>1 DEF ForgetRight
<1> QED
  BY <1>2, <1>3 DEF ForgetRight

(* The loop publishes the answer of what it has in hand.                   *)
LEMMA PublishAckForgets ==
  ASSUME TypeOK, TypeOK', StoresRight, AfterRight, Extends(acks', acks),
         \A a \in 1 .. Len(sends) : Recalled(a),
         NEW c \in Consumers, ForgetRight(c), PublishAck(c)
  PROVE  ForgetRight(c)'
<1>1. /\ pc[c] = "answering" /\ pc'[c] = "acking" /\ UNCHANGED <<store, life, sends, now>>
      /\ acks' = Append(acks, AckRecord(c))
  BY DEF PublishAck, TypeOK, broker, env
<1>2. PICK x \in AckRecords : x = AckRecord(c)
  BY <1>1, EntryInHand DEF Working
<1>3. PICK k \in Nat : k = Len(acks) + 1
  BY HistoryParts
<1>4. Len(acks') = k /\ acks'[k] = x
  BY <1>1, <1>2, <1>3, AppendProperties DEF TypeOK
<1>5. ASSUME NEW a \in 1 .. Len(sends), OwnSend(c, a) PROVE KeepsInHand(c, a)
  <2> SUFFICES ASSUME NEW q \in Requests, WillTell(c, q), q # sends[a].req
               PROVE  k \in HandledSince(a)' /\ k \notin HandledSince(a) /\ acks'[k].req = q
    BY DEF KeepsInHand
  <2>1. acks'[k].req = q /\ acks'[k].con = c /\ acks'[k].life = life[c]
        /\ acks'[k].status # "Duplicate"
    BY <1>1, <1>2, <1>4 DEF WillTell, AckRecord
  <2>2. PICK f \in Nat : f = sends[a].after /\ f <= Len(acks)
    <3>1. sends[a] \in SendRecords
      BY HistoryParts
    <3> QED
      BY <3>1 DEF SendRecords, AfterRight
  <2>3. k \in f + 1 .. k /\ k \notin f + 1 .. Len(acks)
    BY <1>3, <2>2, HistoryParts
  <2>4. sends'[a] = sends[a] /\ sends[a].con = c /\ sends[a].life = life[c]
    BY <1>1, <1>5 DEF OwnSend
  <2>5. k \notin HandledSince(a)
    BY <2>2, <2>3 DEF HandledSince
  <2>6. k \in HandledSince(a)'
    BY <1>4, <2>1, <2>2, <2>3, <2>4 DEF HandledSince
  <2> QED
    BY <2>1, <2>5, <2>6
<1>6. now <= now'
  BY <1>1 DEF TypeOK
<1> QED
  BY <1>1, <1>5, <1>6, KeepForgets

(* The loop sends what its store marked last.                              *)
LEMMA SendForgets ==
  ASSUME TypeOK, TypeOK', StoresRight, Extends(acks', acks),
         \A a \in 1 .. Len(sends) : Recalled(a),
         NEW c \in Consumers, LoopRight(c), ForgetRight(c), Send(c)
  PROVE  ForgetRight(c)'
<1>1. PICK r \in Requests : r = Request(c)
  BY EntryInHand DEF Send, Working
<1>2. PICK st \in Stores(now) : st = store[c] /\ st = store'[c] /\ Consistent(st)
  BY DEF Send, StoresRight
<1>3. PICK m \in Nat : m = Len(sends)
  BY HistoryParts
<1>4. PICK s : /\ sends' = Append(sends, s) /\ s.req = r /\ s.marked = st.entries[r]
  BY <1>1, <1>2 DEF Send
<1>5. Len(sends') = m + 1 /\ sends'[m + 1] = s
  BY <1>3, <1>4, AppendProperties DEF TypeOK
<1>6. /\ pc[c] = "admitted" /\ pc'[c] = "sent" /\ UNCHANGED <<life, now, store>>
      /\ Request(c)' = Request(c)
  BY DEF Send, TypeOK, redis, env, Request
<1>7. \A a \in 1 .. m : KeepsInHand(c, a)
  BY <1>6 DEF KeepsInHand, WillTell
<1>8. ASSUME NEW a \in 1 .. m, OwnSend(c, a)' PROVE Held(c, a)' \/ Outlived(c, a)' \/ Crowded(c, a)'
  <2>1. OwnSend(c, a) /\ Recalled(a)
    BY <1>3, <1>6, <1>8 DEF OwnSend, Recalled
  <2>2. Held(c, a) \/ Outlived(c, a) \/ Crowded(c, a)
    BY <1>3, <1>6, <2>1 DEF ForgetRight
  <2>3. now <= now'
    BY <1>6 DEF TypeOK
  <2> QED
    BY <1>3, <1>6, <1>7, <2>1, <2>2, <2>3, ForgetPasses
<1>9. Held(c, m + 1)'
  <2>1. r \in DOMAIN st.entries
    BY <1>1, <1>2, <1>6 DEF LoopRight
  <2>2. Len(st.order) \in Nat
    BY <1>2, StoreParts, LenProperties
  <2>3. Len(st.order) # 0 /\ st.order[Len(st.order)] = r
    BY <1>1, <1>2, <1>6 DEF ForgetRight
  <2>4. ASSUME NEW i \in 1 .. Len(st.order), NEW j \in 1 .. Len(st.order), i < j, st.order[i] = r
        PROVE  FALSE
    <3>1. Len(st.order) \in 1 .. Len(st.order) /\ i < Len(st.order)
      BY <2>2, <2>4
    <3> QED
      BY <1>2, <2>3, <2>4, <3>1 DEF Consistent
  <2>5. sends'[m + 1].req = r /\ sends'[m + 1].marked = st.entries[r]
    BY <1>4, <1>5
  <2> QED
    BY <1>2, <2>1, <2>4, <2>5 DEF Held
<1>10. \A a \in 1 .. m + 1 : a \in 1 .. m \/ a = m + 1
  BY <1>3
<1> QED
  BY <1>5, <1>6, <1>8, <1>9, <1>10 DEF ForgetRight

(* The remaining steps of a loop keep its store, and what it has in hand   *)
(* until the answer is out; a loop that starts has sent nothing.           *)
LEMMA OwnForgets ==
  ASSUME TypeOK, TypeOK', StoresRight, Extends(acks', acks), now <= now',
         \A a \in 1 .. Len(sends) : Recalled(a),
         NEW c \in Consumers, ForgetRight(c), AnswersRight(c),
         \/ Receive(c) \/ DivertUndecodable(c) \/ AnswerStalePath(c) \/ Respond(c)
         \/ TransportError(c) \/ Xack(c) \/ Fail(c) \/ Start(c)
  PROVE  ForgetRight(c)'
<1>1. CASE FailPublishAck(c) \/ FailXack(c) \/ Die(c)
  <2>1. pc'[c] \in {"down", "stopped"}
    BY <1>1 DEF FailPublishAck, FailXack, StopLoop, Die, TypeOK
  <2> QED
    BY <2>1 DEF ForgetRight
<1>2. CASE Start(c)
  <2>1. sends' = sends /\ pc'[c] = "idle" /\ life[c] \in Nat /\ life'[c] = life[c] + 1
    BY <1>2 DEF Start, TypeOK, broker
  <2>2. ASSUME NEW a \in 1 .. Len(sends), OwnSend(c, a)' PROVE FALSE
    <3>1. sends[a].life \in Nat /\ (sends[a].con = c => sends[a].life <= life[c])
      BY HistoryParts DEF AnswersRight, DeliveredOnce
    <3> QED
      BY <2>1, <2>2, <3>1 DEF OwnSend
  <2> QED
    BY <2>1, <2>2 DEF ForgetRight
<1>3. ASSUME \/ Receive(c) \/ DivertUndecodable(c) \/ AnswerStalePath(c) \/ Respond(c)
             \/ TransportError(c) \/ Xack(c) \/ LoseDelivery(c)
      PROVE  ForgetRight(c)'
  <2>1. UNCHANGED <<store, life, sends>>
    BY <1>3 DEF Receive, DivertUndecodable, AnswerStalePath, Respond, TransportError, Xack,
                LoseDelivery, loop, broker
  <2>2. pc[c] \notin {"down", "stopped"} /\ pc'[c] # "admitted"
    BY <1>3 DEF Receive, DivertUndecodable, AnswerStalePath, Respond, TransportError, Xack,
                LoseDelivery, PrepareAnswer, loop, TypeOK
  <2>3. \A q \in Requests : WillTell(c, q) => WillTell(c, q)'
    <3>1. CASE Receive(c) \/ DivertUndecodable(c) \/ Xack(c) \/ LoseDelivery(c)
      BY <3>1 DEF Receive, DivertUndecodable, Xack, LoseDelivery, WillTell
    <3>2. CASE AnswerStalePath(c) \/ TransportError(c)
      <4>1. PrepareAnswer(c, "Error", 0) /\ UNCHANGED <<stream, msg>>
        BY <3>2 DEF AnswerStalePath, TransportError, redis
      <4>2. pc'[c] = "answering" /\ answer'[c].status = "Error" /\ Request(c)' = Request(c)
        BY <4>1, PrepareAnswerLoop DEF Request
      <4> QED
        BY <4>2 DEF WillTell
    <3>3. CASE Respond(c)
      <4>1. PICK s : s = StatusOf(reply[c].kind)
        OBVIOUS
      <4>2. s # "Duplicate"
        <5>1. reply[c].kind \in {"ok", "refused", "garbled"}
          BY <3>3 DEF Respond, TypeOK, Replies
        <5> QED
          BY <4>1, <5>1 DEF StatusOf
      <4>3. pc'[c] = "answering" /\ answer'[c].status = s
        BY <3>3, <4>1, PrepareAnswerLoop DEF Respond
      <4>4. Request(c)' = Request(c)
        BY <3>3 DEF Respond, redis, Request
      <4> QED
        BY <4>2, <4>3, <4>4 DEF WillTell
    <3> QED
      BY <1>3, <3>1, <3>2, <3>3
  <2>4. \A a \in 1 .. Len(sends) : KeepsInHand(c, a)
    BY <2>3 DEF KeepsInHand
  <2> QED
    BY <2>1, <2>2, <2>4, KeepForgets
<1> QED
  BY <1>1, <1>2, <1>3 DEF Fail

(* A step of someone else.                                                 *)
LEMMA OthersForget ==
  ASSUME TypeOK, TypeOK', StoresRight, Later, now <= now',
         \A a \in 1 .. Len(sends) : Recalled(a),
         NEW c \in Consumers, ForgetRight(c),
         pc'[c] = pc[c], msg'[c] = msg[c], answer'[c] = answer[c],
         store'[c] = store[c], life'[c] = life[c],
         \A a \in 1 .. Len(sends') : OwnSend(c, a)' => a \in 1 .. Len(sends)
  PROVE  ForgetRight(c)'
<1>1. pc[c] \in Working => Request(c)' = Request(c)
  BY EntryInHand DEF Later, Extends, Request
<1>2. \A q \in Requests : WillTell(c, q) => WillTell(c, q)'
  BY <1>1 DEF WillTell, Working
<1>3. \A a \in 1 .. Len(sends) : KeepsInHand(c, a)
  BY <1>2 DEF KeepsInHand
<1>4. Extends(acks', acks)
  BY DEF Later
<1>5. pc'[c] = "admitted" => pc[c] = "admitted" /\ Request(c)' = Request(c)
  BY <1>1 DEF Working
<1> QED
  BY <1>3, <1>4, <1>5, KeepForgets

LEMMA StepForgets ==
  ASSUME IInv, AInv, AfterRight, \A d \in Consumers : ForgetRight(d), Next
  PROVE  \A d \in Consumers : ForgetRight(d)'
<1> TAKE d \in Consumers
<1>1. TypeOK /\ TypeOK' /\ StoresRight /\ Later /\ LoopRight(d) /\ AnswersRight(d)
      /\ DOMAIN reqMap = Consumers /\ Extends(acks', acks)
  BY StepTypeOK, StepLater DEF IInv, AInv, Later
<1>2. \A a \in 1 .. Len(sends) : Recalled(a)
  BY <1>1, StepRecalled
<1>3. now <= now'
  <2>1. now \in 0 .. MaxTime
    BY <1>1 DEF TypeOK
  <2>2. now' = now \/ now' = now + 1
    <3>1. ASSUME NEW n \in 1 .. Len(sends), BrokerStep(n) PROVE now' = now
      BY <3>1 DEF BrokerStep, BrokerExecutes, BrokerRefuses, Settle, LoseRequest, env
    <3> QED
      BY <3>1 DEF Next, Publish, Tick, LoopStep, Fail, Start, Receive, DivertUndecodable, Decide,
             AnswerDuplicate, AnswerInvalid, AnswerExpired, Admit, Consult, AnswerStalePath, Send,
             Respond, TransportError, PublishAck, Xack, LoseDelivery, FailPublishAck, FailXack,
             StopLoop, Die, env
  <2> QED
    BY <2>1, <2>2
<1>4. ASSUME NEW c \in Consumers, LoopStep(c) \/ Fail(c) \/ Start(c), c # d
      PROVE  ForgetRight(d)'
  <2>1. Still(d) /\ Unheard(d)
    BY <1>1, <1>4, OthersStill, OthersUnheard
  <2>2. \A a \in 1 .. Len(sends') : OwnSend(d, a)' => a \in 1 .. Len(sends)
    BY <2>1 DEF Unheard, OwnSend
  <2> QED
    BY <1>1, <1>2, <1>3, <2>1, <2>2, OthersForget DEF Still
<1>5. CASE LoopStep(d) \/ Fail(d) \/ Start(d)
  BY <1>1, <1>2, <1>3, <1>5, DecideForgets, SendForgets, PublishAckForgets, OwnForgets DEF LoopStep
<1>6. ASSUME NEW n \in 1 .. Len(sends), BrokerStep(n) PROVE ForgetRight(d)'
  <2>1. Len(sends') = Len(sends) /\ UNCHANGED loop
    BY <1>1, <1>6, BrokerKeeps
  <2> QED
    BY <1>1, <1>2, <1>3, <2>1, OthersForget DEF loop
<1>7. CASE (\E r \in Requests : Publish(r)) \/ Tick
  <2>1. sends' = sends /\ UNCHANGED loop
    BY <1>7 DEF Publish, Tick, broker
  <2> QED
    BY <1>1, <1>2, <1>3, <2>1, OthersForget DEF loop
<1> QED
  BY <1>4, <1>5, <1>6, <1>7 DEF Next

LEMMA StepAfter ==
  ASSUME TypeOK, TypeOK', AfterRight, Later, Next
  PROVE  AfterRight'
<1>1. \A a \in 1 .. Len(sends) : Recalled(a)
  BY StepRecalled
<1>2. Len(acks) \in Nat /\ Len(acks') \in Nat /\ Len(acks) <= Len(acks') /\ Len(sends) \in Nat
  BY HistoryParts, LenProperties DEF Later, Extends, TypeOK
<1>3. \A a \in 1 .. Len(sends) : sends'[a].after <= Len(acks')
  <2> TAKE a \in 1 .. Len(sends)
  <2>1. sends[a].after \in Nat
    <3>1. sends[a] \in SendRecords
      BY HistoryParts
    <3> QED
      BY <3>1 DEF SendRecords
  <2>2. sends'[a].after = sends[a].after /\ sends[a].after <= Len(acks)
    BY <1>1 DEF Recalled, AfterRight
  <2> QED
    BY <1>2, <2>1, <2>2
<1>4. CASE Len(sends') = Len(sends)
  BY <1>3, <1>4 DEF AfterRight
<1>5. ASSUME NEW c \in Consumers, Send(c) PROVE AfterRight'
  <2>1. PICK s : sends' = Append(sends, s) /\ s.after = Len(acks) /\ acks' = acks
    BY <1>5 DEF Send, redis
  <2>2. Len(sends') = Len(sends) + 1 /\ sends'[Len(sends) + 1] = s
    BY <2>1, AppendProperties DEF TypeOK
  <2>3. \A a \in 1 .. Len(sends') : a \in 1 .. Len(sends) \/ a = Len(sends) + 1
    BY <1>2, <2>2
  <2> QED
    BY <1>2, <1>3, <2>1, <2>2, <2>3 DEF AfterRight
<1> QED
  BY <1>4, <1>5, StepRecalled

(* Of two sends already made nothing changes; a send just made comes after *)
(* those of the same request that the store had forgotten.                 *)
LEMMA StepSentAgain ==
  ASSUME IInv, TypeOK', AfterRight, \A d \in Consumers : ForgetRight(d), Later, Next,
         SentAgainOnlyWhenForgotten
  PROVE  SentAgainOnlyWhenForgotten'
<1>1. \A a \in 1 .. Len(sends) : Recalled(a)
  BY StepRecalled DEF IInv
<1>2. PICK m \in Nat : m = Len(sends)
  BY HistoryParts DEF IInv
<1>3. ASSUME NEW a \in 1 .. m
      PROVE  /\ sends[a].after \in Nat /\ sends[a].after <= Len(acks) /\ Len(acks) \in Nat
             /\ sends[a].con \in Consumers
  <2>1. sends[a] \in SendRecords /\ Len(acks) \in Nat
    BY <1>2, HistoryParts DEF IInv
  <2> QED
    BY <1>2, <2>1 DEF SendRecords, AfterRight
<1>4. ASSUME NEW a \in 1 .. m, NEW b \in 1 .. m, a < b,
             sends'[a].req = sends'[b].req, sends'[a].con = sends'[b].con,
             sends'[a].life = sends'[b].life
      PROVE  \/ sends'[b].marked - sends'[a].marked > Ttl
             \/ Cardinality(HandledBetween(a, b)') >= MaxEntries
  <2>1. /\ sends'[a].marked = sends[a].marked /\ sends'[b].marked = sends[b].marked
        /\ sends'[a].after = sends[a].after /\ sends'[b].after = sends[b].after
        /\ sends'[a].con = sends[a].con /\ sends'[a].life = sends[a].life
        /\ sends'[a].req = sends[a].req
    BY <1>1, <1>2 DEF Recalled
  <2>2. \A k \in sends[a].after + 1 .. sends[b].after : acks'[k] = acks[k]
    <3> TAKE k \in sends[a].after + 1 .. sends[b].after
    <3>1. k \in 1 .. Len(acks)
      BY <1>3
    <3> QED
      BY <3>1 DEF Later, Extends
  <2>3. HandledBetween(a, b)' = HandledBetween(a, b)
    BY <2>1, <2>2 DEF HandledBetween
  <2>4. \/ sends[b].marked - sends[a].marked > Ttl
        \/ Cardinality(HandledBetween(a, b)) >= MaxEntries
    BY <1>1, <1>2, <1>4 DEF SentAgainOnlyWhenForgotten, Recalled
  <2> QED
    BY <2>1, <2>3, <2>4
<1>5. CASE Len(sends') = m
  BY <1>4, <1>5 DEF SentAgainOnlyWhenForgotten
<1>6. ASSUME NEW c \in Consumers, Send(c) PROVE SentAgainOnlyWhenForgotten'
  <2>1. PICK r : r = Request(c)
    OBVIOUS
  <2>2. PICK s : /\ sends' = Append(sends, s) /\ s.req = r /\ s.con = c /\ s.life = life[c]
                 /\ s.marked = store[c].entries[r] /\ s.after = Len(acks)
    BY <1>6, <2>1 DEF Send
  <2>3. Len(sends') = m + 1 /\ sends'[m + 1] = s /\ \A a \in 1 .. m : sends'[a] = sends[a]
    BY <1>2, <2>2, AppendProperties DEF IInv, TypeOK
  <2>4. acks' = acks /\ pc[c] = "admitted" /\ LoopRight(c) /\ ForgetRight(c)
    BY <1>6 DEF Send, redis, IInv
  <2>5. ASSUME NEW a \in 1 .. m, sends[a].req = r, sends[a].con = c, sends[a].life = life[c]
        PROVE  \/ s.marked - sends'[a].marked > Ttl
               \/ Cardinality(HandledBetween(a, m + 1)') >= MaxEntries
    <3>1. Outlived(c, a) \/ Crowded(c, a)
      BY <1>2, <2>1, <2>4, <2>5 DEF ForgetRight, OwnSend
    <3>2. CASE Outlived(c, a)
      <4>1. r \in DOMAIN store[c].entries
        BY <2>1, <2>4 DEF LoopRight
      <4> QED
        BY <2>2, <2>3, <2>5, <3>2, <4>1 DEF Outlived
    <3>3. CASE Crowded(c, a)
      <4>1. Cardinality(HandledSince(a)) >= MaxEntries
        BY <2>1, <2>5, <3>3 DEF Crowded, WillTell
      <4>2. HandledBetween(a, m + 1)' = HandledSince(a)
        BY <2>2, <2>3, <2>4 DEF HandledBetween, HandledSince
      <4> QED
        BY <4>1, <4>2
    <3> QED
      BY <3>1, <3>2, <3>3
  <2>6. ASSUME NEW a \in 1 .. m + 1, NEW b \in 1 .. m + 1, a < b
        PROVE  a \in 1 .. m /\ (b \in 1 .. m \/ b = m + 1)
    BY <2>6
  <2>7. ASSUME NEW a \in 1 .. m + 1, NEW b \in 1 .. m + 1, a < b,
               sends'[a].req = sends'[b].req, sends'[a].con = sends'[b].con,
               sends'[a].life = sends'[b].life
        PROVE  \/ sends'[b].marked - sends'[a].marked > Ttl
               \/ Cardinality(HandledBetween(a, b)') >= MaxEntries
    <3>1. a \in 1 .. m
      BY <2>6, <2>7
    <3>2. CASE b \in 1 .. m
      BY <1>4, <2>7, <3>1, <3>2
    <3>3. CASE b = m + 1
      BY <2>2, <2>3, <2>5, <2>7, <3>1, <3>3
    <3> QED
      BY <2>6, <2>7, <3>2, <3>3
  <2> QED
    BY <2>3, <2>7 DEF SentAgainOnlyWhenForgotten
<1> QED
  BY <1>2, <1>5, <1>6, StepRecalled DEF IInv

LEMMA InitForgets == Init => SInv
<1> SUFFICES ASSUME Init PROVE SInv
  OBVIOUS
<1>1. sends = << >> /\ \A c \in Consumers : pc[c] = "idle"
  BY DEF Init
<1>2. \A a \in 1 .. Len(sends) : FALSE
  BY <1>1
<1> QED
  BY <1>1, <1>2 DEF SInv, AfterRight, ForgetRight, SentAgainOnlyWhenForgotten

LEMMA StutterForgets == SInv /\ UNCHANGED vars => SInv'
<1> SUFFICES ASSUME SInv, UNCHANGED vars PROVE SInv'
  OBVIOUS
<1> USE DEF vars, redis, loop, broker, env
<1>1. AfterRight'
  BY DEF SInv, AfterRight
<1>2. \A a : /\ HandledSince(a)' = HandledSince(a)
             /\ \A b : HandledBetween(a, b)' = HandledBetween(a, b)
  BY DEF HandledSince, HandledBetween
<1>3. ASSUME NEW c \in Consumers PROVE ForgetRight(c)'
  <2>1. \A q : WillTell(c, q)' <=> WillTell(c, q)
    BY DEF WillTell, Request
  <2>2. \A a : /\ Held(c, a)' <=> Held(c, a)
               /\ Outlived(c, a)' <=> Outlived(c, a)
               /\ Crowded(c, a)' <=> Crowded(c, a)
    BY <1>2, <2>1 DEF Held, Outlived, Crowded
  <2> QED
    BY <2>2 DEF SInv, ForgetRight, OwnSend, Request
<1>4. SentAgainOnlyWhenForgotten'
  BY <1>2 DEF SInv, SentAgainOnlyWhenForgotten
<1> QED
  BY <1>1, <1>3, <1>4 DEF SInv

THEOREM ForgetInvariant == Spec => []SInv
<1>1. IInv /\ IInv' /\ AInv /\ SInv /\ Next => SInv'
  <2> SUFFICES ASSUME IInv, IInv', AInv, SInv, Next PROVE SInv'
    OBVIOUS
  <2>1. TypeOK /\ TypeOK' /\ Later
    BY StepLater DEF IInv
  <2> QED
    BY <2>1, StepForgets, StepAfter, StepSentAgain DEF SInv
<1>2. IInv /\ IInv' /\ AInv /\ SInv /\ [Next]_vars => SInv'
  BY <1>1, StutterForgets
<1> QED
  BY InitForgets, PathInvariant, AnswersInvariant, <1>2, PTL DEF Spec

(* One process sends the same request to the broker twice only when its    *)
(* store was entitled to forget it in between (check_and_set): for every   *)
(* ttl and every capacity, whatever dies, fails or is delivered again.     *)
THEOREM PathSentAgain == Spec => []SentAgainOnlyWhenForgotten
  BY ForgetInvariant, PTL DEF SInv
=============================================================================
