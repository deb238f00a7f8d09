------------------------ MODULE TradeOwnershipProofs ------------------------
(***************************************************************************)
(* Which trades a runtime books as its own, for any number of orders,      *)
(* lots, restarts and resubscriptions, and any order in which              *)
(* acknowledgements, order events and trades arrive: no trade is booked    *)
(* twice, none is lost without a restart, and an own trade becomes an      *)
(* orphan only when the acknowledgement of its order did not name it.      *)
(***************************************************************************)
EXTENDS TradeOwnership, FiniteSetTheorems, SequenceTheorems, TLAPS

LEMMA ConstantParts ==
  /\ Lots \in Nat \ {0} /\ MaxTime \in Nat /\ DedupLimit \in Nat /\ PerTick \in Nat
  /\ PerTick <= DedupLimit /\ NoTrade \in Int /\ NoTrade < 0
  /\ Own \cap Foreign = {} /\ NoNumber \notin Own
  /\ MaxReports \in Nat /\ MaxResends \in Nat /\ MaxRestarts \in Nat
BY LotsAssumption, TimeAssumption, DedupAssumption, OrdersAssumption, BoundsAssumption

-----------------------------------------------------------------------------
(* Maps with some of the orders as keys.                                   *)

LEMMA PartialParts ==
  ASSUME NEW D, NEW R, NEW f \in Partial(D, R)
  PROVE  DOMAIN f \subseteq D /\ f \in [DOMAIN f -> R] /\ \A x \in DOMAIN f : f[x] \in R
BY DEF Partial

LEMMA SetPartial ==
  ASSUME NEW D, NEW R, NEW f \in Partial(D, R), NEW x \in D, NEW v \in R
  PROVE  /\ Set(f, x, v) \in Partial(D, R)
         /\ DOMAIN Set(f, x, v) = DOMAIN f \cup {x}
         /\ Set(f, x, v)[x] = v
         /\ \A y \in DOMAIN f : y # x => Set(f, x, v)[y] = f[y]
<1>1. DOMAIN f \subseteq D /\ \A y \in DOMAIN f : f[y] \in R
  BY PartialParts
<1>2. Set(f, x, v) \in [DOMAIN f \cup {x} -> R]
  BY <1>1 DEF Set
<1> QED
  BY <1>1, <1>2 DEF Set, Partial

LEMMA UnsetPartial ==
  ASSUME NEW D, NEW R, NEW f \in Partial(D, R), NEW x \in D
  PROVE  Unset(f, x) \in Partial(D, R) /\ DOMAIN Unset(f, x) = DOMAIN f \ {x}
<1>1. DOMAIN f \subseteq D /\ \A y \in DOMAIN f : f[y] \in R
  BY PartialParts
<1>2. Unset(f, x) \in [DOMAIN f \ {x} -> R]
  BY <1>1 DEF Unset
<1> QED
  BY <1>1, <1>2 DEF Partial

LEMMA PartialGrows ==
  ASSUME NEW D, NEW E, D \subseteq E, NEW R, NEW f \in Partial(D, R)
  PROVE  f \in Partial(E, R)
BY DEF Partial

LEMMA NoEntriesPartial ==
  ASSUME NEW D, NEW R
  PROVE  NoEntries \in Partial(D, R) /\ DOMAIN NoEntries = {}
<1>1. NoEntries \in [{} -> R] /\ DOMAIN NoEntries = {}
  BY DEF NoEntries
<1> QED
  BY <1>1 DEF Partial

-----------------------------------------------------------------------------
(* The operations on the books.                                            *)

Owed == [target : 1 .. Lots, filled : 0 .. Lots]
Marks == [trade : Trades, owned : BOOLEAN]

(* The part of TypeOK about the books.                                     *)
Sound(b) ==
  /\ b \in Books
  /\ DOMAIN b.awaiting \subseteq b.own
  /\ \A o \in DOMAIN b.awaiting : b.awaiting[o].filled < b.awaiting[o].target
  /\ \A o \in Orders :
       /\ \A i \in 1 .. Len(b.buffered[o]) : OrderOf(b.buffered[o][i]) = o
       /\ \A i \in 1 .. Len(b.ledger[o]) : OrderOf(b.ledger[o][i].trade) = o

LEMMA BookParts ==
  ASSUME NEW b \in Books
  PROVE  /\ b.own \subseteq Placeable
         /\ b.orders \in Partial(Placeable, 0 .. Lots)
         /\ DOMAIN b.orders \subseteq Placeable
         /\ \A o \in DOMAIN b.orders : b.orders[o] \in 0 .. Lots
         /\ b.awaiting \in Partial(Placeable, Owed)
         /\ \A o \in DOMAIN b.awaiting : b.awaiting[o] \in Owed
         /\ \A o \in Orders : /\ b.buffered[o] \in Seq(Trades) /\ Len(b.buffered[o]) \in Nat
                              /\ b.ledger[o] \in Seq(Marks) /\ Len(b.ledger[o]) \in Nat
<1>1. /\ b.own \subseteq Placeable /\ b.orders \in Partial(Placeable, 0 .. Lots)
      /\ b.awaiting \in Partial(Placeable, Owed)
      /\ b.buffered \in [Orders -> Seq(Trades)] /\ b.ledger \in [Orders -> Seq(Marks)]
  BY DEF Books, Owed, Marks
<1>2. \A o \in Orders : /\ b.buffered[o] \in Seq(Trades) /\ Len(b.buffered[o]) \in Nat
                        /\ b.ledger[o] \in Seq(Marks) /\ Len(b.ledger[o]) \in Nat
  BY <1>1, LenProperties
<1> QED
  BY <1>1, <1>2, PartialParts

LEMMA RecordedParts ==
  ASSUME NEW s \in Seq(Trades), NEW w \in BOOLEAN
  PROVE  /\ Recorded(s, w) \in Seq(Marks) /\ Len(Recorded(s, w)) = Len(s)
         /\ \A i \in 1 .. Len(s) : Recorded(s, w)[i].trade = s[i] /\ Recorded(s, w)[i].owned = w
<1>1. Len(s) \in Nat /\ \A i \in 1 .. Len(s) : s[i] \in Trades
  BY LenProperties, ElementOfSeq
<1>2. Recorded(s, w) \in [1 .. Len(s) -> Marks]
  BY <1>1 DEF Recorded, Marks
<1>3. Recorded(s, w) \in Seq(Marks)
  BY <1>1, <1>2, SeqDef
<1>4. Len(Recorded(s, w)) = Len(s)
  BY <1>1, <1>2, <1>3, LenProperties
<1> QED
  BY <1>3, <1>4 DEF Recorded

LEMMA AfterFillsRight ==
  ASSUME NEW b, Sound(b), NEW o \in DOMAIN b.orders, NEW n \in Nat \ {0}
  PROVE  /\ AfterFills(b, o, n) \in Partial(Placeable, Owed)
         /\ DOMAIN AfterFills(b, o, n) \subseteq DOMAIN b.awaiting \cup {o}
         /\ \A p \in DOMAIN AfterFills(b, o, n) :
              AfterFills(b, o, n)[p].filled < AfterFills(b, o, n)[p].target
<1>1. PICK aw \in Partial(Placeable, Owed) :
        /\ aw = b.awaiting /\ o \in Placeable /\ b.orders[o] \in 0 .. Lots
        /\ \A p \in DOMAIN aw : aw[p] \in Owed /\ aw[p].filled < aw[p].target
  BY BookParts DEF Sound
<1>2. PICK again \in 1 .. Lots : again = Target(b.orders[o])
  BY <1>1, ConstantParts DEF Target
<1>3. PICK e \in Owed : e = Owes(b, o) /\ e.filled < e.target
  <2>1. CASE o \in DOMAIN b.awaiting
    BY <1>1, <2>1 DEF Owes
  <2>2. CASE o \notin DOMAIN b.awaiting
    <3>1. Owes(b, o) = [target |-> again, filled |-> 0]
      BY <1>2, <2>2 DEF Owes
    <3>2. 0 \in 0 .. Lots /\ 0 < again
      BY ConstantParts
    <3> QED
      BY <3>1, <3>2 DEF Owed
  <2> QED
    BY <2>1, <2>2
<1>4. PICK t \in 1 .. Lots, paid \in 0 .. Lots : t = e.target /\ paid = e.filled
  BY <1>3 DEF Owed
<1>5. PICK rest \in 0 .. Lots : rest = (paid + n - t) % again /\ (paid + n >= t => rest < again)
  BY <1>2, <1>4, ConstantParts
<1>6. ASSUME NEW v \in Owed, v.filled < v.target
      PROVE  /\ Set(aw, o, v) \in Partial(Placeable, Owed)
             /\ DOMAIN Set(aw, o, v) \subseteq DOMAIN aw \cup {o}
             /\ \A p \in DOMAIN Set(aw, o, v) : Set(aw, o, v)[p].filled < Set(aw, o, v)[p].target
  <2>1. o \in Placeable
    BY <1>1
  <2>2. /\ Set(aw, o, v) \in Partial(Placeable, Owed)
        /\ DOMAIN Set(aw, o, v) = DOMAIN aw \cup {o} /\ Set(aw, o, v)[o] = v
        /\ \A y \in DOMAIN aw : y # o => Set(aw, o, v)[y] = aw[y]
    BY <2>1, SetPartial
  <2> QED
    BY <1>1, <1>6, <2>2
<1>7. CASE paid + n < t
  <2>1. AfterFills(b, o, n) = Set(aw, o, [e EXCEPT !.filled = paid + n])
    BY <1>1, <1>3, <1>4, <1>7 DEF AfterFills
  <2>2. PICK g \in 0 .. Lots : g = paid + n /\ g < t
    BY <1>4, <1>7, ConstantParts
  <2>3. [e EXCEPT !.filled = g] = [target |-> t, filled |-> g]
    BY <1>3, <1>4 DEF Owed
  <2>4. [target |-> t, filled |-> g] \in Owed
    BY DEF Owed
  <2> QED
    BY <1>1, <1>6, <2>1, <2>2, <2>3, <2>4
<1>8. CASE paid + n >= t /\ rest = 0
  <2>1. AfterFills(b, o, n) = Unset(aw, o)
    BY <1>1, <1>2, <1>3, <1>4, <1>5, <1>8 DEF AfterFills
  <2>2. Unset(aw, o) \in Partial(Placeable, Owed) /\ DOMAIN Unset(aw, o) = DOMAIN aw \ {o}
    <3>1. o \in Placeable
      BY <1>1
    <3> QED
      BY <3>1, UnsetPartial
  <2>3. \A y \in DOMAIN aw \ {o} : Unset(aw, o)[y] = aw[y]
    BY DEF Unset
  <2> QED
    BY <1>1, <2>1, <2>2, <2>3
<1>9. CASE paid + n >= t /\ rest # 0
  <2>1. AfterFills(b, o, n) = Set(aw, o, [target |-> again, filled |-> rest])
    BY <1>1, <1>2, <1>3, <1>4, <1>5, <1>9 DEF AfterFills
  <2>2. [target |-> again, filled |-> rest] \in Owed
    BY DEF Owed
  <2> QED
    BY <1>1, <1>5, <1>6, <1>9, <2>1, <2>2
<1> QED
  BY <1>4, <1>7, <1>8, <1>9

(* The trades booked of one order, waiting or recorded; and that none is   *)
(* booked twice.                                                           *)
Held(s, l) == {s[i] : i \in 1 .. Len(s)} \cup {l[i].trade : i \in 1 .. Len(l)}

Once(s, l) ==
  /\ \A i, j \in 1 .. Len(s) : s[i] = s[j] => i = j
  /\ \A i, j \in 1 .. Len(l) : l[i].trade = l[j].trade => i = j
  /\ \A i \in 1 .. Len(s), j \in 1 .. Len(l) : s[i] # l[j].trade

LEMMA MoveHeld ==
  ASSUME NEW s \in Seq(Trades), NEW l \in Seq(Marks), NEW w \in BOOLEAN
  PROVE  LET m == l \o Recorded(s, w) IN
         /\ m \in Seq(Marks) /\ Len(m) = Len(l) + Len(s)
         /\ \A i \in 1 .. Len(l) : m[i] = l[i]
         /\ \A i \in Len(l) + 1 .. Len(m) : m[i].trade = s[i - Len(l)] /\ m[i].owned = w
         /\ Held(<< >>, m) = Held(s, l)
         /\ Once(s, l) => Once(<< >>, m)
<1>1. PICK r \in Seq(Marks) :
        /\ r = Recorded(s, w) /\ Len(r) = Len(s)
        /\ \A i \in 1 .. Len(s) : r[i].trade = s[i] /\ r[i].owned = w
  BY RecordedParts
<1>2. PICK m \in Seq(Marks) :
        /\ m = l \o r /\ Len(m) = Len(l) + Len(r)
        /\ \A i \in 1 .. Len(l) + Len(r) : m[i] = IF i <= Len(l) THEN l[i] ELSE r[i - Len(l)]
  <2>1. /\ l \o r \in Seq(Marks) /\ Len(l \o r) = Len(l) + Len(r)
        /\ \A i \in 1 .. Len(l) + Len(r) : (l \o r)[i] = IF i <= Len(l) THEN l[i] ELSE r[i - Len(l)]
    BY ConcatProperties
  <2> QED
    BY <2>1
<1>3. Len(l) \in Nat /\ Len(s) \in Nat /\ Len(<< >>) = 0
  BY LenProperties, EmptySeq
<1>4. \A i \in 1 .. Len(l) : m[i] = l[i]
  BY <1>1, <1>2, <1>3
<1>5. \A i \in Len(l) + 1 .. Len(m) : m[i].trade = s[i - Len(l)] /\ m[i].owned = w
  <2> SUFFICES ASSUME NEW i \in Len(l) + 1 .. Len(m)
               PROVE  m[i].trade = s[i - Len(l)] /\ m[i].owned = w
    OBVIOUS
  <2>1. i - Len(l) \in 1 .. Len(s) /\ m[i] = r[i - Len(l)]
    BY <1>1, <1>2, <1>3
  <2> QED
    BY <1>1, <2>1
<1>6. \A i \in 1 .. Len(s) : m[Len(l) + i].trade = s[i] /\ Len(l) + i \in 1 .. Len(m)
  BY SMTT(30), <1>1, <1>2, <1>3, <1>5
<1>7. Held(<< >>, m) = Held(s, l)
  <2>1. ASSUME NEW x \in Held(<< >>, m) PROVE x \in Held(s, l)
    <3>1. PICK i \in 1 .. Len(m) : x = m[i].trade
      BY <1>3, <2>1 DEF Held
    <3>2. CASE i <= Len(l)
      BY SMTT(30), <1>3, <1>4, <3>1, <3>2 DEF Held
    <3>3. CASE i > Len(l)
      <4>1. i - Len(l) \in 1 .. Len(s) /\ x = s[i - Len(l)]
        BY <1>1, <1>2, <1>3, <1>5, <3>1, <3>3
      <4> QED
        BY <4>1 DEF Held
    <3> QED
      BY <1>3, <3>2, <3>3
  <2>2. ASSUME NEW x \in Held(s, l) PROVE x \in Held(<< >>, m)
    <3>1. CASE \E i \in 1 .. Len(s) : x = s[i]
      BY <1>6, <3>1 DEF Held
    <3>2. CASE \E i \in 1 .. Len(l) : x = l[i].trade
      <4>1. PICK i \in 1 .. Len(l) : x = l[i].trade
        BY <3>2
      <4>2. i \in 1 .. Len(m) /\ x = m[i].trade
        BY <1>1, <1>2, <1>3, <1>4, <4>1
      <4> QED
        BY <4>2 DEF Held
    <3> QED
      BY <2>2, <3>1, <3>2 DEF Held
  <2> QED
    BY <2>1, <2>2
<1>8. ASSUME Once(s, l) PROVE Once(<< >>, m)
  <2>1. ASSUME NEW i \in 1 .. Len(m), NEW j \in 1 .. Len(m), m[i].trade = m[j].trade
        PROVE  i = j
    <3>1. ASSUME NEW n \in 1 .. Len(m)
          PROVE  \/ n \in 1 .. Len(l) /\ m[n] = l[n]
                 \/ n - Len(l) \in 1 .. Len(s) /\ m[n].trade = s[n - Len(l)]
      BY <1>1, <1>2, <1>3, <1>4, <1>5
    <3>2. CASE i \in 1 .. Len(l) /\ j \in 1 .. Len(l)
      BY <1>4, <1>8, <2>1, <3>2 DEF Once
    <3>3. CASE i \notin 1 .. Len(l) /\ j \notin 1 .. Len(l)
      <4>1. i - Len(l) \in 1 .. Len(s) /\ j - Len(l) \in 1 .. Len(s)
        BY <3>1, <3>3
      <4>2. s[i - Len(l)] = s[j - Len(l)]
        BY <2>1, <3>1, <3>3
      <4>3. i - Len(l) = j - Len(l)
        BY <1>8, <4>1, <4>2 DEF Once
      <4> QED
        BY <1>3, <4>3
    <3>4. ASSUME NEW a \in 1 .. Len(m), NEW b \in 1 .. Len(m), a \in 1 .. Len(l), b \notin 1 .. Len(l)
          PROVE  m[a].trade # m[b].trade
      <4>1. b - Len(l) \in 1 .. Len(s) /\ m[b].trade = s[b - Len(l)]
        BY <3>1, <3>4
      <4>2. s[b - Len(l)] # l[a].trade
        BY <1>8, <3>4, <4>1 DEF Once
      <4> QED
        BY <1>4, <3>4, <4>1, <4>2
    <3> QED
      BY <2>1, <3>2, <3>3, <3>4
  <2> QED
    BY <1>3, <2>1 DEF Once
<1> QED
  BY <1>1, <1>2, <1>4, <1>5, <1>7, <1>8

(* A fresh trade is buffered, or recorded.                                 *)
LEMMA BufferHeld ==
  ASSUME NEW s \in Seq(Trades), NEW l \in Seq(Marks), NEW k \in Trades
  PROVE  /\ Held(Append(s, k), l) = Held(s, l) \cup {k}
         /\ Once(s, l) /\ k \notin Held(s, l) => Once(Append(s, k), l)
<1>1. PICK t \in Seq(Trades) : /\ t = Append(s, k) /\ Len(t) = Len(s) + 1 /\ t[Len(s) + 1] = k
                               /\ \A i \in 1 .. Len(s) : t[i] = s[i]
  <2>1. /\ Append(s, k) \in Seq(Trades) /\ Len(Append(s, k)) = Len(s) + 1
        /\ Append(s, k)[Len(s) + 1] = k /\ \A i \in 1 .. Len(s) : Append(s, k)[i] = s[i]
    BY AppendProperties
  <2> QED
    BY <2>1
<1>2. Len(s) \in Nat /\ Len(l) \in Nat
  BY LenProperties
<1>3. \A i \in 1 .. Len(t) : \/ i \in 1 .. Len(s) /\ t[i] = s[i]
                             \/ i = Len(s) + 1 /\ t[i] = k
  BY <1>1, <1>2
<1>4. Len(s) + 1 \in 1 .. Len(t) /\ \A i \in 1 .. Len(s) : i \in 1 .. Len(t)
  BY <1>1, <1>2
<1>5. Held(t, l) = Held(s, l) \cup {k}
  BY <1>1, <1>3, <1>4 DEF Held
<1>6. ASSUME Once(s, l), k \notin Held(s, l) PROVE Once(t, l)
  <2>1. (\A i \in 1 .. Len(s) : s[i] # k) /\ (\A i \in 1 .. Len(l) : l[i].trade # k)
    BY <1>6 DEF Held
  <2> QED
    BY <1>3, <1>6, <2>1 DEF Once
<1> QED
  BY <1>1, <1>5, <1>6

LEMMA RecordHeld ==
  ASSUME NEW s \in Seq(Trades), NEW l \in Seq(Marks), NEW k \in Trades, NEW w \in BOOLEAN
  PROVE  LET m == l \o Recorded(<<k>>, w) IN
         /\ m \in Seq(Marks) /\ Len(m) = Len(l) + 1
         /\ \A i \in 1 .. Len(l) : m[i] = l[i]
         /\ m[Len(l) + 1].trade = k /\ m[Len(l) + 1].owned = w
         /\ Held(s, m) = Held(s, l) \cup {k}
         /\ Once(s, l) /\ k \notin Held(s, l) => Once(s, m)
<1>1. PICK e \in Seq(Trades) : e = <<k>> /\ Len(e) = 1 /\ e[1] = k
  <2>1. <<k>> \in Seq(Trades) /\ Len(<<k>>) = 1 /\ <<k>>[1] = k
    OBVIOUS
  <2> QED
    BY <2>1
<1>2. Len(l) \in Nat /\ Len(s) \in Nat
  BY LenProperties
<1>3. PICK m \in Seq(Marks) :
        /\ m = l \o Recorded(e, w) /\ Len(m) = Len(l) + 1
        /\ \A i \in 1 .. Len(l) : m[i] = l[i]
        /\ m[Len(l) + 1].trade = k /\ m[Len(l) + 1].owned = w
  <2>1. PICK m : m = l \o Recorded(e, w)
    OBVIOUS
  <2>2. /\ m \in Seq(Marks) /\ Len(m) = Len(l) + Len(e)
        /\ \A i \in 1 .. Len(l) : m[i] = l[i]
        /\ \A i \in Len(l) + 1 .. Len(m) : m[i].trade = e[i - Len(l)] /\ m[i].owned = w
    <3>1. LET r == l \o Recorded(e, w) IN
          /\ r \in Seq(Marks) /\ Len(r) = Len(l) + Len(e)
          /\ \A i \in 1 .. Len(l) : r[i] = l[i]
          /\ \A i \in Len(l) + 1 .. Len(r) : r[i].trade = e[i - Len(l)] /\ r[i].owned = w
      BY MoveHeld
    <3> QED
      BY <2>1, <3>1
  <2>3. Len(l) + 1 \in Len(l) + 1 .. Len(m) /\ (Len(l) + 1) - Len(l) = 1 /\ Len(m) = Len(l) + 1
    BY <1>1, <1>2, <2>2
  <2>4. m[Len(l) + 1].trade = k /\ m[Len(l) + 1].owned = w
    BY <1>1, <2>2, <2>3
  <2> QED
    BY <2>1, <2>2, <2>3, <2>4
<1>4. \A i \in 1 .. Len(m) : \/ i \in 1 .. Len(l) /\ m[i] = l[i]
                             \/ i = Len(l) + 1 /\ m[i].trade = k
  BY <1>2, <1>3
<1>5. Len(l) + 1 \in 1 .. Len(m) /\ \A i \in 1 .. Len(l) : i \in 1 .. Len(m)
  BY <1>2, <1>3
<1>6. Held(s, m) = Held(s, l) \cup {k}
  BY <1>3, <1>4, <1>5 DEF Held
<1>7. ASSUME Once(s, l), k \notin Held(s, l) PROVE Once(s, m)
  <2>1. (\A i \in 1 .. Len(s) : s[i] # k) /\ (\A i \in 1 .. Len(l) : l[i].trade # k)
    BY <1>7 DEF Held
  <2> QED
    BY <1>4, <1>7, <2>1 DEF Once
<1> QED
  BY <1>1, <1>3, <1>6, <1>7

-----------------------------------------------------------------------------
(* The waiting trades of the orders in S are moved to their ledger.        *)
Shifted(b, c, S, w) ==
  /\ c.buffered = [o \in Orders |-> IF o \in S THEN << >> ELSE b.buffered[o]]
  /\ c.ledger = [o \in Orders |->
                   IF o \in S THEN b.ledger[o] \o Recorded(b.buffered[o], w) ELSE b.ledger[o]]

(* What the books say of the trades of one order.                          *)
Tidy(b, o) ==
  /\ b.buffered[o] \in Seq(Trades) /\ b.ledger[o] \in Seq(Marks)
  /\ \A i \in 1 .. Len(b.buffered[o]) : OrderOf(b.buffered[o][i]) = o
  /\ \A i \in 1 .. Len(b.ledger[o]) : OrderOf(b.ledger[o][i].trade) = o

HeldIn(b, o) == Held(b.buffered[o], b.ledger[o])
OnceIn(b, o) == Once(b.buffered[o], b.ledger[o])

LEMMA SoundParts ==
  ASSUME NEW b, Sound(b)
  PROVE  /\ \A o \in Orders : Tidy(b, o)
         /\ b.own \subseteq Placeable
         /\ b.orders \in Partial(Placeable, 0 .. Lots)
         /\ DOMAIN b.orders \subseteq Placeable
         /\ b.awaiting \in Partial(Placeable, Owed) /\ DOMAIN b.awaiting \subseteq b.own
         /\ \A o \in DOMAIN b.awaiting : b.awaiting[o].filled < b.awaiting[o].target
BY BookParts DEF Sound, Tidy

(* A book in parts.                                                        *)
Shaped(b) ==
  /\ b = [own |-> b.own, orders |-> b.orders, buffered |-> b.buffered,
          awaiting |-> b.awaiting, ledger |-> b.ledger]
  /\ b.buffered = [o \in Orders |-> b.buffered[o]]
  /\ b.ledger = [o \in Orders |-> b.ledger[o]]

LEMMA SoundShaped ==
  ASSUME NEW b, Sound(b)
  PROVE  Shaped(b)
BY DEF Sound, Books, Shaped

LEMMA PartsSound ==
  ASSUME NEW b, Shaped(b), \A o \in Orders : Tidy(b, o),
         b.own \subseteq Placeable, b.orders \in Partial(Placeable, 0 .. Lots),
         b.awaiting \in Partial(Placeable, Owed), DOMAIN b.awaiting \subseteq b.own,
         \A o \in DOMAIN b.awaiting : b.awaiting[o].filled < b.awaiting[o].target
  PROVE  Sound(b)
<1>1. b.buffered \in [Orders -> Seq(Trades)] /\ b.ledger \in [Orders -> Seq(Marks)]
  BY DEF Shaped, Tidy
<1>2. b \in Books
  BY <1>1 DEF Shaped, Books, Marks, Owed
<1> QED
  BY <1>2 DEF Sound, Tidy

(* What the ledger of an order gained is marked w.                         *)
MarkedAs(b, c, o, w) ==
  \A i \in 1 .. Len(c.ledger[o]) :
    \/ c.ledger[o][i].owned = w
    \/ i \in 1 .. Len(b.ledger[o]) /\ c.ledger[o][i] = b.ledger[o][i]

LEMMA ShiftRight ==
  ASSUME NEW b, NEW c, NEW S, NEW w \in BOOLEAN, Shifted(b, c, S, w),
         NEW o \in Orders, Tidy(b, o)
  PROVE  /\ Tidy(c, o) /\ HeldIn(c, o) = HeldIn(b, o) /\ (OnceIn(b, o) => OnceIn(c, o))
         /\ o \notin S => c.buffered[o] = b.buffered[o] /\ c.ledger[o] = b.ledger[o]
         /\ o \in S => c.buffered[o] = << >>
         /\ MarkedAs(b, c, o, w)
<1>1. CASE o \notin S
  <2>1. c.buffered[o] = b.buffered[o] /\ c.ledger[o] = b.ledger[o]
    BY <1>1 DEF Shifted
  <2> QED
    BY <1>1, <2>1 DEF Tidy, HeldIn, OnceIn, MarkedAs
<1>2. CASE o \in S
  <2>1. PICK s \in Seq(Trades), l \in Seq(Marks) : s = b.buffered[o] /\ l = b.ledger[o]
    BY DEF Tidy
  <2>2. PICK m : m = l \o Recorded(s, w)
    OBVIOUS
  <2>3. c.buffered[o] = << >> /\ c.ledger[o] = m
    BY <1>2, <2>1, <2>2 DEF Shifted
  <2>4. /\ m \in Seq(Marks) /\ Len(m) = Len(l) + Len(s)
        /\ \A i \in 1 .. Len(l) : m[i] = l[i]
        /\ \A i \in Len(l) + 1 .. Len(m) : m[i].trade = s[i - Len(l)] /\ m[i].owned = w
        /\ Held(<< >>, m) = Held(s, l)
        /\ Once(s, l) => Once(<< >>, m)
    <3>1. LET r == l \o Recorded(s, w) IN
          /\ r \in Seq(Marks) /\ Len(r) = Len(l) + Len(s)
          /\ \A i \in 1 .. Len(l) : r[i] = l[i]
          /\ \A i \in Len(l) + 1 .. Len(r) : r[i].trade = s[i - Len(l)] /\ r[i].owned = w
          /\ Held(<< >>, r) = Held(s, l)
          /\ Once(s, l) => Once(<< >>, r)
      BY MoveHeld
    <3> QED
      BY <2>2, <3>1
  <2>5. Len(l) \in Nat /\ Len(s) \in Nat /\ Len(m) \in Nat
    BY <2>4, LenProperties
  <2>6. ASSUME NEW i \in 1 .. Len(m)
        PROVE  /\ OrderOf(m[i].trade) = o
               /\ \/ m[i].owned = w
                  \/ i \in 1 .. Len(l) /\ m[i] = l[i]
    <3>1. CASE i <= Len(l)
      <4>1. i \in 1 .. Len(l) /\ m[i] = l[i]
        BY <2>4, <2>5, <3>1
      <4> QED
        BY <2>1, <4>1 DEF Tidy
    <3>2. CASE i > Len(l)
      <4>1. i - Len(l) \in 1 .. Len(s) /\ i \in Len(l) + 1 .. Len(m)
        BY <2>4, <2>5, <3>2
      <4>2. OrderOf(s[i - Len(l)]) = o
        BY <2>1, <4>1 DEF Tidy
      <4> QED
        BY <2>4, <4>1, <4>2
    <3> QED
      BY <2>5, <3>1, <3>2
  <2>7. Len(c.buffered[o]) = 0 /\ c.buffered[o] \in Seq(Trades)
    BY <2>3, EmptySeq
  <2>8. Tidy(c, o)
    BY <2>3, <2>4, <2>6, <2>7 DEF Tidy
  <2>9. HeldIn(c, o) = HeldIn(b, o) /\ (OnceIn(b, o) => OnceIn(c, o))
    BY <2>1, <2>3, <2>4 DEF HeldIn, OnceIn
  <2> QED
    BY <1>2, <2>1, <2>3, <2>6, <2>8, <2>9 DEF MarkedAs
<1> QED
  BY <1>1, <1>2

(* replay_pending_trades_for_order.                                        *)
Replayed(b, o) == IF o \in b.own /\ o \in DOMAIN b.orders /\ b.buffered[o] # << >> THEN {o} ELSE {}

LEMMA ReplayRight ==
  ASSUME NEW b, Sound(b), NEW o \in Orders
  PROVE  /\ Sound(Replay(b, o))
         /\ Shifted(b, Replay(b, o), Replayed(b, o), TRUE)
         /\ Replay(b, o).own = b.own /\ Replay(b, o).orders = b.orders
<1>1. Shaped(b) /\ Tidy(b, o)
  BY SoundParts, SoundShaped
<1>2. CASE Replayed(b, o) = {}
  <2>1. Replay(b, o) = b
    BY <1>2 DEF Replay, Replayed
  <2> QED
    BY <1>1, <1>2, <2>1 DEF Shifted, Shaped
<1>3. CASE Replayed(b, o) # {}
  <2>1. o \in b.own /\ o \in DOMAIN b.orders /\ b.buffered[o] # << >> /\ Replayed(b, o) = {o}
    BY <1>3 DEF Replayed
  <2>2. PICK s \in Seq(Trades) : s = b.buffered[o] /\ s # << >>
    BY <1>1, <2>1 DEF Tidy
  <2>3. Len(s) \in Nat \ {0}
    BY <2>2, EmptySeq
  <2>4. PICK e : e = [b EXCEPT !.buffered[o] = << >>]
    OBVIOUS
  <2>5. /\ e.own = b.own /\ e.orders = b.orders /\ e.awaiting = b.awaiting /\ e.ledger = b.ledger
        /\ e.buffered = [b.buffered EXCEPT ![o] = << >>]
    BY <1>1, <2>4 DEF Shaped
  <2>6. AfterFills(e, o, Len(s)) = AfterFills(b, o, Len(s))
    BY <2>5 DEF AfterFills, Owes, Target
  <2>7. PICK aw : aw = AfterFills(b, o, Len(s))
    OBVIOUS
  <2>8. /\ aw \in Partial(Placeable, Owed) /\ DOMAIN aw \subseteq DOMAIN b.awaiting \cup {o}
        /\ \A p \in DOMAIN aw : aw[p].filled < aw[p].target
    BY <2>1, <2>3, <2>7, AfterFillsRight
  <2>9. PICK c : c = Replay(b, o)
    OBVIOUS
  <2>10. c = [e EXCEPT !.ledger[o] = @ \o Recorded(s, TRUE), !.awaiting = aw]
    BY <2>1, <2>2, <2>4, <2>6, <2>7, <2>9 DEF Replay, ApplyTrades
  <2>11. e = [own |-> e.own, orders |-> e.orders, buffered |-> e.buffered,
              awaiting |-> e.awaiting, ledger |-> e.ledger]
    BY <1>1, <2>4 DEF Shaped
  <2>12. /\ c = [own |-> c.own, orders |-> c.orders, buffered |-> c.buffered,
                 awaiting |-> c.awaiting, ledger |-> c.ledger]
         /\ c.own = b.own /\ c.orders = b.orders /\ c.awaiting = aw
         /\ c.buffered = [b.buffered EXCEPT ![o] = << >>]
         /\ c.ledger = [b.ledger EXCEPT ![o] = @ \o Recorded(s, TRUE)]
    BY <2>5, <2>10, <2>11
  <2>13. Shifted(b, c, {o}, TRUE)
    BY <1>1, <2>2, <2>12 DEF Shifted, Shaped
  <2>14. Shaped(c)
    BY <2>12, <2>13 DEF Shaped, Shifted
  <2>15. \A p \in Orders : Tidy(c, p)
    BY <2>13, SoundParts, ShiftRight
  <2>16. Sound(c)
    BY <2>1, <2>8, <2>12, <2>14, <2>15, SoundParts, PartsSound
  <2> QED
    BY <2>1, <2>9, <2>12, <2>13, <2>16
<1> QED
  BY <1>2, <1>3

(* flush_unmatched_pre_ack_trades.                                         *)
Flushed(b, left) == IF left # {} THEN {} ELSE Unmatched(b)

LEMMA WaitingIsPlaceable ==
  ASSUME NEW b, Sound(b), NEW o \in Orders, b.buffered[o] # << >>,
         executed \in Seq([order : Placeable, ts : 0 .. clock])
  PROVE  o \in Placeable
<1>1. PICK s \in Seq(Trades) : s = b.buffered[o] /\ s # << >>
  BY SoundParts DEF Tidy
<1>2. 1 \in 1 .. Len(s) /\ s[1] \in Trades
  BY <1>1, EmptySeq
<1>3. OrderOf(s[1]) = o
  BY <1>1, <1>2, SoundParts DEF Tidy
<1>4. executed[s[1]] \in [order : Placeable, ts : 0 .. clock]
  BY <1>2, ElementOfSeq DEF Trades
<1> QED
  BY <1>3, <1>4 DEF OrderOf

LEMMA FlushRight ==
  ASSUME NEW b, Sound(b), NEW left, executed \in Seq([order : Placeable, ts : 0 .. clock])
  PROVE  /\ Sound(FlushUnmatched(b, left))
         /\ Shifted(b, FlushUnmatched(b, left), Flushed(b, left), FALSE)
         /\ FlushUnmatched(b, left).own = b.own \cup Flushed(b, left)
         /\ FlushUnmatched(b, left).orders = b.orders
<1>1. Shaped(b)
  BY SoundShaped
<1>2. CASE left # {}
  <2>1. FlushUnmatched(b, left) = b /\ Flushed(b, left) = {}
    BY <1>2 DEF FlushUnmatched, Flushed
  <2> QED
    BY <1>1, <2>1 DEF Shifted, Shaped
<1>3. CASE left = {}
  <2>1. PICK c, S : c = Flush(b, S) /\ S = Unmatched(b)
    OBVIOUS
  <2>2. FlushUnmatched(b, left) = c /\ Flushed(b, left) = S
    BY <1>3, <2>1 DEF FlushUnmatched, Flushed
  <2>3. /\ c = [own |-> c.own, orders |-> c.orders, buffered |-> c.buffered,
                awaiting |-> c.awaiting, ledger |-> c.ledger]
        /\ c.own = b.own \cup S /\ c.orders = b.orders /\ c.awaiting = b.awaiting
        /\ Shifted(b, c, S, FALSE)
    BY <1>1, <2>1 DEF Flush, Shaped, Shifted
  <2>4. Shaped(c)
    BY <2>3 DEF Shaped, Shifted
  <2>5. S \subseteq Placeable
    BY <2>1, WaitingIsPlaceable DEF Unmatched
  <2>6. \A p \in Orders : Tidy(c, p)
    BY <2>3, SoundParts, ShiftRight
  <2>7. Sound(c)
    <3>1. b.own \subseteq Placeable /\ DOMAIN b.awaiting \subseteq b.own
      BY SoundParts
    <3>2. c.own \subseteq Placeable /\ DOMAIN c.awaiting \subseteq c.own
      BY <2>3, <2>5, <3>1
    <3> QED
      BY <2>3, <2>4, <2>6, <3>2, SoundParts, PartsSound
  <2> QED
    BY <2>2, <2>3, <2>7
<1> QED
  BY <1>2, <1>3

(* A fresh trade is booked: it waits, or is recorded as w.                 *)
Waits(b, c, k) ==
  /\ c.buffered = [b.buffered EXCEPT ![OrderOf(k)] = Append(@, k)]
  /\ c.ledger = b.ledger

Records(b, c, k, w) ==
  /\ c.buffered = b.buffered
  /\ c.ledger = [b.ledger EXCEPT ![OrderOf(k)] = @ \o Recorded(<<k>>, w)]

Gains(b, c, k) == Waits(b, c, k) \/ \E w \in BOOLEAN : Records(b, c, k, w)

LEMMA GainOthers ==
  ASSUME NEW b, Sound(b), NEW c, NEW k \in Trades, Gains(b, c, k),
         NEW o \in Orders, o # OrderOf(k)
  PROVE  c.buffered[o] = b.buffered[o] /\ c.ledger[o] = b.ledger[o]
BY SoundShaped DEF Gains, Waits, Records, Shaped

LEMMA WaitRight ==
  ASSUME NEW b, Sound(b), NEW c, NEW k \in Trades, Waits(b, c, k),
         NEW o \in Orders, o = OrderOf(k)
  PROVE  /\ Tidy(c, o) /\ HeldIn(c, o) = HeldIn(b, o) \cup {k}
         /\ OnceIn(b, o) /\ k \notin HeldIn(b, o) => OnceIn(c, o)
<1>1. PICK s \in Seq(Trades), l \in Seq(Marks) : s = b.buffered[o] /\ l = b.ledger[o]
  BY SoundParts DEF Tidy
<1>2. PICK t \in Seq(Trades) : t = Append(s, k)
  <2>1. Append(s, k) \in Seq(Trades)
    BY AppendProperties
  <2> QED
    BY <2>1
<1>3. Len(t) = Len(s) + 1 /\ t[Len(s) + 1] = k /\ \A i \in 1 .. Len(s) : t[i] = s[i]
  BY <1>2, AppendProperties
<1>4. Len(s) \in Nat /\ Len(t) \in Nat
  BY LenProperties
<1>5. c.buffered[o] = t /\ c.ledger[o] = l
  BY <1>1, <1>2, SoundShaped DEF Waits, Shaped
<1>6. \A i \in 1 .. Len(t) : OrderOf(t[i]) = o
  <2> SUFFICES ASSUME NEW i \in 1 .. Len(t) PROVE OrderOf(t[i]) = o
    OBVIOUS
  <2>1. CASE i = Len(s) + 1
    BY <1>3, <2>1
  <2>2. CASE i # Len(s) + 1
    <3>1. i \in 1 .. Len(s)
      BY <1>3, <1>4, <2>2
    <3> QED
      BY <1>1, <1>3, <3>1, SoundParts DEF Tidy
  <2> QED
    BY <2>1, <2>2
<1>7. Tidy(c, o)
  BY <1>1, <1>5, <1>6, SoundParts DEF Tidy
<1> QED
  BY <1>1, <1>2, <1>5, <1>7, BufferHeld DEF HeldIn, OnceIn

LEMMA RecordRight ==
  ASSUME NEW b, Sound(b), NEW c, NEW k \in Trades, NEW w \in BOOLEAN, Records(b, c, k, w),
         NEW o \in Orders, o = OrderOf(k)
  PROVE  /\ Tidy(c, o) /\ HeldIn(c, o) = HeldIn(b, o) \cup {k}
         /\ OnceIn(b, o) /\ k \notin HeldIn(b, o) => OnceIn(c, o)
         /\ MarkedAs(b, c, o, w)
<1>1. PICK s \in Seq(Trades), l \in Seq(Marks) : s = b.buffered[o] /\ l = b.ledger[o]
  BY SoundParts DEF Tidy
<1>2. PICK m : m = l \o Recorded(<<k>>, w)
  OBVIOUS
<1>3. /\ m \in Seq(Marks) /\ Len(m) = Len(l) + 1
      /\ \A i \in 1 .. Len(l) : m[i] = l[i]
      /\ m[Len(l) + 1].trade = k /\ m[Len(l) + 1].owned = w
      /\ Held(s, m) = Held(s, l) \cup {k}
      /\ Once(s, l) /\ k \notin Held(s, l) => Once(s, m)
  <2>1. LET r == l \o Recorded(<<k>>, w) IN
        /\ r \in Seq(Marks) /\ Len(r) = Len(l) + 1
        /\ \A i \in 1 .. Len(l) : r[i] = l[i]
        /\ r[Len(l) + 1].trade = k /\ r[Len(l) + 1].owned = w
        /\ Held(s, r) = Held(s, l) \cup {k}
        /\ Once(s, l) /\ k \notin Held(s, l) => Once(s, r)
    BY RecordHeld
  <2> QED
    BY <1>2, <2>1
<1>4. Len(l) \in Nat /\ Len(m) \in Nat
  BY <1>3, LenProperties
<1>5. c.buffered[o] = s /\ c.ledger[o] = m
  BY <1>1, <1>2, SoundShaped DEF Records, Shaped
<1>6. ASSUME NEW i \in 1 .. Len(m)
      PROVE  /\ OrderOf(m[i].trade) = o
             /\ \/ m[i].owned = w
                \/ i \in 1 .. Len(l) /\ m[i] = l[i]
  <2>1. CASE i = Len(l) + 1
    BY <1>3, <2>1
  <2>2. CASE i # Len(l) + 1
    <3>1. i \in 1 .. Len(l) /\ m[i] = l[i]
      BY <1>3, <1>4, <2>2
    <3> QED
      BY <1>1, <3>1, SoundParts DEF Tidy
  <2> QED
    BY <2>1, <2>2
<1>7. Tidy(c, o)
  BY <1>1, <1>3, <1>5, <1>6, SoundParts DEF Tidy
<1> QED
  BY <1>1, <1>3, <1>5, <1>6, <1>7 DEF HeldIn, OnceIn, MarkedAs

LEMMA GainRight ==
  ASSUME NEW b, Sound(b), NEW c, NEW k \in Trades, OrderOf(k) \in Orders, Gains(b, c, k),
         NEW o \in Orders
  PROVE  /\ Tidy(c, o)
         /\ HeldIn(c, o) = IF o = OrderOf(k) THEN HeldIn(b, o) \cup {k} ELSE HeldIn(b, o)
         /\ OnceIn(b, o) /\ k \notin HeldIn(b, o) => OnceIn(c, o)
<1>1. CASE o # OrderOf(k)
  <2>1. c.buffered[o] = b.buffered[o] /\ c.ledger[o] = b.ledger[o] /\ Tidy(b, o)
    BY <1>1, GainOthers, SoundParts
  <2> QED
    BY <1>1, <2>1 DEF Tidy, HeldIn, OnceIn
<1>2. CASE o = OrderOf(k)
  BY <1>2, WaitRight, RecordRight DEF Gains
<1> QED
  BY <1>1, <1>2

(* The books after a fresh trade, an acknowledged number, an order event.  *)
LEMMA BufferBook ==
  ASSUME NEW b, Sound(b), NEW k \in Trades, OrderOf(k) \in Orders,
         NEW c, c = [b EXCEPT !.buffered[OrderOf(k)] = Append(@, k)]
  PROVE  Sound(c) /\ Waits(b, c, k) /\ c.own = b.own /\ c.orders = b.orders
<1>1. Shaped(b)
  BY SoundShaped
<1>2. /\ c = [own |-> c.own, orders |-> c.orders, buffered |-> c.buffered,
              awaiting |-> c.awaiting, ledger |-> c.ledger]
      /\ c.own = b.own /\ c.orders = b.orders /\ c.awaiting = b.awaiting
      /\ Waits(b, c, k)
  BY <1>1 DEF Shaped, Waits
<1>3. Shaped(c)
  BY <1>1, <1>2 DEF Shaped, Waits
<1>4. \A o \in Orders : Tidy(c, o)
  BY <1>2, GainRight DEF Gains
<1> QED
  BY <1>2, <1>3, <1>4, SoundParts, PartsSound

LEMMA OrphanBook ==
  ASSUME NEW b, Sound(b), NEW k \in Trades, OrderOf(k) \in Placeable, OrderOf(k) \in Orders,
         NEW c, c = [b EXCEPT !.own = @ \cup {OrderOf(k)},
                              !.ledger[OrderOf(k)] = @ \o Recorded(<<k>>, FALSE)]
  PROVE  Sound(c) /\ Records(b, c, k, FALSE) /\ c.own = b.own \cup {OrderOf(k)} /\ c.orders = b.orders
<1>1. Shaped(b)
  BY SoundShaped
<1>2. /\ c = [own |-> c.own, orders |-> c.orders, buffered |-> c.buffered,
              awaiting |-> c.awaiting, ledger |-> c.ledger]
      /\ c.own = b.own \cup {OrderOf(k)} /\ c.orders = b.orders /\ c.awaiting = b.awaiting
      /\ Records(b, c, k, FALSE)
  BY <1>1 DEF Shaped, Records
<1>3. Shaped(c)
  BY <1>1, <1>2 DEF Shaped, Records
<1>4. \A o \in Orders : Tidy(c, o)
  BY <1>2, GainRight DEF Gains
<1>5. c.own \subseteq Placeable /\ DOMAIN c.awaiting \subseteq c.own
  BY <1>2, SoundParts
<1> QED
  BY <1>2, <1>3, <1>4, <1>5, SoundParts, PartsSound

LEMMA RecordBook ==
  ASSUME NEW b, Sound(b), NEW k \in Trades, OrderOf(k) \in Orders,
         OrderOf(k) \in b.own, OrderOf(k) \in DOMAIN b.orders,
         NEW c, c = ApplyTrades(b, OrderOf(k), <<k>>)
  PROVE  Sound(c) /\ Records(b, c, k, TRUE) /\ c.own = b.own /\ c.orders = b.orders
<1>1. Shaped(b)
  BY SoundShaped
<1>2. PICK aw : aw = AfterFills(b, OrderOf(k), 1)
  OBVIOUS
<1>3. /\ aw \in Partial(Placeable, Owed) /\ DOMAIN aw \subseteq DOMAIN b.awaiting \cup {OrderOf(k)}
      /\ \A p \in DOMAIN aw : aw[p].filled < aw[p].target
  BY <1>2, AfterFillsRight
<1>4. Len(<<k>>) = 1
  OBVIOUS
<1>5. c = [b EXCEPT !.ledger[OrderOf(k)] = @ \o Recorded(<<k>>, TRUE), !.awaiting = aw]
  BY <1>2, <1>4 DEF ApplyTrades
<1>6. /\ c = [own |-> c.own, orders |-> c.orders, buffered |-> c.buffered,
              awaiting |-> c.awaiting, ledger |-> c.ledger]
      /\ c.own = b.own /\ c.orders = b.orders /\ c.awaiting = aw
      /\ Records(b, c, k, TRUE)
  BY <1>1, <1>5 DEF Shaped, Records
<1>7. Shaped(c)
  BY <1>1, <1>6 DEF Shaped, Records
<1>8. \A o \in Orders : Tidy(c, o)
  BY <1>6, GainRight DEF Gains
<1>9. DOMAIN c.awaiting \subseteq c.own /\ c.own \subseteq Placeable
  BY <1>3, <1>6, SoundParts
<1> QED
  BY <1>3, <1>6, <1>7, <1>8, <1>9, SoundParts, PartsSound

(* Only own, orders or awaiting differ.                                    *)
SameTrades(b, c) == c.buffered = b.buffered /\ c.ledger = b.ledger

LEMMA SameTidy ==
  ASSUME NEW b, Sound(b), NEW c, SameTrades(b, c), NEW o \in Orders
  PROVE  Tidy(c, o) /\ HeldIn(c, o) = HeldIn(b, o) /\ (OnceIn(c, o) <=> OnceIn(b, o))
BY SoundParts DEF SameTrades, Tidy, HeldIn, OnceIn

LEMMA NamedBook ==
  ASSUME NEW b, Sound(b), NEW o \in Placeable, NEW c, c = [b EXCEPT !.own = @ \cup {o}]
  PROVE  Sound(c) /\ SameTrades(b, c) /\ c.own = b.own \cup {o} /\ c.orders = b.orders
<1>1. Shaped(b)
  BY SoundShaped
<1>2. /\ c = [own |-> c.own, orders |-> c.orders, buffered |-> c.buffered,
              awaiting |-> c.awaiting, ledger |-> c.ledger]
      /\ c.own = b.own \cup {o} /\ c.orders = b.orders /\ c.awaiting = b.awaiting
      /\ SameTrades(b, c)
  BY <1>1 DEF Shaped, SameTrades
<1>3. Shaped(c)
  BY <1>1, <1>2 DEF Shaped, SameTrades
<1>4. \A p \in Orders : Tidy(c, p)
  BY <1>2, SameTidy
<1>5. c.own \subseteq Placeable /\ DOMAIN c.awaiting \subseteq c.own
  BY <1>2, SoundParts
<1> QED
  BY <1>2, <1>3, <1>4, <1>5, SoundParts, PartsSound

LEMMA EventBook ==
  ASSUME NEW b, Sound(b), NEW m \in [order : Placeable, filled : 0 .. Lots, existing : BOOLEAN],
         NEW c, c = [Settle(b, m) EXCEPT !.orders = Set(@, m.order, m.filled)]
  PROVE  /\ Sound(c) /\ SameTrades(b, c) /\ c.own = b.own
         /\ DOMAIN c.orders = DOMAIN b.orders \cup {m.order}
<1>1. Shaped(b) /\ m.order \in Placeable /\ m.filled \in 0 .. Lots
  BY SoundShaped
<1>2. PICK o, f : o = m.order /\ f = m.filled /\ o \in Placeable /\ f \in 0 .. Lots
  BY <1>1
<1>3. PICK aw : /\ aw = Settle(b, m).awaiting
                /\ Settle(b, m) = [b EXCEPT !.awaiting = aw]
                /\ aw \in Partial(Placeable, Owed) /\ DOMAIN aw \subseteq b.own
                /\ \A p \in DOMAIN aw : aw[p].filled < aw[p].target
  <2>1. PICK old \in Partial(Placeable, Owed) :
          /\ old = b.awaiting /\ DOMAIN old \subseteq b.own
          /\ \A p \in DOMAIN old : old[p] \in Owed /\ old[p].filled < old[p].target
    BY SoundParts, PartialParts
  <2>2. CASE Settle(b, m) = b
    <3>1. b = [b EXCEPT !.awaiting = old]
      BY <1>1, <2>1 DEF Shaped
    <3> QED
      BY <2>1, <2>2, <3>1
  <2>3. CASE Settle(b, m) # b
    <3>1. PICK paid : paid = IF o \in DOMAIN old THEN old[o].filled ELSE 0
      OBVIOUS
    <3>2. paid \in 0 .. Lots /\ paid < Lots
      BY <2>1, <3>1, ConstantParts DEF Owed
    <3>3. o \in b.own /\ Settle(b, m) = [b EXCEPT !.awaiting = Set(old, o, [target |-> Lots, filled |-> paid])]
      BY <1>2, <2>1, <2>3, <3>1 DEF Settle
    <3>4. PICK v \in Owed : v = [target |-> Lots, filled |-> paid] /\ v.filled < v.target
      <4>1. Lots \in 1 .. Lots
        BY ConstantParts
      <4>2. [target |-> Lots, filled |-> paid] \in Owed
        BY <3>2, <4>1 DEF Owed
      <4> QED
        BY <3>2, <4>2
    <3>5. /\ Set(old, o, v) \in Partial(Placeable, Owed)
          /\ DOMAIN Set(old, o, v) = DOMAIN old \cup {o} /\ Set(old, o, v)[o] = v
          /\ \A y \in DOMAIN old : y # o => Set(old, o, v)[y] = old[y]
      <4>1. o \in Placeable
        BY <1>2
      <4> QED
        BY <4>1, SetPartial
    <3>6. \A p \in DOMAIN Set(old, o, v) : Set(old, o, v)[p].filled < Set(old, o, v)[p].target
      BY <2>1, <3>4, <3>5
    <3>7. Settle(b, m).awaiting = Set(old, o, v)
      BY <1>1, <3>3, <3>4 DEF Shaped
    <3> QED
      BY <2>1, <3>3, <3>4, <3>5, <3>6, <3>7
  <2> QED
    BY <2>2, <2>3
<1>4. PICK ord : /\ ord = Set(b.orders, o, f) /\ ord \in Partial(Placeable, 0 .. Lots)
                 /\ DOMAIN ord = DOMAIN b.orders \cup {o}
  <2>1. b.orders \in Partial(Placeable, 0 .. Lots) /\ o \in Placeable /\ f \in 0 .. Lots
    BY <1>2, SoundParts
  <2>2. DOMAIN b.orders \subseteq Placeable /\ \A p \in DOMAIN b.orders : b.orders[p] \in 0 .. Lots
    BY <2>1, PartialParts
  <2>3. Set(b.orders, o, f) \in [DOMAIN b.orders \cup {o} -> 0 .. Lots]
    BY <1>2, <2>2 DEF Set
  <2>4. DOMAIN b.orders \cup {o} \in SUBSET Placeable
    BY <1>2, <2>2
  <2>5. Set(b.orders, o, f) \in Partial(Placeable, 0 .. Lots)
    BY <2>3, <2>4 DEF Partial
  <2> QED
    BY <2>3, <2>5
<1>5. PICK e : e = [b EXCEPT !.awaiting = aw]
  OBVIOUS
<1>6. /\ e = [own |-> e.own, orders |-> e.orders, buffered |-> e.buffered,
              awaiting |-> e.awaiting, ledger |-> e.ledger]
      /\ e.own = b.own /\ e.orders = b.orders /\ e.awaiting = aw /\ SameTrades(b, e)
  BY <1>1, <1>5 DEF Shaped, SameTrades
<1>7. c = [e EXCEPT !.orders = ord]
  BY <1>2, <1>3, <1>4, <1>5, <1>6
<1>8. /\ c = [own |-> c.own, orders |-> c.orders, buffered |-> c.buffered,
              awaiting |-> c.awaiting, ledger |-> c.ledger]
      /\ c.own = b.own /\ c.orders = ord /\ c.awaiting = aw /\ SameTrades(b, c)
  BY <1>6, <1>7 DEF SameTrades
<1>9. Shaped(c)
  BY <1>1, <1>8 DEF Shaped, SameTrades
<1>10. \A p \in Orders : Tidy(c, p)
  BY <1>8, SameTidy
<1> QED
  BY <1>2, <1>3, <1>4, <1>8, <1>9, <1>10, SoundParts, PartsSound

-----------------------------------------------------------------------------
(* Which actions change what.                                              *)
LEMMA StepParts ==
  ASSUME [Next]_vars
  PROVE  /\ \/ UNCHANGED broker
            \/ (\E o \in Orders : Fill(o)) \/ Tick \/ (\E o \in Own, n \in Own \cup {NoNumber} : n \in {o, NoNumber} /\ Answer(o, n))
            \/ Forward \/ (\E k \in 0 .. Len(executed) : Resubscribe(k)) \/ (\E o \in Own : Emit(o))
         /\ \/ UNCHANGED queues
            \/ (\E o \in Own, n \in Own \cup {NoNumber} : n \in {o, NoNumber} /\ Answer(o, n))
            \/ (\E o \in Orders, existing \in BOOLEAN : Report(o, existing)) \/ Forward
            \/ HandleAck \/ HandleOrder \/ (DropTrade \/ FreshTrade) \/ Restart
         /\ UNCHANGED requests \/ (\E o \in Own : Emit(o)) \/ HandleAck \/ Restart
         /\ UNCHANGED book \/ HandleAck \/ HandleOrder \/ BufferTrade \/ OrphanTrade \/ RecordTrade \/ Restart
         /\ UNCHANGED dedup \/ BufferTrade \/ OrphanTrade \/ RecordTrade \/ Restart
         /\ UNCHANGED saved \/ Persist \/ Restart
         /\ UNCHANGED unnamed \/ HandleAck \/ Restart
         /\ \/ UNCHANGED counters \/ (\E o \in Orders, existing \in BOOLEAN : Report(o, existing))
            \/ (\E k \in 0 .. Len(executed) : Resubscribe(k)) \/ Restart
<1> USE DEF vars, broker, queues, dedup, counters
<1>1. CASE \E o \in Orders : Fill(o)
  BY <1>1 DEF Fill
<1>2. CASE Tick
  BY <1>2 DEF Tick
<1>3. CASE \E o \in Own, n \in Own \cup {NoNumber} : n \in {o, NoNumber} /\ Answer(o, n)
  BY <1>3 DEF Answer
<1>4. CASE \E o \in Orders, existing \in BOOLEAN : Report(o, existing)
  BY <1>4 DEF Report
<1>5. CASE Forward
  BY <1>5 DEF Forward
<1>6. CASE \E k \in 0 .. Len(executed) : Resubscribe(k)
  BY <1>6 DEF Resubscribe
<1>7. CASE \E o \in Own : Emit(o)
  BY <1>7 DEF Emit
<1>8. CASE Timer
  BY <1>8 DEF Timer
<1>9. CASE HandleAck
  BY <1>9 DEF HandleAck
<1>10. CASE HandleOrder
  BY <1>10 DEF HandleOrder
<1>11. CASE HandleTrade
  <2>1. CASE DropTrade
    BY <2>1 DEF DropTrade, ConsumeTrade
  <2>2. CASE BufferTrade
    BY <2>2 DEF BufferTrade, FreshTrade, ConsumeTrade
  <2>3. CASE OrphanTrade
    BY <2>3 DEF OrphanTrade, FreshTrade, ConsumeTrade
  <2>4. CASE RecordTrade
    BY <2>4 DEF RecordTrade, FreshTrade, ConsumeTrade
  <2> QED
    BY <1>11, <2>1, <2>2, <2>3, <2>4 DEF HandleTrade
<1>12. CASE Restart
  BY <1>12 DEF Restart
<1>13. CASE UNCHANGED vars
  BY <1>13
<1> HIDE DEF vars, broker, queues, dedup, counters
<1> QED
  BY <1>1, <1>2, <1>3, <1>4, <1>5, <1>6, <1>7, <1>8, <1>9, <1>10, <1>11, <1>12, <1>13
     DEF Next, Environment, Runtime

-----------------------------------------------------------------------------
(* The broker.                                                             *)
Execution == [order : Placeable, ts : 0 .. clock]

BrokerTyped ==
  /\ placed \subseteq Own
  /\ answered \subseteq placed
  /\ executed \in Seq(Execution)
  /\ forwarded \in 0 .. Len(executed)
  /\ clock \in 0 .. MaxTime

Grown ==
  /\ placed \subseteq placed' /\ answered \subseteq answered' /\ clock <= clock'
  /\ Len(executed) <= Len(executed')
  /\ \A k \in 1 .. Len(executed) : executed'[k] = executed[k]

LEMMA BrokerParts ==
  ASSUME BrokerTyped
  PROVE  /\ Len(executed) \in Nat /\ clock \in Nat /\ forwarded \in Nat /\ Placeable \subseteq Orders
         /\ \A k \in Trades : /\ k \in Nat /\ executed[k] \in Execution
                              /\ OrderOf(k) \in Placeable /\ TsOf(k) \in 0 .. clock
<1>1. Len(executed) \in Nat /\ \A k \in Trades : executed[k] \in Execution
  BY LenProperties, ElementOfSeq DEF BrokerTyped, Trades
<1>2. \A k \in Trades : OrderOf(k) \in Placeable /\ TsOf(k) \in 0 .. clock
  BY <1>1 DEF OrderOf, TsOf, Execution
<1> QED
  BY <1>1, <1>2, ConstantParts DEF Trades, BrokerTyped, Placeable, Orders

LEMMA FillRight ==
  ASSUME BrokerTyped, NEW o \in Orders, Fill(o)
  PROVE  /\ executed' \in Seq(Execution) /\ Len(executed') = Len(executed) + 1
         /\ executed'[Len(executed) + 1] = [order |-> o, ts |-> clock]
         /\ \A k \in 1 .. Len(executed) : executed'[k] = executed[k]
<1>1. clock \in 0 .. clock /\ o \in Placeable
  BY BrokerParts DEF Fill, Placeable
<1>2. PICK e \in Execution : e = [order |-> o, ts |-> clock]
  BY <1>1 DEF Execution
<1>3. executed \in Seq(Execution) /\ executed' = Append(executed, e)
  BY <1>2 DEF BrokerTyped, Fill
<1> QED
  BY <1>2, <1>3, AppendProperties

LEMMA BrokerStep ==
  ASSUME BrokerTyped, [Next]_vars
  PROVE  BrokerTyped' /\ Grown
<1>1. CASE UNCHANGED broker
  BY <1>1, BrokerParts DEF broker, BrokerTyped, Grown, Execution, Placeable
<1>2. ASSUME NEW o \in Orders, Fill(o) PROVE BrokerTyped' /\ Grown
  <2>1. Execution' = Execution
    BY <1>2 DEF Fill, Execution, Placeable
  <2>2. UNCHANGED <<placed, answered, forwarded, clock>>
    BY <1>2 DEF Fill
  <2>3. /\ executed' \in Seq(Execution) /\ Len(executed') = Len(executed) + 1
        /\ \A k \in 1 .. Len(executed) : executed'[k] = executed[k]
    BY <1>2, FillRight
  <2> QED
    BY <2>1, <2>2, <2>3, BrokerParts DEF BrokerTyped, Grown
<1>3. CASE Tick
  <2>1. UNCHANGED <<placed, answered, executed, forwarded>> /\ clock' = clock + 1 /\ clock' \in 0 .. MaxTime
    BY <1>3, ConstantParts DEF Tick, BrokerTyped
  <2>2. Execution \subseteq Execution'
    BY <2>1, BrokerParts DEF Execution, Placeable
  <2>3. executed \in Seq(Execution')
    BY <2>2, SeqMonotonic DEF BrokerTyped
  <2> QED
    BY <2>1, <2>3, BrokerParts DEF BrokerTyped, Grown
<1>4. ASSUME NEW o \in Own, NEW n, Answer(o, n) PROVE BrokerTyped' /\ Grown
  BY <1>4, BrokerParts DEF Answer, BrokerTyped, Grown, Execution, Placeable
<1>5. CASE Forward
  BY <1>5, BrokerParts DEF Forward, BrokerTyped, Grown, Execution, Placeable
<1>6. ASSUME NEW k \in 0 .. Len(executed), Resubscribe(k) PROVE BrokerTyped' /\ Grown
  BY <1>6, BrokerParts DEF Resubscribe, BrokerTyped, Grown, Execution, Placeable
<1>7. ASSUME NEW o \in Own, Emit(o) PROVE BrokerTyped' /\ Grown
  <2>1. UNCHANGED <<answered, executed, forwarded, clock>> /\ placed' = placed \cup {o}
    BY <1>7 DEF Emit
  <2>2. Execution \subseteq Execution'
    BY <2>1 DEF Execution, Placeable
  <2>3. executed \in Seq(Execution')
    BY <2>2, SeqMonotonic DEF BrokerTyped
  <2> QED
    BY <2>1, <2>3, BrokerParts DEF BrokerTyped, Grown
<1> QED
  BY <1>1, <1>2, <1>3, <1>4, <1>5, <1>6, <1>7, StepParts

LEMMA Grows ==
  ASSUME BrokerTyped, BrokerTyped', Grown
  PROVE  /\ Placeable \subseteq Placeable' /\ Trades \subseteq Trades' /\ Marks \subseteq Marks'
         /\ \A k \in Trades : OrderOf(k)' = OrderOf(k) /\ TsOf(k)' = TsOf(k)
<1>1. Len(executed) \in Nat /\ Len(executed') \in Nat /\ Len(executed) <= Len(executed')
  BY BrokerParts, LenProperties DEF Grown, BrokerTyped
<1>2. Trades \subseteq Trades'
  BY <1>1 DEF Trades
<1> QED
  BY <1>1, <1>2 DEF Grown, Placeable, Trades, Marks, OrderOf, TsOf

LEMMA SoundGrows ==
  ASSUME BrokerTyped, BrokerTyped', Grown, NEW c, Sound(c)
  PROVE  Sound(c)'
<1>1. /\ Placeable \subseteq Placeable' /\ Trades \subseteq Trades' /\ Marks \subseteq Marks'
      /\ \A k \in Trades : OrderOf(k)' = OrderOf(k)
  BY Grows
<1>2. Shaped(c)
  BY SoundShaped
<1>3. \A o \in Orders : Tidy(c, o)'
  <2> SUFFICES ASSUME NEW o \in Orders PROVE Tidy(c, o)'
    OBVIOUS
  <2>1. PICK s \in Seq(Trades), l \in Seq(Marks) : s = c.buffered[o] /\ l = c.ledger[o]
    BY SoundParts DEF Tidy
  <2>2. s \in Seq(Trades') /\ l \in Seq(Marks')
    BY <1>1, SeqMonotonic
  <2>3. /\ \A i \in 1 .. Len(s) : s[i] \in Trades /\ OrderOf(s[i]) = o
        /\ \A i \in 1 .. Len(l) : l[i] \in Marks /\ OrderOf(l[i].trade) = o
    BY <2>1, SoundParts, ElementOfSeq DEF Tidy
  <2>4. \A i \in 1 .. Len(l) : l[i].trade \in Trades
    BY <2>3 DEF Marks
  <2> QED
    BY <1>1, <2>1, <2>2, <2>3, <2>4 DEF Tidy
<1>4. c.orders \in Partial(Placeable', 0 .. Lots) /\ c.awaiting \in Partial(Placeable', Owed)
  BY <1>1, SoundParts, PartialGrows
<1>5. c.own \subseteq Placeable' /\ DOMAIN c.awaiting \subseteq c.own
  BY <1>1, SoundParts
<1>6. \A o \in DOMAIN c.awaiting : c.awaiting[o].filled < c.awaiting[o].target
  BY SoundParts
<1>7. c.buffered \in [Orders -> Seq(Trades')] /\ c.ledger \in [Orders -> Seq(Marks')]
  BY <1>2, <1>3 DEF Shaped, Tidy
<1>8. c \in Books'
  BY <1>2, <1>4, <1>5, <1>7 DEF Shaped, Books, Marks, Owed, Partial
<1> QED
  BY <1>3, <1>5, <1>6, <1>8 DEF Sound, Tidy

(* No order is filled beyond its lots, no second holds more trades than    *)
(* the deduplication window, and trades are made in order of time.         *)
At(t) == {k \in Trades : TsOf(k) = t}
Of(o) == {k \in Trades : OrderOf(k) = o}

ExecutedRight ==
  /\ \A o \in Orders : Cardinality(Of(o)) <= Lots
  /\ \A t \in 0 .. MaxTime : Cardinality(At(t)) <= PerTick
  /\ \A i, j \in Trades : i <= j => TsOf(i) <= TsOf(j)

LEMMA TradesFinite ==
  ASSUME BrokerTyped
  PROVE  /\ \A o : IsFiniteSet(Of(o)) /\ Cardinality(Of(o)) \in Nat
         /\ \A t : IsFiniteSet(At(t)) /\ Cardinality(At(t)) \in Nat
<1>1. IsFiniteSet(Trades)
  BY BrokerParts, FS_Interval DEF Trades
<1>2. ASSUME NEW S \in SUBSET Trades PROVE IsFiniteSet(S) /\ Cardinality(S) \in Nat
  BY <1>1, FS_Subset, FS_CardinalityType
<1> QED
  BY <1>2 DEF Of, At

LEMMA FilledTyped ==
  ASSUME BrokerTyped, ExecutedRight, NEW o \in Orders
  PROVE  FilledAtBroker(o) = Cardinality(Of(o)) /\ FilledAtBroker(o) \in 0 .. Lots
BY SMTT(30), TradesFinite, ConstantParts DEF ExecutedRight, FilledAtBroker, Of, Trades

LEMMA ExecutedStep ==
  ASSUME BrokerTyped, ExecutedRight, [Next]_vars
  PROVE  ExecutedRight'
<1>1. CASE executed' = executed
  BY <1>1 DEF ExecutedRight, At, Of, Trades, OrderOf, TsOf
<1>2. ASSUME NEW o \in Orders, Fill(o) PROVE ExecutedRight'
  <2>1. PICK n \in Nat : n = Len(executed)
    BY BrokerParts
  <2>2. /\ Trades' = Trades \cup {n + 1} /\ n + 1 \notin Trades
        /\ OrderOf(n + 1)' = o /\ TsOf(n + 1)' = clock
        /\ \A k \in Trades : OrderOf(k)' = OrderOf(k) /\ TsOf(k)' = TsOf(k)
    <3>1. /\ Len(executed') = n + 1 /\ executed'[n + 1] = [order |-> o, ts |-> clock]
          /\ \A k \in 1 .. n : executed'[k] = executed[k]
      BY <1>2, <2>1, FillRight
    <3> QED
      BY <2>1, <3>1 DEF Trades, OrderOf, TsOf
  <2>3. ASSUME NEW p \in Orders PROVE (Cardinality(Of(p)) <= Lots)'
    <3>1. CASE p = o
      <4>1. Of(p)' = Of(p) \cup {n + 1} /\ n + 1 \notin Of(p)
        BY <2>2, <3>1 DEF Of
      <4>2. Cardinality(Of(p) \cup {n + 1}) = Cardinality(Of(p)) + 1
        BY <4>1, TradesFinite, FS_AddElement
      <4>3. Cardinality(Of(p)) < Lots
        BY <1>2, <3>1 DEF Fill, FilledAtBroker, Of, Trades
      <4> QED
        BY <4>1, <4>2, <4>3, TradesFinite, ConstantParts
    <3>2. CASE p # o
      <4>1. Of(p)' = Of(p)
        BY <2>2, <3>2 DEF Of
      <4> QED
        BY <4>1 DEF ExecutedRight
    <3> QED
      BY <3>1, <3>2
  <2>4. ASSUME NEW t \in 0 .. MaxTime PROVE (Cardinality(At(t)) <= PerTick)'
    <3>1. CASE t = clock
      <4>1. At(t)' = At(t) \cup {n + 1} /\ n + 1 \notin At(t)
        BY <2>2, <3>1 DEF At
      <4>2. Cardinality(At(t) \cup {n + 1}) = Cardinality(At(t)) + 1
        BY <4>1, TradesFinite, FS_AddElement
      <4>3. Cardinality(At(t)) < PerTick
        BY <1>2, <3>1 DEF Fill, At, Trades
      <4> QED
        BY <4>1, <4>2, <4>3, TradesFinite, ConstantParts
    <3>2. CASE t # clock
      <4>1. At(t)' = At(t)
        BY <2>2, <3>2 DEF At
      <4> QED
        BY <4>1 DEF ExecutedRight
    <3> QED
      BY <3>1, <3>2
  <2>5. ASSUME NEW i \in Trades', NEW j \in Trades', i <= j PROVE TsOf(i)' <= TsOf(j)'
    <3>1. \A k \in Trades : TsOf(k) <= clock /\ TsOf(k) \in Nat /\ k < n + 1 /\ k \in Nat
      BY <2>1, BrokerParts DEF Trades
    <3>2. CASE i \in Trades /\ j \in Trades
      BY <2>2, <2>5, <3>2 DEF ExecutedRight
    <3>3. CASE j = n + 1
      BY <2>2, <2>5, <3>1, <3>3, BrokerParts
    <3>4. CASE i = n + 1 /\ j \in Trades
      BY <2>1, <2>5, <3>1, <3>4
    <3> QED
      BY <2>2, <3>2, <3>3, <3>4
  <2> QED
    BY <2>3, <2>4, <2>5 DEF ExecutedRight
<1>3. executed' = executed \/ \E o \in Orders : Fill(o)
  BY StepParts DEF broker, Tick, Answer, Forward, Resubscribe, Emit
<1> QED
  BY <1>1, <1>2, <1>3

-----------------------------------------------------------------------------
(* The streams.                                                            *)
Answers == [req : answered, order : answered \cup {NoNumber}]
Events == [order : Placeable, filled : 0 .. Lots, existing : BOOLEAN]

QueuesTyped == acks \in Seq(Answers) /\ orderQ \in Seq(Events) /\ tradeQ \in Seq(Trades)

LEMMA QueueLemma ==
  ASSUME NEW S, NEW q \in Seq(S)
  PROVE  /\ q # << >> => Head(q) \in S /\ Tail(q) \in Seq(S)
         /\ \A n \in 1 .. Len(q) : SubSeq(q, n + 1, Len(q)) \in Seq(S)
<1>1. Len(q) \in Nat /\ \A i \in 1 .. Len(q) : q[i] \in S
  BY LenProperties, ElementOfSeq
<1>2. ASSUME NEW n \in 1 .. Len(q) PROVE SubSeq(q, n + 1, Len(q)) \in Seq(S)
  <2>1. n + 1 \in Int /\ Len(q) \in Int /\ \A i \in n + 1 .. Len(q) : q[i] \in S
    BY <1>1
  <2> QED
    BY <2>1, SubSeqProperties
<1> QED
  BY <1>2, HeadTailProperties

LEMMA QueuesStep ==
  ASSUME BrokerTyped, BrokerTyped', Grown, ExecutedRight, QueuesTyped, [Next]_vars
  PROVE  QueuesTyped'
<1>1. Answers \subseteq Answers' /\ Events \subseteq Events' /\ Trades \subseteq Trades'
  BY Grows DEF Answers, Events, Grown
<1>2. ASSUME NEW a \in Seq(Answers), NEW e \in Seq(Events), NEW t \in Seq(Trades),
             acks' = a, orderQ' = e, tradeQ' = t
      PROVE  QueuesTyped'
  <2>1. a \in Seq(Answers') /\ e \in Seq(Events') /\ t \in Seq(Trades')
    BY <1>1, SeqMonotonic
  <2> QED
    BY <1>2, <2>1 DEF QueuesTyped
<1>3. CASE UNCHANGED queues
  BY <1>2, <1>3 DEF queues, QueuesTyped
<1>4. ASSUME NEW o \in Own, NEW n \in Own \cup {NoNumber}, n \in {o, NoNumber}, Answer(o, n)
      PROVE  QueuesTyped'
  <2>1. o \in answered' /\ n \in answered' \cup {NoNumber}
    BY <1>4 DEF Answer
  <2>2. PICK a : a = [req |-> o, order |-> n] /\ a \in Answers'
    <3>1. [req |-> o, order |-> n] \in Answers'
      BY <2>1 DEF Answers
    <3> QED
      BY <3>1
  <2>3. acks \in Seq(Answers') /\ orderQ \in Seq(Events') /\ tradeQ \in Seq(Trades')
    BY <1>1, SeqMonotonic DEF QueuesTyped
  <2>4. Append(acks, a) \in Seq(Answers')
    BY <2>2, <2>3, AppendProperties
  <2> QED
    BY <1>4, <2>2, <2>3, <2>4 DEF Answer, QueuesTyped
<1>5. ASSUME NEW o \in Orders, NEW existing \in BOOLEAN, Report(o, existing) PROVE QueuesTyped'
  <2>1. o \in Placeable /\ FilledAtBroker(o) \in 0 .. Lots
    BY <1>5, FilledTyped DEF Report, Placeable
  <2>2. PICK e \in Events : e = [order |-> o, filled |-> FilledAtBroker(o), existing |-> existing]
    BY <2>1 DEF Events
  <2>3. Append(orderQ, e) \in Seq(Events)
    BY AppendProperties DEF QueuesTyped
  <2> QED
    BY <1>2, <1>5, <2>2, <2>3 DEF Report, QueuesTyped
<1>6. CASE Forward
  <2>1. forwarded + 1 \in Trades
    BY <1>6, BrokerParts DEF Forward, Trades
  <2>2. Append(tradeQ, forwarded + 1) \in Seq(Trades)
    BY <2>1, AppendProperties DEF QueuesTyped
  <2> QED
    BY <1>2, <1>6, <2>2 DEF Forward, QueuesTyped
<1>7. CASE HandleAck
  BY <1>2, <1>7, QueueLemma DEF HandleAck, QueuesTyped
<1>8. CASE HandleOrder
  BY <1>2, <1>8, QueueLemma DEF HandleOrder, QueuesTyped
<1>9. CASE DropTrade \/ FreshTrade
  BY <1>2, <1>9, QueueLemma DEF DropTrade, FreshTrade, ConsumeTrade, QueuesTyped
<1>10. CASE Restart
  <2>1. /\ acks' = acks \/ \E n \in 1 .. Len(acks) : acks' = SubSeq(acks, n + 1, Len(acks))
        /\ orderQ' = orderQ \/ \E n \in 1 .. Len(orderQ) : orderQ' = SubSeq(orderQ, n + 1, Len(orderQ))
        /\ tradeQ' = tradeQ \/ \E n \in 1 .. Len(tradeQ) : tradeQ' = SubSeq(tradeQ, n + 1, Len(tradeQ))
    BY <1>10 DEF Restart, queues
  <2>2. acks' \in Seq(Answers) /\ orderQ' \in Seq(Events) /\ tradeQ' \in Seq(Trades)
    BY <2>1, QueueLemma DEF QueuesTyped
  <2> QED
    BY <1>2, <2>2
<1> QED
  BY <1>3, <1>4, <1>5, <1>6, <1>7, <1>8, <1>9, <1>10, StepParts

-----------------------------------------------------------------------------
(* What an action does to the books.  The same trades stay booked ...      *)
SameHeld(b, c) == \A o \in Orders : HeldIn(c, o) = HeldIn(b, o) /\ (OnceIn(b, o) => OnceIn(c, o))

(* ... when an acknowledgement is handled,                                 *)
AckLeft == requests \ {Head(acks).req}
AckNamed == Head(acks).req \in requests /\ Head(acks).order # NoNumber
AckOwn == IF AckNamed THEN book.own \cup {Head(acks).order} ELSE book.own

LEMMA AckBook ==
  ASSUME BrokerTyped, QueuesTyped, Sound(book), HandleAck
  PROVE  /\ Sound(book') /\ SameHeld(book, book')
         /\ AckOwn \subseteq book'.own /\ book'.orders = book.orders
         /\ \A o \in Orders : book'.buffered[o] # << >> =>
              /\ book'.buffered[o] = book.buffered[o]
              /\ o \in book'.own => o \in book.own \/ o \notin DOMAIN book.orders
              /\ o \notin book'.own => AckLeft # {}
         /\ \A o \in Orders : \A i \in 1 .. Len(book'.ledger[o]) :
              \/ book'.ledger[o][i].owned
              \/ i \in 1 .. Len(book.ledger[o]) /\ book'.ledger[o][i] = book.ledger[o][i]
              \/ AckLeft = {} /\ o \in Placeable \ AckOwn
<1>1. PICK n \in answered \cup {NoNumber} : n = Head(acks).order
  <2>1. acks \in Seq(Answers) /\ acks # << >>
    BY DEF QueuesTyped, HandleAck
  <2>2. Head(acks) \in Answers
    BY <2>1, QueueLemma
  <2> QED
    BY <2>2 DEF Answers
<1>2. PICK e : /\ e = IF AckNamed THEN [book EXCEPT !.own = @ \cup {n}] ELSE book
               /\ Sound(e) /\ SameTrades(book, e) /\ e.own = AckOwn /\ e.orders = book.orders
  <2>1. CASE AckNamed
    <3>1. n \in Placeable
      BY <1>1, <2>1 DEF AckNamed, BrokerTyped, Placeable
    <3>2. PICK f : f = [book EXCEPT !.own = @ \cup {n}]
      OBVIOUS
    <3>3. Sound(f) /\ SameTrades(book, f) /\ f.own = book.own \cup {n} /\ f.orders = book.orders
      BY <3>1, <3>2, NamedBook
    <3> QED
      BY <1>1, <2>1, <3>2, <3>3 DEF AckOwn
  <2>2. CASE ~ AckNamed
    BY <2>2 DEF AckOwn, SameTrades
  <2> QED
    BY <2>1, <2>2
<1>3. PICK r, S : /\ r = IF AckNamed THEN Replay(e, n) ELSE e
                  /\ S = IF AckNamed THEN Replayed(e, n) ELSE {}
                  /\ Sound(r) /\ Shifted(e, r, S, TRUE) /\ r.own = AckOwn /\ r.orders = book.orders
  <2>1. CASE AckNamed
    <3>1. n \in Orders
      BY <1>1, <2>1, BrokerParts DEF AckNamed, BrokerTyped, Placeable
    <3>2. /\ Sound(Replay(e, n)) /\ Shifted(e, Replay(e, n), Replayed(e, n), TRUE)
          /\ Replay(e, n).own = e.own /\ Replay(e, n).orders = e.orders
      BY <1>2, <3>1, ReplayRight
    <3> QED
      BY <1>2, <2>1, <3>2
  <2>2. CASE ~ AckNamed
    <3>1. Shifted(e, e, {}, TRUE)
      BY <1>2, SoundShaped DEF Shaped, Shifted
    <3> QED
      BY <1>2, <2>2, <3>1
  <2> QED
    BY <2>1, <2>2
<1>4. PICK c, F : /\ c = FlushUnmatched(r, AckLeft) /\ F = Flushed(r, AckLeft)
                  /\ Sound(c) /\ Shifted(r, c, F, FALSE)
                  /\ c.own = AckOwn \cup F /\ c.orders = book.orders
  <2>1. /\ Sound(FlushUnmatched(r, AckLeft))
        /\ Shifted(r, FlushUnmatched(r, AckLeft), Flushed(r, AckLeft), FALSE)
        /\ FlushUnmatched(r, AckLeft).own = r.own \cup Flushed(r, AckLeft)
        /\ FlushUnmatched(r, AckLeft).orders = r.orders
    BY <1>3, FlushRight DEF BrokerTyped, Execution
  <2> QED
    BY <1>3, <2>1
<1>5. book' = c
  BY <1>1, <1>2, <1>3, <1>4 DEF HandleAck, AckLeft, AckNamed
<1>6. ASSUME NEW o \in Orders
      PROVE  /\ HeldIn(c, o) = HeldIn(book, o) /\ (OnceIn(book, o) => OnceIn(c, o))
             /\ c.buffered[o] # << >> =>
                  /\ c.buffered[o] = book.buffered[o]
                  /\ o \in c.own => o \in book.own \/ o \notin DOMAIN book.orders
                  /\ o \notin c.own => AckLeft # {}
             /\ \A i \in 1 .. Len(c.ledger[o]) :
                  \/ c.ledger[o][i].owned
                  \/ i \in 1 .. Len(book.ledger[o]) /\ c.ledger[o][i] = book.ledger[o][i]
                  \/ AckLeft = {} /\ o \in Placeable \ AckOwn
  <2>1. /\ Tidy(e, o) /\ HeldIn(e, o) = HeldIn(book, o) /\ (OnceIn(e, o) <=> OnceIn(book, o))
        /\ e.buffered[o] = book.buffered[o] /\ e.ledger[o] = book.ledger[o]
    BY <1>2, SameTidy DEF SameTrades
  <2>2. /\ Tidy(r, o) /\ HeldIn(r, o) = HeldIn(e, o) /\ (OnceIn(e, o) => OnceIn(r, o))
        /\ o \notin S => r.buffered[o] = e.buffered[o] /\ r.ledger[o] = e.ledger[o]
        /\ o \in S => r.buffered[o] = << >>
        /\ MarkedAs(e, r, o, TRUE)
    BY ZenonT(30), <1>3, <2>1, ShiftRight
  <2>3. /\ Tidy(c, o) /\ HeldIn(c, o) = HeldIn(r, o) /\ (OnceIn(r, o) => OnceIn(c, o))
        /\ o \notin F => c.buffered[o] = r.buffered[o] /\ c.ledger[o] = r.ledger[o]
        /\ o \in F => c.buffered[o] = << >>
        /\ MarkedAs(r, c, o, FALSE)
    BY ZenonT(30), <1>4, <2>2, ShiftRight
  <2>4. ASSUME c.buffered[o] # << >>
        PROVE  /\ c.buffered[o] = book.buffered[o]
               /\ o \in c.own => o \in book.own \/ o \notin DOMAIN book.orders
               /\ o \notin c.own => AckLeft # {}
    <3>1. o \notin F /\ o \notin S /\ c.buffered[o] = r.buffered[o] /\ r.buffered[o] = e.buffered[o]
      BY <2>2, <2>3, <2>4
    <3>2. ASSUME o \in c.own PROVE o \in book.own \/ o \notin DOMAIN book.orders
      <4>1. o \in AckOwn
        BY <1>4, <3>1, <3>2
      <4>2. CASE o \notin book.own
        <5>1. AckNamed /\ o = n
          BY <1>1, <4>1, <4>2 DEF AckOwn
        <5>2. o \notin Replayed(e, o) /\ o \in e.own /\ e.buffered[o] # << >>
          BY <1>2, <1>3, <2>4, <3>1, <4>1, <5>1
        <5> QED
          BY <1>2, <5>2 DEF Replayed
      <4> QED
        BY <4>2
    <3>3. ASSUME o \notin c.own, AckLeft = {} PROVE FALSE
      <4>1. o \notin r.own /\ r.buffered[o] # << >>
        BY <1>3, <1>4, <2>4, <3>1, <3>3
      <4>2. o \in F
        BY <1>4, <3>3, <4>1 DEF Flushed, Unmatched
      <4> QED
        BY <3>1, <4>2
    <3> QED
      BY <2>1, <3>1, <3>2, <3>3
  <2>5. ASSUME NEW i \in 1 .. Len(c.ledger[o])
        PROVE  \/ c.ledger[o][i].owned
               \/ i \in 1 .. Len(book.ledger[o]) /\ c.ledger[o][i] = book.ledger[o][i]
               \/ AckLeft = {} /\ o \in Placeable \ AckOwn
    <3>1. CASE o \in F
      <4>1. AckLeft = {} /\ o \notin AckOwn /\ r.buffered[o] # << >>
        BY <1>3, <1>4, <3>1 DEF Flushed, Unmatched
      <4>2. o \in Placeable
        BY <1>3, <4>1, WaitingIsPlaceable DEF BrokerTyped, Execution
      <4> QED
        BY <4>1, <4>2
    <3>2. CASE o \notin F
      <4>1. c.ledger[o] = r.ledger[o]
        BY <2>3, <3>2
      <4> QED
        BY <2>1, <2>2, <2>5, <4>1 DEF MarkedAs
    <3> QED
      BY <3>1, <3>2
  <2> QED
    BY <2>1, <2>2, <2>3, <2>4, <2>5
<1> QED
  BY <1>4, <1>5, <1>6 DEF SameHeld

(* ... or an order event.                                                  *)
LEMMA OrderBook ==
  ASSUME BrokerTyped, QueuesTyped, Sound(book), HandleOrder
  PROVE  /\ Sound(book') /\ SameHeld(book, book')
         /\ book'.own = book.own
         /\ \A o \in Orders : book'.buffered[o] # << >> =>
              /\ book'.buffered[o] = book.buffered[o]
              /\ o \in book'.own /\ o \in DOMAIN book'.orders => o \in DOMAIN book.orders
         /\ \A o \in Orders : \A i \in 1 .. Len(book'.ledger[o]) :
              \/ book'.ledger[o][i].owned
              \/ i \in 1 .. Len(book.ledger[o]) /\ book'.ledger[o][i] = book.ledger[o][i]
<1>1. PICK m \in Events : m = Head(orderQ)
  BY QueueLemma DEF QueuesTyped, HandleOrder
<1>2. PICK e : e = [Settle(book, m) EXCEPT !.orders = Set(@, m.order, m.filled)]
  OBVIOUS
<1>3. PICK q : q = m.order /\ q \in Orders /\ q \in Placeable
  BY <1>1, BrokerParts DEF Events
<1>4. /\ Sound(e) /\ SameTrades(book, e) /\ e.own = book.own
      /\ DOMAIN e.orders = DOMAIN book.orders \cup {q}
  BY <1>2, <1>3, EventBook DEF Events
<1>5. PICK c, S : /\ c = Replay(e, q) /\ S = Replayed(e, q)
                  /\ Sound(c) /\ Shifted(e, c, S, TRUE) /\ c.own = e.own /\ c.orders = e.orders
  <2>1. /\ Sound(Replay(e, q)) /\ Shifted(e, Replay(e, q), Replayed(e, q), TRUE)
        /\ Replay(e, q).own = e.own /\ Replay(e, q).orders = e.orders
    BY <1>3, <1>4, ReplayRight
  <2> QED
    BY <2>1
<1>6. book' = c
  BY <1>1, <1>2, <1>3, <1>5 DEF HandleOrder
<1>7. ASSUME NEW o \in Orders
      PROVE  /\ HeldIn(c, o) = HeldIn(book, o) /\ (OnceIn(book, o) => OnceIn(c, o))
             /\ c.buffered[o] # << >> =>
                  /\ c.buffered[o] = book.buffered[o]
                  /\ o \in c.own /\ o \in DOMAIN c.orders => o \in DOMAIN book.orders
             /\ \A i \in 1 .. Len(c.ledger[o]) :
                  \/ c.ledger[o][i].owned
                  \/ i \in 1 .. Len(book.ledger[o]) /\ c.ledger[o][i] = book.ledger[o][i]
  <2>1. /\ Tidy(e, o) /\ HeldIn(e, o) = HeldIn(book, o) /\ (OnceIn(e, o) <=> OnceIn(book, o))
        /\ e.buffered[o] = book.buffered[o] /\ e.ledger[o] = book.ledger[o]
    BY <1>4, SameTidy DEF SameTrades
  <2>2. /\ HeldIn(c, o) = HeldIn(e, o) /\ (OnceIn(e, o) => OnceIn(c, o))
        /\ o \notin S => c.buffered[o] = e.buffered[o] /\ c.ledger[o] = e.ledger[o]
        /\ o \in S => c.buffered[o] = << >>
        /\ MarkedAs(e, c, o, TRUE)
    BY ZenonT(30), <1>5, <2>1, ShiftRight
  <2>3. ASSUME c.buffered[o] # << >>, o \in c.own, o \in DOMAIN c.orders PROVE o \in DOMAIN book.orders
    <3>1. o \notin S /\ e.buffered[o] # << >>
      BY <2>2, <2>3
    <3>2. o # q
      BY <1>5, <2>3, <3>1 DEF Replayed
    <3> QED
      BY <1>4, <1>5, <2>3, <3>2
  <2> QED
    BY <2>1, <2>2, <2>3 DEF MarkedAs
<1> QED
  BY <1>4, <1>5, <1>6, <1>7 DEF SameHeld

(* A trade taken from the stream.                                          *)
LEMMA HeadTrade ==
  ASSUME BrokerTyped, QueuesTyped, tradeQ # << >>
  PROVE  /\ Head(tradeQ) \in Trades /\ OrderOf(Head(tradeQ)) \in Placeable
         /\ OrderOf(Head(tradeQ)) \in Orders
BY QueueLemma, BrokerParts DEF QueuesTyped

LEMMA FreshBook ==
  ASSUME BrokerTyped, QueuesTyped, Sound(book), NEW k, k = Head(tradeQ),
         BufferTrade \/ OrphanTrade \/ RecordTrade
  PROVE  /\ FreshTrade /\ Sound(book') /\ Gains(book, book', k)
         /\ BufferTrade => Waits(book, book', k) /\ book'.own = book.own /\ book'.orders = book.orders
         /\ OrphanTrade => /\ Records(book, book', k, FALSE) /\ book'.orders = book.orders
                           /\ book'.own = book.own \cup {OrderOf(k)}
         /\ RecordTrade => /\ Records(book, book', k, TRUE)
                           /\ book'.own = book.own /\ book'.orders = book.orders
<1>1. /\ FreshTrade /\ k \in Trades /\ OrderOf(k) \in Placeable /\ OrderOf(k) \in Orders
  BY HeadTrade DEF BufferTrade, OrphanTrade, RecordTrade, FreshTrade, ConsumeTrade
<1>2. PICK c : c = book'
  OBVIOUS
<1>3. ASSUME BufferTrade
      PROVE  Sound(c) /\ Waits(book, c, k) /\ c.own = book.own /\ c.orders = book.orders
  <2>1. c = [book EXCEPT !.buffered[OrderOf(k)] = Append(@, k)]
    BY <1>2, <1>3 DEF BufferTrade
  <2> QED
    BY <1>1, <2>1, BufferBook
<1>4. ASSUME OrphanTrade
      PROVE  /\ Sound(c) /\ Records(book, c, k, FALSE) /\ c.orders = book.orders
             /\ c.own = book.own \cup {OrderOf(k)}
  <2>1. c = [book EXCEPT !.own = @ \cup {OrderOf(k)},
                         !.ledger[OrderOf(k)] = @ \o Recorded(<<k>>, FALSE)]
    BY <1>2, <1>4 DEF OrphanTrade
  <2> QED
    BY <1>1, <2>1, OrphanBook
<1>5. ASSUME RecordTrade
      PROVE  Sound(c) /\ Records(book, c, k, TRUE) /\ c.own = book.own /\ c.orders = book.orders
  <2>1. c = ApplyTrades(book, OrderOf(k), <<k>>) /\ OrderOf(k) \in book.own /\ OrderOf(k) \in DOMAIN book.orders
    BY <1>2, <1>5 DEF RecordTrade, Owned, Known
  <2> QED
    BY <1>1, <2>1, RecordBook
<1> QED
  BY <1>1, <1>2, <1>3, <1>4, <1>5 DEF Gains

(* A restarted process knows orders and no trade.                          *)
LEMMA RestartBook ==
  ASSUME BrokerTyped, Restart
  PROVE  /\ Sound(book')
         /\ \A o \in Orders : book'.buffered[o] = << >> /\ book'.ledger[o] = << >>
<1>1. PICK snap \in SUBSET (placed \cup Foreign) : \E filled \in [snap -> 0 .. Lots] :
        book' = [EmptyBook EXCEPT !.orders = filled,
                                  !.own = {o \in snap : filled[o] < Lots}]
  BY DEF Restart
<1>0. PICK filled \in [snap -> 0 .. Lots] :
        book' = [EmptyBook EXCEPT !.orders = filled,
                                  !.own = {o \in snap : filled[o] < Lots}]
  BY <1>1
<1>2. PICK c : c = book'
  OBVIOUS
<1>3. c = [own |-> {o \in snap : filled[o] < Lots}, orders |-> filled,
           buffered |-> [o \in Orders |-> << >>], awaiting |-> NoEntries,
           ledger |-> [o \in Orders |-> << >>]]
  BY <1>0, <1>2 DEF EmptyBook
<1>4. Shaped(c)
  BY <1>3 DEF Shaped
<1>5. \A o \in Orders : c.buffered[o] = << >> /\ c.ledger[o] = << >> /\ Tidy(c, o)
  <2>1. << >> \in Seq(Trades) /\ << >> \in Seq(Marks) /\ Len(<< >>) = 0
    BY EmptySeq
  <2> QED
    BY <1>3, <2>1 DEF Tidy
<1>6. c.orders \in Partial(Placeable, 0 .. Lots) /\ c.own \subseteq Placeable
  BY <1>3 DEF Partial, Placeable
<1>7. c.awaiting \in Partial(Placeable, Owed) /\ DOMAIN c.awaiting = {}
  BY <1>3, NoEntriesPartial
<1>8. Sound(c)
  BY <1>4, <1>5, <1>6, <1>7, PartsSound
<1> QED
  BY <1>2, <1>5, <1>8

LEMMA BookStep ==
  ASSUME BrokerTyped, BrokerTyped', Grown, QueuesTyped, Sound(book), [Next]_vars
  PROVE  Sound(book)'
<1>1. Sound(book')
  <2>1. CASE UNCHANGED book
    BY <2>1
  <2> QED
    BY <2>1, StepParts, AckBook, OrderBook, FreshBook, RestartBook
<1>2. PICK c : c = book'
  OBVIOUS
<1>3. Sound(c)'
  BY <1>1, <1>2, SoundGrows
<1> QED
  BY <1>2, <1>3 DEF Sound

-----------------------------------------------------------------------------
(* The deduplication window.                                               *)
Stamp == {NoTrade} \cup 0 .. clock
Remembers(s, last) == s \in Seq(Trades) /\ Len(s) <= DedupLimit /\ last \in Stamp

DedupTyped ==
  /\ Remembers(seen, lastTs)
  /\ saved \in [seen : Seq(Trades), lastTs : Stamp] /\ Len(saved.seen) <= DedupLimit

LEMMA SavedParts ==
  ASSUME DedupTyped
  PROVE  Remembers(saved.seen, saved.lastTs)
BY DEF DedupTyped, Remembers

LEMMA RemembersGrows ==
  ASSUME BrokerTyped, BrokerTyped', Grown, NEW s, NEW last, Remembers(s, last)
  PROVE  Remembers(s, last)'
<1>1. Trades \subseteq Trades' /\ Stamp \subseteq Stamp'
  BY Grows, BrokerParts DEF Stamp, Grown, BrokerTyped
<1>2. s \in Seq(Trades')
  BY <1>1, SeqMonotonic DEF Remembers
<1> QED
  BY <1>1, <1>2 DEF Remembers

(* LastOf keeps the sequence, or drops its first element.                  *)
WithoutFirst(r, s, n) == Len(s) = n + 1 /\ Len(r) = n /\ \A i \in 1 .. n : r[i] = s[i + 1]

LEMMA LastOfRight ==
  ASSUME NEW S, NEW s \in Seq(S), NEW n \in Nat, Len(s) <= n + 1,
         NEW r, r = LastOf(s, n)
  PROVE  r \in Seq(S) /\ Len(r) <= n /\ (r = s \/ WithoutFirst(r, s, n))
<1>1. Len(s) \in Nat /\ \A i \in 1 .. Len(s) : s[i] \in S
  BY LenProperties, ElementOfSeq
<1>2. CASE Len(s) <= n
  BY <1>1, <1>2 DEF LastOf
<1>3. CASE Len(s) > n
  <2>1. Len(s) = n + 1 /\ Len(s) - n + 1 = 2
    BY <1>1, <1>3
  <2>2. r = SubSeq(s, 2, n + 1)
    BY <1>3, <2>1 DEF LastOf
  <2>3. 2 \in Int /\ n + 1 \in Int /\ \A i \in 2 .. n + 1 : s[i] \in S
    BY <1>1, <2>1
  <2>4. /\ SubSeq(s, 2, n + 1) \in Seq(S)
        /\ Len(SubSeq(s, 2, n + 1)) = IF 2 <= n + 1 THEN (n + 1) - 2 + 1 ELSE 0
        /\ \A i \in 1 .. (n + 1) - 2 + 1 : SubSeq(s, 2, n + 1)[i] = s[2 + i - 1]
    BY <2>3, SubSeqProperties
  <2>5. Len(r) = n /\ \A i \in 1 .. n : r[i] = s[i + 1]
    BY <2>2, <2>4
  <2>6. r \in Seq(S) /\ Len(r) <= n
    BY <2>2, <2>4, <2>5
  <2> QED
    BY <2>1, <2>5, <2>6 DEF WithoutFirst
<1> QED
  BY <1>1, <1>2, <1>3

LEMMA RememberTyped ==
  ASSUME BrokerTyped, DedupTyped, NEW k \in Trades, Remember(k)
  PROVE  Remembers(seen', lastTs')
<1>1. PICK s \in Seq(Trades) : s = Append(seen, k) /\ Len(s) = Len(seen) + 1
  <2>1. seen \in Seq(Trades)
    BY DEF DedupTyped, Remembers
  <2>2. Append(seen, k) \in Seq(Trades) /\ Len(Append(seen, k)) = Len(seen) + 1
    BY <2>1, AppendProperties
  <2> QED
    BY <2>2
<1>2. Len(seen) \in Nat /\ Len(s) <= DedupLimit + 1
  BY <1>1, LenProperties, ConstantParts DEF DedupTyped, Remembers
<1>3. PICK r : r = LastOf(s, DedupLimit) /\ seen' = r
  BY <1>1 DEF Remember
<1>4. r \in Seq(Trades) /\ Len(r) <= DedupLimit
  BY <1>2, <1>3, LastOfRight, ConstantParts
<1>5. lastTs' \in Stamp
  BY BrokerParts DEF Remember, Stamp
<1> QED
  BY <1>3, <1>4, <1>5 DEF Remembers

LEMMA DedupStep ==
  ASSUME BrokerTyped, BrokerTyped', Grown, QueuesTyped, DedupTyped, [Next]_vars
  PROVE  DedupTyped'
<1>1. Remembers(seen', lastTs')
  <2>1. CASE UNCHANGED dedup
    BY <2>1 DEF dedup, DedupTyped, Remembers
  <2>2. CASE BufferTrade \/ OrphanTrade \/ RecordTrade
    BY <2>2, HeadTrade, RememberTyped DEF BufferTrade, OrphanTrade, RecordTrade, FreshTrade, ConsumeTrade
  <2>3. CASE Restart
    BY <2>3, SavedParts DEF Restart
  <2> QED
    BY <2>1, <2>2, <2>3, StepParts
<1>2. PICK v : v = saved'
  OBVIOUS
<1>3. v = [seen |-> v.seen, lastTs |-> v.lastTs] /\ Remembers(v.seen, v.lastTs)
  <2>1. saved = [seen |-> saved.seen, lastTs |-> saved.lastTs]
    BY DEF DedupTyped
  <2>2. CASE v = saved
    BY <2>1, <2>2, SavedParts
  <2>3. CASE Persist
    BY <1>2, <2>1, <2>3, SavedParts DEF Persist, DedupTyped
  <2>4. CASE Restart
    <3>1. CASE v = NothingSaved
      <4>1. << >> \in Seq(Trades) /\ Len(<< >>) = 0
        BY EmptySeq
      <4> QED
        BY <3>1, <4>1, ConstantParts DEF NothingSaved, Remembers, Stamp
    <3> QED
      BY <1>2, <2>1, <2>2, <2>4, <3>1 DEF Restart
  <2> QED
    BY <1>2, <2>2, <2>3, <2>4, StepParts
<1>4. PICK s, last : s = seen' /\ last = lastTs'
  OBVIOUS
<1>5. Remembers(s, last)' /\ Remembers(v.seen, v.lastTs)'
  BY <1>1, <1>3, <1>4, RemembersGrows
<1> QED
  BY <1>2, <1>3, <1>4, <1>5 DEF DedupTyped, Remembers, Stamp

-----------------------------------------------------------------------------
(* Type correctness.                                                       *)
RestTyped ==
  /\ requests \subseteq placed /\ unnamed \subseteq Own
  /\ reports \in 0 .. MaxReports /\ resends \in 0 .. MaxResends /\ restarts \in 0 .. MaxRestarts

LEMMA RestStep ==
  ASSUME BrokerTyped, Grown, QueuesTyped, RestTyped, [Next]_vars
  PROVE  RestTyped'
<1>1. requests' \subseteq placed'
  <2>1. CASE UNCHANGED requests \/ HandleAck
    BY <2>1 DEF RestTyped, Grown, HandleAck
  <2>2. ASSUME NEW o \in Own, Emit(o) PROVE requests' \subseteq placed'
    BY <2>2 DEF Emit, RestTyped
  <2>3. CASE Restart
    BY <2>3 DEF Restart, broker, BrokerTyped
  <2> QED
    BY <2>1, <2>2, <2>3, StepParts
<1>2. unnamed' \subseteq Own
  <2>1. CASE HandleAck
    <3>1. acks \in Seq(Answers) /\ acks # << >>
      BY <2>1 DEF HandleAck, QueuesTyped
    <3>2. Head(acks) \in Answers
      BY <3>1, QueueLemma
    <3>3. Head(acks).req \in Own
      BY <3>2 DEF Answers, BrokerTyped
    <3> QED
      BY <2>1, <3>3 DEF HandleAck, RestTyped
  <2> QED
    BY <2>1, StepParts DEF RestTyped, Restart
<1>3. reports' \in 0 .. MaxReports /\ resends' \in 0 .. MaxResends /\ restarts' \in 0 .. MaxRestarts
  <2>1. CASE UNCHANGED counters
    BY <2>1 DEF counters, RestTyped
  <2>2. ASSUME NEW o \in Orders, NEW existing \in BOOLEAN, Report(o, existing)
        PROVE  reports' \in 0 .. MaxReports /\ UNCHANGED <<resends, restarts>>
    BY <2>2, ConstantParts DEF Report, RestTyped
  <2>3. ASSUME NEW k \in 0 .. Len(executed), Resubscribe(k)
        PROVE  resends' \in 0 .. MaxResends /\ UNCHANGED <<reports, restarts>>
    BY <2>3, ConstantParts DEF Resubscribe, RestTyped
  <2>4. CASE Restart
    <3>1. restarts < MaxRestarts /\ restarts' = restarts + 1 /\ UNCHANGED <<reports, resends>>
      BY <2>4 DEF Restart
    <3> QED
      BY <3>1, ConstantParts DEF RestTyped
  <2> QED
    BY <2>1, <2>2, <2>3, <2>4, StepParts DEF RestTyped
<1> QED
  BY <1>1, <1>2, <1>3 DEF RestTyped

LEMMA TypeParts ==
  TypeOK <=> /\ BrokerTyped /\ QueuesTyped /\ Sound(book) /\ DedupTyped /\ RestTyped
BY DEF TypeOK, BrokerTyped, Execution, QueuesTyped, Answers, Events, Sound, DedupTyped, Stamp,
       Remembers, RestTyped

TypeInv == TypeOK /\ ExecutedRight

LEMMA TypeInit ==
  ASSUME Init
  PROVE  TypeInv
<1>1. /\ << >> \in Seq(Execution) /\ << >> \in Seq(Answers) /\ << >> \in Seq(Events)
      /\ << >> \in Seq(Trades) /\ Len(<< >>) = 0
  BY EmptySeq
<1>2. BrokerTyped
  BY <1>1, ConstantParts DEF Init, BrokerTyped
<1>3. QueuesTyped
  BY <1>1 DEF Init, QueuesTyped
<1>4. Sound(book)
  <2>1. PICK c : c = book
    OBVIOUS
  <2>2. c = [own |-> {}, orders |-> NoEntries, buffered |-> [o \in Orders |-> << >>],
             awaiting |-> NoEntries, ledger |-> [o \in Orders |-> << >>]]
    BY <2>1 DEF Init, EmptyBook
  <2>3. Shaped(c)
    BY <2>2 DEF Shaped
  <2>4. \A o \in Orders : Tidy(c, o)
    <3>1. << >> \in Seq(Marks)
      BY EmptySeq
    <3> QED
      BY <1>1, <2>2, <3>1 DEF Tidy
  <2>5. c.orders \in Partial(Placeable, 0 .. Lots) /\ c.awaiting \in Partial(Placeable, Owed) /\ DOMAIN c.awaiting = {}
    BY <2>2, NoEntriesPartial
  <2>6. Sound(c)
    BY <2>2, <2>3, <2>4, <2>5, PartsSound
  <2> QED
    BY <2>1, <2>6
<1>5. DedupTyped
  BY <1>1, ConstantParts DEF Init, DedupTyped, Remembers, Stamp, NothingSaved
<1>6. RestTyped
  BY ConstantParts DEF Init, RestTyped
<1>7. ExecutedRight
  <2>1. Trades = {}
    BY <1>1 DEF Init, Trades
  <2>2. \A x : Of(x) = {} /\ At(x) = {}
    BY <2>1 DEF Of, At
  <2> QED
    BY <2>1, <2>2, FS_EmptySet, ConstantParts DEF ExecutedRight
<1> QED
  BY <1>2, <1>3, <1>4, <1>5, <1>6, <1>7, TypeParts DEF TypeInv

LEMMA TypeStep ==
  ASSUME TypeInv, [Next]_vars
  PROVE  TypeInv' /\ Grown
<1>1. BrokerTyped /\ QueuesTyped /\ Sound(book) /\ DedupTyped /\ RestTyped /\ ExecutedRight
  BY TypeParts DEF TypeInv
<1>2. BrokerTyped' /\ Grown
  BY <1>1, BrokerStep
<1>3. ExecutedRight' /\ QueuesTyped' /\ Sound(book)' /\ DedupTyped' /\ RestTyped'
  BY <1>1, <1>2, ExecutedStep, QueuesStep, BookStep, DedupStep, RestStep
<1>4. TypeOK' <=> (BrokerTyped /\ QueuesTyped /\ Sound(book) /\ DedupTyped /\ RestTyped)'
  BY TypeParts, PTL
<1> QED
  BY <1>2, <1>3, <1>4 DEF TypeInv

(* Every reachable state is well typed: among others, a trade is buffered  *)
(* and recorded only under its own order, and the runtime expects fills    *)
(* only of orders it owns.                                                 *)
THEOREM TradesTypeOK == Spec => []TypeOK
<1>1. Init => TypeInv
  BY TypeInit
<1>2. TypeInv /\ [Next]_vars => TypeInv'
  BY TypeStep
<1>3. TypeInv => TypeOK
  BY DEF TypeInv
<1> QED
  BY <1>1, <1>2, <1>3, PTL DEF Spec

-----------------------------------------------------------------------------
(* No trade is booked twice: the window remembers every booked trade that  *)
(* is as new as last_trade_ts, because it holds distinct trades in order   *)
(* of time and a second does not fill it.                                  *)
Window(s, last) ==
  /\ \A i, j \in 1 .. Len(s) : i < j => s[i] # s[j] /\ TsOf(s[i]) <= TsOf(s[j])
  /\ \A i \in 1 .. Len(s) : TsOf(s[i]) <= last

WindowsRight == Window(seen, lastTs) /\ Window(saved.seen, saved.lastTs)

BookedRight == \A o \in Orders : OnceIn(book, o) /\ \A k \in HeldIn(book, o) : Stale(k)

LEMMA HeldTrades ==
  ASSUME NEW b, Sound(b), NEW o \in Orders, NEW k \in HeldIn(b, o)
  PROVE  k \in Trades /\ OrderOf(k) = o
<1>1. PICK s \in Seq(Trades), l \in Seq(Marks) : s = b.buffered[o] /\ l = b.ledger[o]
  BY SoundParts DEF Tidy
<1>2. CASE \E i \in 1 .. Len(s) : k = s[i]
  BY <1>1, <1>2, SoundParts, ElementOfSeq DEF Tidy
<1>3. CASE \E i \in 1 .. Len(l) : k = l[i].trade
  <2>1. PICK i \in 1 .. Len(l) : k = l[i].trade
    BY <1>3
  <2>2. l[i] \in Marks
    BY ElementOfSeq
  <2> QED
    BY <1>1, <2>1, <2>2, SoundParts DEF Tidy, Marks
<1> QED
  BY <1>1, <1>2, <1>3 DEF HeldIn, Held

LEMMA WindowGrows ==
  ASSUME BrokerTyped, BrokerTyped', Grown, NEW s, NEW last, Remembers(s, last), Window(s, last)
  PROVE  Window(s, last)'
<1>1. \A i \in 1 .. Len(s) : s[i] \in Trades /\ TsOf(s[i])' = TsOf(s[i])
  BY Grows, ElementOfSeq DEF Remembers
<1> QED
  BY <1>1 DEF Window

(* A trade is remembered: the window stays in order, and what was stale    *)
(* stays so.                                                               *)
StaleIn(s, last, k) == (\E i \in 1 .. Len(s) : s[i] = k) \/ TsOf(k) < last

LEMMA RememberKeeps ==
  ASSUME BrokerTyped, ExecutedRight, Remembers(seen, lastTs), Window(seen, lastTs),
         NEW k \in Trades, ~ Stale(k), Remember(k)
  PROVE  /\ Window(seen', lastTs')
         /\ \A j \in Trades : Stale(j) \/ j = k => StaleIn(seen', lastTs', j)
<1>1. PICK q \in Seq(Trades) : q = seen /\ Len(q) <= DedupLimit /\ Len(q) \in Nat
  BY LenProperties DEF Remembers
<1>2. PICK t \in Nat : t = TsOf(k) /\ t \in 0 .. MaxTime /\ lastTs <= t
  <2>1. TsOf(k) \in 0 .. clock /\ clock \in 0 .. MaxTime /\ TsOf(k) \in Nat
    BY BrokerParts DEF BrokerTyped
  <2>2. lastTs \in Int /\ lastTs <= TsOf(k)
    BY <2>1, ConstantParts DEF Stale, Remembers, Stamp, BrokerTyped
  <2> QED
    BY <2>1, <2>2, ConstantParts
<1>3. PICK s \in Seq(Trades) : s = Append(q, k)
  <2>1. Append(q, k) \in Seq(Trades)
    BY AppendProperties
  <2> QED
    BY <2>1
<1>4. Len(s) = Len(q) + 1 /\ s[Len(q) + 1] = k /\ \A i \in 1 .. Len(q) : s[i] = q[i]
  BY <1>3, AppendProperties
<1>5. \A i \in 1 .. Len(s) : /\ s[i] \in Trades /\ TsOf(s[i]) \in Nat
                             /\ \/ i \in 1 .. Len(q) /\ s[i] = q[i]
                                \/ i = Len(q) + 1 /\ s[i] = k
  <2>1. \A i \in 1 .. Len(s) : s[i] \in Trades
    BY ElementOfSeq
  <2>2. \A j \in Trades : TsOf(j) \in Nat
    BY BrokerParts
  <2>3. \A i \in 1 .. Len(s) : i \in 1 .. Len(q) \/ i = Len(q) + 1
    BY <1>1, <1>4
  <2> QED
    BY <1>4, <2>1, <2>2, <2>3
<1>6. lastTs \in Int /\ \A i \in 1 .. Len(q) : q[i] # k /\ TsOf(q[i]) <= lastTs /\ TsOf(q[i]) \in Int
  <2>1. \A i \in 1 .. Len(q) : TsOf(q[i]) \in Int
    BY <1>4, <1>5, <1>1
  <2> QED
    BY <1>1, <2>1, ConstantParts, BrokerParts DEF Window, Stale, Remembers, Stamp
<1>7. \A i \in 1 .. Len(s) : TsOf(s[i]) <= t
  <2> SUFFICES ASSUME NEW i \in 1 .. Len(s) PROVE TsOf(s[i]) <= t
    OBVIOUS
  <2>1. CASE i \in 1 .. Len(q) /\ s[i] = q[i]
    BY <1>2, <1>6, <2>1
  <2>2. CASE s[i] = k
    BY <1>2, <2>2
  <2> QED
    BY <1>5, <2>1, <2>2
<1>8. ASSUME NEW i \in 1 .. Len(s), NEW j \in 1 .. Len(s), i < j
      PROVE  s[i] # s[j] /\ TsOf(s[i]) <= TsOf(s[j])
  <2>1. i \in 1 .. Len(q) /\ s[i] = q[i]
    BY <1>1, <1>4, <1>8
  <2>2. CASE j \in 1 .. Len(q)
    BY <1>1, <1>4, <1>8, <2>1, <2>2 DEF Window
  <2>3. CASE j = Len(q) + 1
    BY <1>2, <1>4, <1>6, <1>7, <2>1, <2>3
  <2> QED
    BY <1>5, <2>2, <2>3
<1>9. PICK r \in Seq(Trades) : r = LastOf(s, DedupLimit) /\ r = seen' /\ lastTs' = t
  <2>1. Len(s) <= DedupLimit + 1
    BY <1>1, <1>4, ConstantParts
  <2>2. LastOf(s, DedupLimit) \in Seq(Trades)
    BY <2>1, LastOfRight, ConstantParts
  <2> QED
    BY <1>1, <1>2, <1>3, <2>2 DEF Remember
<1>10. Len(s) <= DedupLimit + 1 /\ DedupLimit \in Nat
  BY <1>1, <1>4, ConstantParts
<1>11. r = s \/ WithoutFirst(r, s, DedupLimit)
  BY <1>9, <1>10, LastOfRight
<1>12. CASE r = s
  <2>1. Window(r, t)
    BY <1>7, <1>8, <1>12 DEF Window
  <2>2. ASSUME NEW j \in Trades, Stale(j) \/ j = k PROVE StaleIn(r, t, j)
    <3>1. CASE j = k
      BY <1>1, <1>4, <1>12, <3>1 DEF StaleIn
    <3>2. CASE \E i \in 1 .. Len(q) : q[i] = j
      BY <1>1, <1>4, <1>12, <3>2 DEF StaleIn
    <3>3. CASE TsOf(j) < lastTs
      BY <1>2, <1>6, <3>3, BrokerParts DEF StaleIn
    <3> QED
      BY <1>1, <2>2, <3>1, <3>2, <3>3 DEF Stale
  <2> QED
    BY <1>9, <2>1, <2>2
<1>13. CASE Len(s) = DedupLimit + 1 /\ Len(r) = DedupLimit /\ \A i \in 1 .. DedupLimit : r[i] = s[i + 1]
  <2>1. \A i \in 1 .. Len(r) : i + 1 \in 1 .. Len(s) /\ r[i] = s[i + 1]
    BY <1>10, <1>13
  <2>2. Window(r, t)
    <3>1. ASSUME NEW i \in 1 .. Len(r), NEW j \in 1 .. Len(r), i < j
          PROVE  r[i] # r[j] /\ TsOf(r[i]) <= TsOf(r[j])
      <4>1. i + 1 < j + 1
        BY <3>1, <1>10, <1>13
      <4> QED
        BY <1>8, <2>1, <4>1
    <3>2. \A i \in 1 .. Len(r) : TsOf(r[i]) <= t
      BY <1>7, <2>1
    <3> QED
      BY <3>1, <3>2 DEF Window
  (* The trade that falls out is older than the newest second.             *)
  <2>3. 1 \in 1 .. Len(s) /\ TsOf(s[1]) < t
    <3>1. 1 \in 1 .. Len(s)
      BY <1>10, <1>13
    <3>2. SUFFICES ASSUME TsOf(s[1]) = t PROVE FALSE
      BY <1>2, <1>5, <1>7, <3>1
    <3>3. \A i \in 1 .. Len(s) : s[i] \in At(t)
      <4> SUFFICES ASSUME NEW i \in 1 .. Len(s) PROVE s[i] \in At(t)
        OBVIOUS
      <4>1. TsOf(s[1]) <= TsOf(s[i])
        <5>1. CASE i = 1
          BY <1>5, <5>1
        <5>2. CASE i # 1
          <6>1. 1 < i
            BY <5>2
          <6> QED
            BY <1>8, <3>1, <6>1
        <5> QED
          BY <5>1, <5>2
      <4>2. TsOf(s[i]) = t
        BY <1>2, <1>5, <1>7, <3>2, <4>1
      <4> QED
        BY <1>5, <4>2 DEF At
    <3>4. PICK h : h = [i \in 1 .. DedupLimit + 1 |-> s[i]]
      OBVIOUS
    <3>5. h \in [1 .. DedupLimit + 1 -> At(t)]
      BY <1>13, <3>3, <3>4
    <3>6. \A i, j \in 1 .. DedupLimit + 1 : i # j => h[i] # h[j]
      <4> SUFFICES ASSUME NEW i \in 1 .. DedupLimit + 1, NEW j \in 1 .. DedupLimit + 1, i # j
                   PROVE  s[i] # s[j]
        BY <3>4
      <4>1. i < j \/ j < i
        OBVIOUS
      <4> QED
        BY <1>8, <1>13, <4>1
    <3>7. DedupLimit + 1 <= Cardinality(At(t))
      <4>1. h \in Injection(1 .. DedupLimit + 1, At(t))
        BY <3>5, <3>6 DEF Injection, IsInjective
      <4>2. Cardinality(1 .. DedupLimit + 1) <= Cardinality(At(t))
        BY <4>1, TradesFinite, FS_Injection
      <4>3. 1 \in Int /\ DedupLimit + 1 \in Int
        BY <1>10
      <4>4. Cardinality(1 .. DedupLimit + 1) = IF 1 > DedupLimit + 1 THEN 0 ELSE (DedupLimit + 1) - 1 + 1
        BY <4>3, FS_Interval
      <4> QED
        BY <1>10, <4>2, <4>4
    <3>8. Cardinality(At(t)) <= PerTick
      BY <1>2 DEF ExecutedRight
    <3> QED
      BY <1>10, <3>7, <3>8, TradesFinite, ConstantParts
  <2>4. ASSUME NEW j \in Trades, Stale(j) \/ j = k PROVE StaleIn(r, t, j)
    <3>1. CASE \E i \in 1 .. Len(s) : s[i] = j
      <4>1. PICK i \in 1 .. Len(s) : s[i] = j
        BY <3>1
      <4>2. CASE i = 1
        BY <2>3, <4>1, <4>2 DEF StaleIn
      <4>3. CASE i # 1
        <5>1. i - 1 \in 1 .. Len(r) /\ r[i - 1] = s[(i - 1) + 1] /\ (i - 1) + 1 = i
          BY <1>10, <1>13, <4>3
        <5> QED
          BY <4>1, <5>1 DEF StaleIn
      <4> QED
        BY <4>2, <4>3
    <3>2. CASE TsOf(j) < lastTs
      BY <1>2, <1>6, <3>2, BrokerParts DEF StaleIn
    <3>3. (\E i \in 1 .. Len(q) : q[i] = j) \/ j = k => \E i \in 1 .. Len(s) : s[i] = j
      BY <1>1, <1>4
    <3> QED
      BY <1>1, <2>4, <3>1, <3>2, <3>3 DEF Stale
  <2> QED
    BY <1>9, <2>2, <2>4
<1> QED
  BY <1>11, <1>12, <1>13 DEF WithoutFirst

FreshAction == BufferTrade \/ OrphanTrade \/ RecordTrade

LEMMA FreshParts ==
  ASSUME BrokerTyped, QueuesTyped, FreshAction
  PROVE  /\ tradeQ # << >> /\ Head(tradeQ) \in Trades /\ OrderOf(Head(tradeQ)) \in Orders
         /\ ~ Stale(Head(tradeQ)) /\ Remember(Head(tradeQ)) /\ tradeQ' = Tail(tradeQ)
         /\ UNCHANGED <<broker, acks, orderQ, requests, saved, unnamed, counters>>
BY HeadTrade DEF FreshAction, BufferTrade, OrphanTrade, RecordTrade, FreshTrade, ConsumeTrade

LEMMA WindowsStep ==
  ASSUME TypeInv, TypeInv', Grown, WindowsRight, [Next]_vars
  PROVE  WindowsRight'
<1>1. BrokerTyped /\ BrokerTyped' /\ QueuesTyped /\ DedupTyped /\ ExecutedRight
  BY TypeParts, PTL DEF TypeInv
<1>2. PICK s, last, v : s = seen' /\ last = lastTs' /\ v = saved'
  OBVIOUS
<1>3. Remembers(seen, lastTs) /\ Remembers(saved.seen, saved.lastTs)
  BY <1>1, SavedParts DEF DedupTyped
<1>4. Remembers(s, last) /\ Window(s, last)
  <2>1. CASE UNCHANGED dedup
    BY <1>2, <1>3, <2>1 DEF dedup, WindowsRight
  <2>2. CASE FreshAction
    BY <1>1, <1>2, <1>3, <2>2, FreshParts, RememberTyped, RememberKeeps DEF WindowsRight
  <2>3. CASE Restart
    BY <1>2, <1>3, <2>3 DEF Restart, WindowsRight
  <2> QED
    BY <2>1, <2>2, <2>3, StepParts DEF FreshAction
<1>5. Remembers(v.seen, v.lastTs) /\ Window(v.seen, v.lastTs)
  <2>1. CASE v = saved
    BY <1>3, <2>1 DEF WindowsRight
  <2>2. CASE Persist
    BY <1>2, <1>3, <2>1, <2>2 DEF Persist, WindowsRight
  <2>3. CASE v = NothingSaved
    <3>1. << >> \in Seq(Trades) /\ Len(<< >>) = 0
      BY EmptySeq
    <3> QED
      BY <2>3, <3>1, ConstantParts DEF NothingSaved, Remembers, Window, Stamp
  <2>4. CASE Restart
    BY <1>2, <2>1, <2>3, <2>4 DEF Restart
  <2> QED
    BY <1>2, <2>1, <2>2, <2>4, StepParts
<1>6. Window(s, last)' /\ Window(v.seen, v.lastTs)'
  BY <1>1, <1>4, <1>5, WindowGrows
<1> QED
  BY <1>2, <1>6 DEF WindowsRight, Window

(* What a step books: nothing, the trade it takes from the stream, or it   *)
(* forgets all.                                                            *)
LEMMA StepBooks ==
  ASSUME BrokerTyped, QueuesTyped, Sound(book), [Next]_vars
  PROVE  \/ SameHeld(book, book') /\ UNCHANGED dedup
         \/ FreshAction /\ Gains(book, book', Head(tradeQ))
         \/ Restart
<1>1. CASE UNCHANGED book
  <2>1. SameHeld(book, book')
    BY <1>1 DEF SameHeld
  <2>2. ASSUME FreshAction PROVE Gains(book, book', Head(tradeQ))
    BY <2>2, FreshBook DEF FreshAction
  <2> QED
    BY <2>1, <2>2, StepParts DEF FreshAction
<1>2. CASE HandleAck
  BY <1>2, AckBook DEF HandleAck
<1>3. CASE HandleOrder
  BY <1>3, OrderBook DEF HandleOrder
<1>4. CASE FreshAction
  BY <1>4, FreshBook DEF FreshAction
<1> QED
  BY <1>1, <1>2, <1>3, <1>4, StepParts DEF FreshAction

LEMMA BookedStep ==
  ASSUME TypeInv, TypeInv', Grown, WindowsRight, BookedRight, [Next]_vars
  PROVE  BookedRight'
<1>1. BrokerTyped /\ BrokerTyped' /\ QueuesTyped /\ Sound(book) /\ DedupTyped /\ ExecutedRight
  BY TypeParts, PTL DEF TypeInv
<1>2. PICK c : c = book'
  OBVIOUS
<1>3. \A k \in Trades : StaleIn(seen', lastTs', k) => Stale(k)'
  BY <1>1, Grows DEF StaleIn, Stale
<1>4. SUFFICES ASSUME NEW o \in Orders
               PROVE  OnceIn(c, o) /\ \A k \in HeldIn(c, o) : Stale(k)'
  BY <1>2 DEF BookedRight, HeldIn, OnceIn
<1>5. OnceIn(book, o) /\ \A k \in HeldIn(book, o) : Stale(k) /\ k \in Trades /\ OrderOf(k) = o
  BY <1>1, HeldTrades DEF BookedRight
<1>6. CASE SameHeld(book, book') /\ UNCHANGED dedup
  <2>1. HeldIn(c, o) = HeldIn(book, o) /\ OnceIn(c, o)
    BY <1>2, <1>5, <1>6 DEF SameHeld
  <2>2. \A k \in Trades : Stale(k) => StaleIn(seen', lastTs', k)
    BY <1>6 DEF dedup, Stale, StaleIn
  <2> QED
    BY <1>3, <1>5, <2>1, <2>2
<1>7. CASE FreshAction /\ Gains(book, book', Head(tradeQ))
  <2>1. PICK n \in Trades : /\ n = Head(tradeQ) /\ OrderOf(n) \in Orders
                            /\ ~ Stale(n) /\ Remember(n) /\ Gains(book, c, n)
    BY <1>1, <1>2, <1>7, FreshParts
  <2>2. /\ HeldIn(c, o) = IF o = OrderOf(n) THEN HeldIn(book, o) \cup {n} ELSE HeldIn(book, o)
        /\ OnceIn(book, o) /\ n \notin HeldIn(book, o) => OnceIn(c, o)
    BY <1>1, <2>1, GainRight
  <2>3. n \notin HeldIn(book, o)
    BY <1>5, <2>1
  <2>4. \A j \in Trades : Stale(j) \/ j = n => StaleIn(seen', lastTs', j)
    BY <1>1, <2>1, RememberKeeps DEF DedupTyped, WindowsRight
  <2> QED
    BY <1>3, <1>5, <2>1, <2>2, <2>3, <2>4
<1>8. CASE Restart
  <2>1. c.buffered[o] = << >> /\ c.ledger[o] = << >> /\ Len(<< >>) = 0
    BY <1>1, <1>2, <1>8, RestartBook, EmptySeq
  <2> QED
    BY <2>1 DEF HeldIn, Held, OnceIn, Once
<1> QED
  BY <1>1, <1>6, <1>7, <1>8, StepBooks

LEMMA OnceParts ==
  ASSUME Sound(book)
  PROVE  RecordedOnce <=> \A o \in Orders : OnceIn(book, o)
<1>1. ASSUME NEW o \in Orders
      PROVE  OnceIn(book, o) <=>
               /\ IsInjective(book.buffered[o])
               /\ IsInjective([i \in 1 .. Len(book.ledger[o]) |-> book.ledger[o][i].trade])
               /\ Buffered(o) \cap InLedger(o) = {}
  <2>1. PICK s \in Seq(Trades), l \in Seq(Marks) : s = book.buffered[o] /\ l = book.ledger[o]
    BY SoundParts DEF Tidy
  <2>2. DOMAIN s = 1 .. Len(s)
    BY LenProperties
  <2>3. IsInjective(s) <=> \A i, j \in 1 .. Len(s) : s[i] = s[j] => i = j
    BY <2>2 DEF IsInjective
  <2>4. IsInjective([i \in 1 .. Len(l) |-> l[i].trade])
          <=> \A i, j \in 1 .. Len(l) : l[i].trade = l[j].trade => i = j
    BY DEF IsInjective
  <2>5. Buffered(o) \cap InLedger(o) = {} <=> \A i \in 1 .. Len(s), j \in 1 .. Len(l) : s[i] # l[j].trade
    BY <2>1 DEF Buffered, InLedger
  <2> QED
    BY <2>1, <2>3, <2>4, <2>5 DEF OnceIn, Once
<1> QED
  BY <1>1 DEF RecordedOnce

OnceInv == TypeInv /\ WindowsRight /\ BookedRight

LEMMA OnceInit ==
  ASSUME Init
  PROVE  OnceInv
<1>1. TypeInv
  BY TypeInit
<1>2. Len(<< >>) = 0
  BY EmptySeq
<1>3. WindowsRight
  BY <1>2 DEF Init, WindowsRight, Window, NothingSaved
<1>4. BookedRight
  <2> SUFFICES ASSUME NEW o \in Orders PROVE OnceIn(book, o) /\ HeldIn(book, o) = {}
    BY DEF BookedRight
  <2>1. book.buffered[o] = << >> /\ book.ledger[o] = << >>
    BY DEF Init, EmptyBook
  <2> QED
    BY <1>2, <2>1 DEF OnceIn, Once, HeldIn, Held
<1> QED
  BY <1>1, <1>3, <1>4 DEF OnceInv

LEMMA OnceStep ==
  ASSUME OnceInv, [Next]_vars
  PROVE  OnceInv'
<1>1. TypeInv' /\ Grown
  BY TypeStep DEF OnceInv
<1> QED
  BY <1>1, WindowsStep, BookedStep DEF OnceInv

(* No trade is booked twice, or booked while it waits, whatever a          *)
(* resubscription makes the gateway repeat, in whatever order              *)
(* acknowledgement, order event and trade arrive, and across restarts of   *)
(* the process within its life: should_process_trade forgets a trade only  *)
(* when it is older than the newest one.                                   *)
THEOREM TradesRecordedOnce == Spec => []RecordedOnce
<1>1. Init => OnceInv
  BY OnceInit
<1>2. OnceInv /\ [Next]_vars => OnceInv'
  BY OnceStep
<1>3. OnceInv => RecordedOnce
  <2> SUFFICES ASSUME OnceInv PROVE RecordedOnce
    OBVIOUS
  <2>1. Sound(book) /\ \A o \in Orders : OnceIn(book, o)
    BY TypeParts DEF OnceInv, TypeInv, BookedRight
  <2> QED
    BY <2>1, OnceParts
<1> QED
  BY <1>1, <1>2, <1>3, PTL DEF Spec

-----------------------------------------------------------------------------
(* No trade waits for what has already happened.                           *)
WaitsRight ==
  \A o \in Orders :
    book.buffered[o] # << >> =>
      IF o \in book.own THEN o \notin DOMAIN book.orders ELSE requests # {}

LEMMA WaitsStep ==
  ASSUME BrokerTyped, QueuesTyped, Sound(book), WaitsRight, [Next]_vars
  PROVE  WaitsRight'
<1>1. SUFFICES ASSUME NEW o \in Orders, book'.buffered[o] # << >>
               PROVE  IF o \in book'.own THEN o \notin DOMAIN book'.orders ELSE requests' # {}
  BY DEF WaitsRight
<1>2. CASE HandleAck
  <2>1. requests' = AckLeft
    BY <1>2 DEF HandleAck, AckLeft
  <2>2. /\ book'.buffered[o] = book.buffered[o] /\ book'.orders = book.orders
        /\ o \in book'.own => o \in book.own \/ o \notin DOMAIN book.orders
        /\ o \notin book'.own => AckLeft # {}
    BY <1>1, <1>2, AckBook
  <2> QED
    BY <1>1, <2>1, <2>2 DEF WaitsRight
<1>3. CASE HandleOrder
  <2>1. requests' = requests
    BY <1>3 DEF HandleOrder
  <2>2. /\ book'.buffered[o] = book.buffered[o] /\ book'.own = book.own
        /\ o \in book'.own /\ o \in DOMAIN book'.orders => o \in DOMAIN book.orders
    BY <1>1, <1>3, OrderBook
  <2> QED
    BY <1>1, <2>1, <2>2 DEF WaitsRight
<1>4. CASE FreshAction
  <2>1. PICK k \in Trades : /\ k = Head(tradeQ) /\ OrderOf(k) \in Orders /\ Gains(book, book', k)
                            /\ requests' = requests
    BY <1>4, FreshParts, FreshBook DEF FreshAction
  <2>2. CASE BufferTrade
    <3>1. /\ book'.own = book.own /\ book'.orders = book.orders
          /\ \/ OrderOf(k) \notin book.own /\ requests # {}
             \/ OrderOf(k) \in book.own /\ OrderOf(k) \notin DOMAIN book.orders
      BY <2>1, <2>2, FreshBook DEF BufferTrade, Owned, Known
    <3>2. CASE o = OrderOf(k)
      BY <2>1, <3>1, <3>2
    <3>3. CASE o # OrderOf(k)
      <4>1. book'.buffered[o] = book.buffered[o]
        BY <2>1, <3>3, GainOthers
      <4> QED
        BY <1>1, <2>1, <3>1, <4>1 DEF WaitsRight
    <3> QED
      BY <3>2, <3>3
  <2>3. CASE OrphanTrade
    <3>1. /\ book'.own = book.own \cup {OrderOf(k)} /\ book'.orders = book.orders
          /\ book'.buffered = book.buffered /\ OrderOf(k) \notin book.own /\ requests = {}
      BY <2>1, <2>3, FreshBook DEF OrphanTrade, Owned, Records
    <3>2. o # OrderOf(k)
      BY <1>1, <3>1 DEF WaitsRight
    <3> QED
      BY <1>1, <2>1, <3>1, <3>2 DEF WaitsRight
  <2>4. CASE RecordTrade
    <3>1. book'.own = book.own /\ book'.orders = book.orders /\ book'.buffered = book.buffered
      BY <2>1, <2>4, FreshBook DEF Records
    <3> QED
      BY <1>1, <2>1, <3>1 DEF WaitsRight
  <2> QED
    BY <1>4, <2>2, <2>3, <2>4 DEF FreshAction
<1>5. CASE Restart
  BY <1>1, <1>5, RestartBook
<1>6. CASE UNCHANGED book /\ requests' # {}
  BY <1>1, <1>6 DEF WaitsRight
<1>7. CASE UNCHANGED book /\ UNCHANGED requests
  BY <1>1, <1>7 DEF WaitsRight
<1>8. ASSUME NEW p \in Own, Emit(p) PROVE UNCHANGED book /\ requests' # {}
  BY <1>8 DEF Emit
<1> QED
  BY <1>2, <1>3, <1>4, <1>5, <1>6, <1>7, <1>8, StepParts DEF FreshAction

-----------------------------------------------------------------------------
(* A process that was not restarted has booked the trades up to some h,    *)
(* and what is on its way goes on from there without a gap.                *)
HeldUpTo(h) == \A k \in Trades : k \in HeldIn(book, OrderOf(k)) <=> k <= h
SeenUpTo(h) == /\ \A i \in 1 .. Len(seen) : seen[i] <= h
               /\ IF h = 0 THEN lastTs = NoTrade ELSE lastTs <= TsOf(h)
GoesOn(q, h) == \A i \in 1 .. Len(q) : q[i] <= h + 1 \/ \E j \in 1 .. i - 1 : q[j] = q[i] - 1
Covers(q, n, h) == \A k \in 1 .. n : k <= h \/ \E i \in 1 .. Len(q) : q[i] = k

Follows(h) == HeldUpTo(h) /\ SeenUpTo(h) /\ GoesOn(tradeQ, h) /\ Covers(tradeQ, forwarded, h)

HistoryRight == restarts = 0 => \E h \in 0 .. Len(executed) : Follows(h)

(* The head of the stream is dropped exactly when it was booked before.    *)
LEMMA HeadStale ==
  ASSUME TypeInv, BookedRight, NEW h \in 0 .. Len(executed), Follows(h), tradeQ # << >>
  PROVE  /\ Head(tradeQ) \in 1 .. Len(executed) /\ Head(tradeQ) <= h + 1
         /\ Stale(Head(tradeQ)) => Head(tradeQ) <= h
         /\ ~ Stale(Head(tradeQ)) => Head(tradeQ) = h + 1
<1>1. BrokerTyped /\ ExecutedRight /\ QueuesTyped /\ Sound(book) /\ DedupTyped
  BY TypeParts DEF TypeInv
<1>2. PICK q \in Seq(Trades) : q = tradeQ /\ q # << >> /\ Len(q) \in Nat \ {0}
  BY <1>1, EmptySeq DEF QueuesTyped
<1>3. PICK k \in Trades : k = Head(q) /\ k = q[1]
  BY <1>2, HeadTrade, HeadTailProperties
<1>4. k <= h + 1
  <2>1. 1 \in 1 .. Len(q) /\ ~ \E j \in 1 .. 1 - 1 : q[j] = q[1] - 1
    BY <1>2
  <2> QED
    BY <1>2, <1>3, <2>1 DEF Follows, GoesOn
<1>5. k \in Nat /\ h \in Nat /\ Len(executed) \in Nat
  BY <1>1, BrokerParts
<1>6. ASSUME Stale(k), k = h + 1 PROVE FALSE
  <2>1. \A i \in 1 .. Len(seen) : seen[i] # k
    <3> SUFFICES ASSUME NEW i \in 1 .. Len(seen), seen[i] = k PROVE FALSE
      OBVIOUS
    <3>1. seen[i] <= h
      BY DEF Follows, SeenUpTo
    <3> QED
      BY <1>5, <1>6, <3>1
  <2>2. TsOf(k) < lastTs
    BY <1>6, <2>1 DEF Stale
  <2>3. TsOf(k) \in Nat
    BY <1>1, BrokerParts
  <2>4. CASE h = 0
    <3>1. lastTs = NoTrade
      BY <2>4 DEF Follows, SeenUpTo
    <3> QED
      BY <2>2, <2>3, <3>1, ConstantParts
  <2>5. CASE h # 0
    <3>1. h \in Trades /\ lastTs <= TsOf(h)
      BY <1>5, <2>5 DEF Follows, SeenUpTo, Trades
    <3>2. TsOf(h) <= TsOf(k)
      BY <1>1, <1>5, <1>6, <3>1 DEF ExecutedRight
    <3>3. TsOf(h) \in Nat /\ lastTs \in Int
      BY <1>1, <3>1, ConstantParts, BrokerParts DEF DedupTyped, Remembers, Stamp
    <3> QED
      BY <2>2, <2>3, <3>1, <3>2, <3>3
  <2> QED
    BY <2>4, <2>5
<1>7. ASSUME k <= h PROVE Stale(k)
  <2>1. k \in HeldIn(book, OrderOf(k)) /\ OrderOf(k) \in Orders
    BY <1>1, <1>7, BrokerParts DEF Follows, HeldUpTo
  <2> QED
    BY <2>1 DEF BookedRight
<1> QED
  BY <1>2, <1>3, <1>4, <1>5, <1>6, <1>7 DEF Trades

(* The stream after its head, when all up to g is booked and the head is   *)
(* one of those.                                                           *)
LEMMA TailFollows ==
  ASSUME NEW q \in Seq(Trades), q # << >>, NEW n \in Nat, NEW h \in Nat, NEW g \in Nat,
         h <= g, q[1] <= g, Trades \subseteq Nat, GoesOn(q, h), Covers(q, n, h)
  PROVE  GoesOn(Tail(q), g) /\ Covers(Tail(q), n, g)
<1>1. Len(q) \in Nat \ {0} /\ \A i \in 1 .. Len(q) : q[i] \in Nat
  BY EmptySeq, ElementOfSeq
<1>2. PICK r \in Seq(Trades) : r = Tail(q) /\ Len(r) = Len(q) - 1 /\ \A i \in 1 .. Len(r) : r[i] = q[i + 1]
  <2>1. /\ Tail(q) \in Seq(Trades) /\ Len(Tail(q)) = Len(q) - 1
        /\ \A i \in 1 .. Len(Tail(q)) : Tail(q)[i] = q[i + 1]
    BY HeadTailProperties
  <2> QED
    BY <2>1
<1>3. GoesOn(r, g)
  <2> SUFFICES ASSUME NEW i \in 1 .. Len(r)
               PROVE  r[i] <= g + 1 \/ \E j \in 1 .. i - 1 : r[j] = r[i] - 1
    BY DEF GoesOn
  <2>1. i + 1 \in 1 .. Len(q) /\ r[i] = q[i + 1] /\ r[i] \in Nat
    BY <1>1, <1>2
  <2>2. q[i + 1] <= h + 1 \/ \E j \in 1 .. (i + 1) - 1 : q[j] = q[i + 1] - 1
    BY <2>1 DEF GoesOn
  <2>3. CASE \E j \in 1 .. (i + 1) - 1 : q[j] = q[i + 1] - 1
    <3>1. PICK j \in 1 .. (i + 1) - 1 : q[j] = q[i + 1] - 1
      BY <2>3
    <3>2. CASE j = 1
      BY <2>1, <3>1, <3>2
    <3>3. CASE j # 1
      <4>1. j - 1 \in 1 .. i - 1 /\ j - 1 \in 1 .. Len(r) /\ (j - 1) + 1 = j
        BY <3>1, <3>3, <1>2
      <4>2. r[j - 1] = q[j]
        BY <1>2, <4>1
      <4> QED
        BY <2>1, <3>1, <4>1, <4>2
    <3> QED
      BY <3>2, <3>3
  <2> QED
    BY <2>1, <2>2, <2>3
<1>4. Covers(r, n, g)
  <2> SUFFICES ASSUME NEW k \in 1 .. n, ~ (k <= g)
               PROVE  \E i \in 1 .. Len(r) : r[i] = k
    BY DEF Covers
  <2>1. PICK i \in 1 .. Len(q) : q[i] = k
    BY DEF Covers
  <2>2. i # 1 /\ i - 1 \in 1 .. Len(r) /\ (i - 1) + 1 = i
    BY <1>1, <1>2, <2>1
  <2> QED
    BY <1>2, <2>1, <2>2
<1> QED
  BY <1>2, <1>3, <1>4

LEMMA FollowsKeeps ==
  ASSUME TypeInv, TypeInv', Grown, NEW h \in 0 .. Len(executed), Follows(h),
         SameHeld(book, book'), UNCHANGED dedup,
         GoesOn(tradeQ', h), Covers(tradeQ', forwarded', h)
  PROVE  h \in 0 .. Len(executed') /\ Follows(h)'
<1>1. BrokerTyped /\ BrokerTyped' /\ Sound(book)
  BY TypeParts, PTL DEF TypeInv
<1>2. PICK c, t : c = book' /\ t = tradeQ'
  OBVIOUS
<1>3. Len(executed) \in Nat /\ Len(executed') \in Nat /\ Len(executed) <= Len(executed')
  BY <1>1, BrokerParts, LenProperties DEF Grown, BrokerTyped
<1>4. \A k \in Trades' : k \in HeldIn(c, OrderOf(k)') <=> k <= h
  <2> SUFFICES ASSUME NEW k \in Trades', NEW o, o = OrderOf(k)'
               PROVE  k \in HeldIn(c, o) <=> k <= h
    OBVIOUS
  <2>1. o \in Orders
    <3>1. executed' \in Seq(Execution') /\ placed' \subseteq Own /\ k \in 1 .. Len(executed')
      BY <1>1 DEF BrokerTyped, Trades
    <3>2. executed'[k] \in Execution'
      BY <3>1, ElementOfSeq
    <3> QED
      BY <3>1, <3>2 DEF OrderOf, Execution, Placeable, Orders
  <2>2. HeldIn(c, o) = HeldIn(book, o)
    BY <1>2, <2>1 DEF SameHeld
  <2>3. CASE k \in Trades
    BY <1>1, <2>2, <2>3, Grows DEF Follows, HeldUpTo
  <2>4. CASE k \notin Trades
    <3>1. k \notin HeldIn(book, o)
      BY <1>1, <2>1, <2>4, HeldTrades
    <3>2. ~ (k <= h)
      BY <1>3, <2>4 DEF Trades
    <3> QED
      BY <2>2, <3>1, <3>2
  <2> QED
    BY <2>3, <2>4
<1>5. SeenUpTo(h)'
  <2>1. seen' = seen /\ lastTs' = lastTs
    BY DEF dedup
  <2>2. h # 0 => TsOf(h)' = TsOf(h)
    BY <1>1, <1>3, Grows DEF Trades
  <2> QED
    BY <2>1, <2>2 DEF Follows, SeenUpTo
<1>6. HeldUpTo(h)'
  BY <1>2, <1>4 DEF HeldUpTo, HeldIn
<1>7. GoesOn(tradeQ, h)' /\ Covers(tradeQ, forwarded, h)'
  BY DEF GoesOn, Covers
<1> QED
  BY <1>3, <1>5, <1>6, <1>7 DEF Follows

LEMMA FreshFollows ==
  ASSUME TypeInv, BookedRight, NEW h \in 0 .. Len(executed), Follows(h), FreshAction
  PROVE  h + 1 \in 0 .. Len(executed') /\ Follows(h + 1)'
<1>1. BrokerTyped /\ QueuesTyped /\ Sound(book) /\ DedupTyped /\ ExecutedRight
  BY TypeParts DEF TypeInv
<1>2. PICK k \in Trades : /\ k = Head(tradeQ) /\ tradeQ # << >> /\ tradeQ' = Tail(tradeQ)
                          /\ ~ Stale(k) /\ Remember(k) /\ UNCHANGED <<broker, counters>>
  BY <1>1, FreshParts
<1>3. k = h + 1 /\ h \in Nat /\ k \in 1 .. Len(executed) /\ Len(executed) \in Nat
  BY <1>1, <1>2, HeadStale, BrokerParts DEF Trades
<1>4. UNCHANGED <<executed, forwarded, placed, clock>>
  BY <1>2 DEF broker
<1>5. PICK c : c = book' /\ Gains(book, c, k)
  BY <1>1, <1>2, FreshBook DEF FreshAction
<1>6. ASSUME NEW j \in Trades PROVE j \in HeldIn(c, OrderOf(j)) <=> j <= k
  <2>1. OrderOf(j) \in Orders /\ OrderOf(k) \in Orders /\ j \in Nat
    BY <1>1, BrokerParts
  <2>2. HeldIn(c, OrderOf(j)) = IF OrderOf(j) = OrderOf(k) THEN HeldIn(book, OrderOf(j)) \cup {k}
                                ELSE HeldIn(book, OrderOf(j))
    BY <1>1, <1>5, <2>1, GainRight
  <2>3. j \in HeldIn(book, OrderOf(j)) <=> j <= h
    BY DEF Follows, HeldUpTo
  <2> QED
    BY <1>3, <2>1, <2>2, <2>3
<1>7. HeldUpTo(k)'
  BY <1>4, <1>5, <1>6 DEF HeldUpTo, HeldIn, Trades, OrderOf
<1>8. SeenUpTo(k)'
  <2>1. PICK q \in Seq(Trades) : q = seen /\ Len(q) \in Nat /\ Len(q) <= DedupLimit
    BY <1>1, LenProperties DEF DedupTyped, Remembers
  <2>2. PICK s \in Seq(Trades) : s = Append(q, k)
    <3>1. Append(q, k) \in Seq(Trades)
      BY AppendProperties
    <3> QED
      BY <3>1
  <2>3. Len(s) = Len(q) + 1 /\ s[Len(q) + 1] = k /\ \A i \in 1 .. Len(q) : s[i] = q[i]
    BY <2>2, AppendProperties
  <2>4. \A i \in 1 .. Len(s) : s[i] <= k
    <3> SUFFICES ASSUME NEW i \in 1 .. Len(s) PROVE s[i] <= k
      OBVIOUS
    <3>1. CASE i = Len(q) + 1
      BY <1>3, <2>3, <3>1
    <3>2. CASE i # Len(q) + 1
      <4>1. i \in 1 .. Len(q)
        BY <2>1, <2>3, <3>2
      <4>2. s[i] = q[i] /\ q[i] <= h /\ q[i] \in Trades
        BY <2>1, <2>3, <4>1, ElementOfSeq DEF Follows, SeenUpTo
      <4>3. q[i] \in Nat
        BY <1>1, <4>2, BrokerParts
      <4> QED
        BY <1>3, <4>2, <4>3
    <3> QED
      BY <3>1, <3>2
  <2>5. PICK r : r = LastOf(s, DedupLimit) /\ seen' = r /\ lastTs' = TsOf(k)
    BY <1>2, <2>1, <2>2 DEF Remember
  <2>6. Len(s) <= DedupLimit + 1 /\ DedupLimit \in Nat
    BY <2>1, <2>3, ConstantParts
  <2>7. r = s \/ WithoutFirst(r, s, DedupLimit)
    BY <2>5, <2>6, LastOfRight
  <2>8. \A i \in 1 .. Len(r) : r[i] <= k
    <3>1. CASE WithoutFirst(r, s, DedupLimit)
      <4>1. \A i \in 1 .. Len(r) : i + 1 \in 1 .. Len(s) /\ r[i] = s[i + 1]
        BY <2>6, <3>1 DEF WithoutFirst
      <4> QED
        BY <2>4, <4>1
    <3> QED
      BY <2>4, <2>7, <3>1
  <2>9. k # 0 /\ TsOf(k)' = TsOf(k) /\ TsOf(k) \in Nat
    BY <1>1, <1>3, <1>4, BrokerParts DEF TsOf
  <2> QED
    BY <2>5, <2>8, <2>9 DEF SeenUpTo
<1>9. PICK q \in Seq(Trades) : q = tradeQ /\ q # << >> /\ q[1] = k
  BY <1>1, <1>2, HeadTailProperties DEF QueuesTyped
<1>10. GoesOn(q, h) /\ Covers(q, forwarded, h) /\ forwarded \in Nat /\ Trades \subseteq Nat
  BY <1>1, <1>9, BrokerParts DEF Follows
<1>11. GoesOn(Tail(q), k) /\ Covers(Tail(q), forwarded, k)
  <2>1. h <= k /\ q[1] <= k /\ k \in Nat
    BY <1>3, <1>9
  <2> QED
    BY <1>3, <1>9, <1>10, <2>1, TailFollows
<1>12. GoesOn(tradeQ, k)' /\ Covers(tradeQ, forwarded, k)'
  BY <1>2, <1>4, <1>9, <1>11 DEF GoesOn, Covers
<1>13. Follows(k)'
  BY <1>7, <1>8, <1>12 DEF Follows
<1> QED
  BY <1>3, <1>4, <1>13

LEMMA StreamParts ==
  ASSUME [Next]_vars
  PROVE  /\ UNCHANGED restarts \/ Restart
         /\ \/ UNCHANGED <<tradeQ, forwarded>>
            \/ Forward \/ (\E k \in 0 .. Len(executed) : Resubscribe(k))
            \/ DropTrade \/ FreshAction \/ Restart
<1> USE DEF vars, broker, queues, dedup, counters
<1>1. CASE (\E o \in Orders : Fill(o)) \/ Tick
  BY <1>1 DEF Fill, Tick
<1>2. CASE \E o \in Own, n \in Own \cup {NoNumber} : n \in {o, NoNumber} /\ Answer(o, n)
  BY <1>2 DEF Answer
<1>3. CASE \E o \in Orders, existing \in BOOLEAN : Report(o, existing)
  BY <1>3 DEF Report
<1>4. CASE Forward
  BY <1>4 DEF Forward
<1>5. CASE \E k \in 0 .. Len(executed) : Resubscribe(k)
  BY <1>5 DEF Resubscribe
<1>6. CASE \E o \in Own : Emit(o)
  BY <1>6 DEF Emit
<1>7. CASE Timer
  BY <1>7 DEF Timer
<1>8. CASE HandleAck
  BY <1>8 DEF HandleAck
<1>9. CASE HandleOrder
  BY <1>9 DEF HandleOrder
<1>10. CASE DropTrade
  BY <1>10 DEF DropTrade, ConsumeTrade
<1>11. CASE FreshAction
  BY <1>11 DEF FreshAction, BufferTrade, OrphanTrade, RecordTrade, FreshTrade, ConsumeTrade
<1>12. CASE UNCHANGED vars
  BY <1>12
<1> HIDE DEF vars, broker, queues, dedup, counters
<1> QED
  BY <1>1, <1>2, <1>3, <1>4, <1>5, <1>6, <1>7, <1>8, <1>9, <1>10, <1>11, <1>12
     DEF Next, Environment, Runtime, HandleTrade, FreshAction

LEMMA HistoryStep ==
  ASSUME TypeInv, TypeInv', Grown, BookedRight, HistoryRight, [Next]_vars
  PROVE  HistoryRight'
<1>1. BrokerTyped /\ BrokerTyped' /\ QueuesTyped /\ Sound(book) /\ RestTyped
  BY TypeParts, PTL DEF TypeInv
<1>2. SUFFICES ASSUME restarts' = 0
               PROVE  \E g \in 0 .. Len(executed') : Follows(g)'
  BY DEF HistoryRight
<1>3. restarts = 0 /\ ~ Restart
  <2>1. CASE Restart
    <3>1. restarts' = restarts + 1 /\ restarts \in Nat
      BY <1>1, <2>1, ConstantParts DEF Restart, RestTyped
    <3> QED
      BY <1>2, <3>1
  <2> QED
    BY <1>2, <2>1, StreamParts
<1>4. PICK h \in 0 .. Len(executed) : Follows(h)
  BY <1>3 DEF HistoryRight
<1>5. PICK q \in Seq(Trades) : q = tradeQ /\ GoesOn(q, h) /\ Covers(q, forwarded, h) /\ Len(q) \in Nat
  BY <1>1, <1>4, LenProperties DEF Follows, QueuesTyped
<1>6. h \in Nat /\ forwarded \in Nat /\ Trades \subseteq Nat /\ Len(executed) \in Nat
  BY <1>1, BrokerParts
<1>7. CASE FreshAction
  <2>1. h + 1 \in 0 .. Len(executed') /\ Follows(h + 1)'
    BY <1>4, <1>7, FreshFollows
  <2> QED
    BY <2>1
<1>8. ASSUME ~ FreshAction PROVE \E g \in 0 .. Len(executed') : Follows(g)'
  <2>1. SameHeld(book, book') /\ UNCHANGED dedup
    BY <1>1, <1>3, <1>8, StepBooks
  <2>2. GoesOn(tradeQ', h) /\ Covers(tradeQ', forwarded', h)
    <3>1. CASE UNCHANGED <<tradeQ, forwarded>>
      BY <1>5, <3>1
    <3>2. CASE Forward
      <4>1. PICK n : n = forwarded + 1 /\ n \in Nat
        BY <1>6
      <4>2. PICK r \in Seq(Trades) : /\ r = Append(q, n) /\ Len(r) = Len(q) + 1 /\ r[Len(q) + 1] = n
                                     /\ \A i \in 1 .. Len(q) : r[i] = q[i]
        <5>1. n \in Trades
          BY <1>1, <1>6, <3>2, <4>1 DEF Forward, Trades
        <5>2. /\ Append(q, n) \in Seq(Trades) /\ Len(Append(q, n)) = Len(q) + 1
              /\ Append(q, n)[Len(q) + 1] = n /\ \A i \in 1 .. Len(q) : Append(q, n)[i] = q[i]
          BY <5>1, AppendProperties
        <5> QED
          BY <5>2
      <4>3. GoesOn(r, h)
        <5> SUFFICES ASSUME NEW i \in 1 .. Len(r)
                     PROVE  r[i] <= h + 1 \/ \E j \in 1 .. i - 1 : r[j] = r[i] - 1
          BY DEF GoesOn
        <5>1. CASE i = Len(q) + 1
          <6>1. r[i] = n /\ n - 1 = forwarded
            BY <1>6, <4>1, <4>2, <5>1
          <6>2. CASE forwarded = 0 \/ forwarded <= h
            BY <1>6, <4>1, <6>1, <6>2
          <6>3. CASE ~ (forwarded = 0 \/ forwarded <= h)
            <7>1. PICK j \in 1 .. Len(q) : q[j] = forwarded
              BY <1>5, <1>6, <6>3 DEF Covers
            <7>2. j \in 1 .. i - 1 /\ r[j] = forwarded
              BY <1>5, <4>2, <5>1, <7>1
            <7> QED
              BY <6>1, <7>2
          <6> QED
            BY <6>2, <6>3
        <5>2. CASE i # Len(q) + 1
          <6>1. i \in 1 .. Len(q) /\ r[i] = q[i] /\ \A j \in 1 .. i - 1 : r[j] = q[j]
            BY <1>5, <4>2, <5>2
          <6> QED
            BY <1>5, <6>1 DEF GoesOn
        <5> QED
          BY <5>1, <5>2
      <4>4. Covers(r, n, h)
        <5> SUFFICES ASSUME NEW k \in 1 .. n, ~ (k <= h) PROVE \E i \in 1 .. Len(r) : r[i] = k
          BY DEF Covers
        <5>1. CASE k = n
          BY <1>5, <4>2, <5>1
        <5>2. CASE k # n
          <6>1. k \in 1 .. forwarded
            BY <1>6, <4>1, <5>2
          <6>2. PICK i \in 1 .. Len(q) : q[i] = k
            BY <1>5, <6>1 DEF Covers
          <6> QED
            BY <1>5, <4>2, <6>2
        <5> QED
          BY <5>1, <5>2
      <4> QED
        BY <1>5, <3>2, <4>1, <4>2, <4>3, <4>4 DEF Forward
    <3>3. ASSUME NEW k \in 0 .. Len(executed), Resubscribe(k)
          PROVE  GoesOn(tradeQ', h) /\ Covers(tradeQ', forwarded', h)
      <4>1. tradeQ' = q /\ forwarded' = k /\ k < forwarded
        BY <1>5, <3>3 DEF Resubscribe, queues
      <4>2. \A j \in 1 .. k : j \in 1 .. forwarded
        BY <1>6, <4>1
      <4> QED
        BY <1>5, <4>1, <4>2 DEF Covers
    <3>4. CASE DropTrade
      <4>1. q # << >> /\ tradeQ' = Tail(q) /\ forwarded' = forwarded /\ Stale(Head(q))
        BY <1>5, <3>4 DEF DropTrade, ConsumeTrade, broker
      <4>2. q[1] <= h
        <5>1. Head(q) <= h
          BY <1>4, <1>5, <4>1, HeadStale
        <5>2. Head(q) = q[1]
          BY <4>1
        <5> QED
          BY <5>1, <5>2
      <4>3. h <= h
        BY <1>6
      <4> QED
        BY <1>5, <1>6, <4>1, <4>2, <4>3, TailFollows
    <3> QED
      BY <1>3, <1>8, <3>1, <3>2, <3>3, <3>4, StreamParts
  <2>3. h \in 0 .. Len(executed') /\ Follows(h)'
    BY <1>4, <2>1, <2>2, FollowsKeeps
  <2> QED
    BY <2>3
<1> QED
  BY <1>7, <1>8

-----------------------------------------------------------------------------
(* Own orders: an acknowledgement names the order of its request, or none; *)
(* a process that was not restarted has a request outstanding for each of  *)
(* its orders until the acknowledgement was handled.                       *)
NamedAnswers == {a \in Answers : a.order \in {a.req, NoNumber}}
AcksRight == acks \in Seq(NamedAnswers)

RequestsRight == restarts = 0 => placed \subseteq requests \cup book.own \cup unnamed

LEMMA AcksStep ==
  ASSUME Grown, AcksRight, [Next]_vars
  PROVE  AcksRight'
<1>1. NamedAnswers \subseteq NamedAnswers'
  BY DEF Grown, NamedAnswers, Answers
<1>2. acks \in Seq(NamedAnswers')
  BY <1>1, SeqMonotonic DEF AcksRight
<1>3. CASE UNCHANGED acks
  BY <1>2, <1>3 DEF AcksRight
<1>4. ASSUME NEW o \in Own, NEW n \in Own \cup {NoNumber}, n \in {o, NoNumber}, Answer(o, n)
      PROVE  AcksRight'
  <2>1. o \in answered' /\ n \in answered' \cup {NoNumber}
    BY <1>4 DEF Answer
  <2>2. PICK a : a = [req |-> o, order |-> n]
    OBVIOUS
  <2>3. a \in NamedAnswers'
    BY <1>4, <2>1, <2>2 DEF NamedAnswers, Answers
  <2>4. Append(acks, a) \in Seq(NamedAnswers')
    BY <1>2, <2>3, AppendProperties
  <2> QED
    BY <1>4, <2>2, <2>4 DEF Answer, AcksRight
<1>5. CASE HandleAck
  <2>1. Tail(acks) \in Seq(NamedAnswers')
    BY <1>2, <1>5, QueueLemma DEF HandleAck
  <2> QED
    BY <1>5, <2>1 DEF HandleAck, AcksRight
<1>6. CASE Restart
  <2>1. acks' = acks \/ \E n \in 1 .. Len(acks) : acks' = SubSeq(acks, n + 1, Len(acks))
    BY <1>6 DEF Restart, queues
  <2> QED
    BY <1>2, <2>1, QueueLemma DEF AcksRight
<1>7. CASE UNCHANGED queues \/ Forward \/ HandleOrder \/ DropTrade \/ FreshTrade
  BY <1>3, <1>7 DEF queues, Forward, HandleOrder, DropTrade, FreshTrade, ConsumeTrade
<1>8. ASSUME NEW o \in Orders, NEW existing \in BOOLEAN, Report(o, existing) PROVE AcksRight'
  BY <1>3, <1>8 DEF Report
<1> QED
  BY <1>4, <1>5, <1>6, <1>7, <1>8, StepParts

LEMMA HeadNamed ==
  ASSUME AcksRight, HandleAck, AckNamed
  PROVE  Head(acks).order = Head(acks).req
<1>1. Head(acks) \in NamedAnswers
  BY QueueLemma DEF AcksRight, HandleAck
<1> QED
  BY <1>1 DEF NamedAnswers, AckNamed

LEMMA AckUnnamed ==
  ASSUME HandleAck, restarts = 0
  PROVE  unnamed \subseteq unnamed' /\ (~ AckNamed => Head(acks).req \in unnamed') /\ requests' = AckLeft
BY DEF HandleAck, AckNamed, AckLeft

LEMMA RequestsStep ==
  ASSUME TypeInv, Grown, AcksRight, RequestsRight, [Next]_vars
  PROVE  RequestsRight'
<1>1. BrokerTyped /\ QueuesTyped /\ Sound(book) /\ RestTyped
  BY TypeParts DEF TypeInv
<1>2. SUFFICES ASSUME restarts' = 0, NEW p \in placed'
               PROVE  p \in requests' \cup book'.own \cup unnamed'
  BY DEF RequestsRight
<1>3. restarts = 0 /\ ~ Restart
  <2>1. CASE Restart
    <3>1. restarts' = restarts + 1 /\ restarts \in Nat
      BY <1>1, <2>1, ConstantParts DEF Restart, RestTyped
    <3> QED
      BY <1>2, <3>1
  <2> QED
    BY <1>2, <2>1, StreamParts
<1>4. p \in placed => p \in requests \cup book.own \cup unnamed
  BY <1>3 DEF RequestsRight
<1>5. CASE HandleAck
  <2>1. p \in placed /\ AckOwn \subseteq book'.own
    BY <1>1, <1>5, AckBook DEF HandleAck, broker
  <2>2. CASE p = Head(acks).req
    BY <1>3, <1>5, <2>1, <2>2, HeadNamed, AckUnnamed DEF AckOwn
  <2>3. CASE p # Head(acks).req
    BY <1>3, <1>4, <1>5, <2>1, <2>3, AckUnnamed DEF AckOwn, AckLeft
  <2> QED
    BY <2>2, <2>3
<1>6. ASSUME NEW o \in Own, Emit(o) PROVE p \in requests' \cup book'.own \cup unnamed'
  BY <1>4, <1>6 DEF Emit
<1>7. CASE HandleOrder
  <2>1. book'.own = book.own /\ UNCHANGED <<placed, requests, unnamed>>
    BY <1>1, <1>7, OrderBook DEF HandleOrder, broker
  <2> QED
    BY <1>2, <1>4, <2>1
<1>8. CASE FreshAction
  <2>1. book.own \subseteq book'.own /\ UNCHANGED <<placed, requests, unnamed>>
    BY <1>1, <1>8, FreshBook, FreshParts DEF FreshAction, broker
  <2> QED
    BY <1>2, <1>4, <2>1
<1>9. CASE ~ HandleAck /\ ~ HandleOrder /\ ~ FreshAction /\ ~ \E o \in Own : Emit(o)
  <2>1. UNCHANGED <<requests, book, unnamed>>
    BY <1>3, <1>9, StepParts DEF FreshAction
  <2>2. placed' = placed
    BY <1>9, StepParts DEF broker, Fill, Tick, Answer, Forward, Resubscribe
  <2> QED
    BY <1>2, <1>4, <2>1, <2>2
<1> QED
  BY <1>5, <1>6, <1>7, <1>8, <1>9

LEMMA OrphanStep ==
  ASSUME TypeInv, Grown, AcksRight, RequestsRight, OrphanOnlyWhenUnnamed, [Next]_vars
  PROVE  OrphanOnlyWhenUnnamed'
<1>1. BrokerTyped /\ QueuesTyped /\ Sound(book) /\ RestTyped
  BY TypeParts DEF TypeInv
<1>2. PICK c, u : c = book' /\ u = unnamed'
  OBVIOUS
<1>3. SUFFICES ASSUME restarts' = 0, NEW o \in Own, NEW i \in 1 .. Len(c.ledger[o]),
                      ~ c.ledger[o][i].owned
               PROVE  o \in u
  BY <1>2 DEF OrphanOnlyWhenUnnamed
<1>4. restarts = 0 /\ ~ Restart /\ o \in Orders
  <2>1. CASE Restart
    <3>1. restarts' = restarts + 1 /\ restarts \in Nat
      BY <1>1, <2>1, ConstantParts DEF Restart, RestTyped
    <3> QED
      BY <1>3, <3>1
  <2> QED
    BY <1>3, <2>1, StreamParts DEF Orders
<1>5. i \in 1 .. Len(book.ledger[o]) /\ c.ledger[o][i] = book.ledger[o][i] => o \in unnamed
  BY <1>3, <1>4 DEF OrphanOnlyWhenUnnamed
<1>6. o \in Placeable => o \in requests \cup book.own \cup unnamed
  BY <1>4, ConstantParts DEF Placeable, RequestsRight
<1>7. CASE HandleAck
  <2>1. \/ c.ledger[o][i].owned
        \/ i \in 1 .. Len(book.ledger[o]) /\ c.ledger[o][i] = book.ledger[o][i]
        \/ AckLeft = {} /\ o \in Placeable \ AckOwn
    BY <1>1, <1>2, <1>3, <1>4, <1>7, AckBook
  <2>2. CASE AckLeft = {} /\ o \in Placeable \ AckOwn
    <3>1. o \notin book.own
      BY <2>2 DEF AckOwn
    <3>2. CASE o \in unnamed
      BY <1>2, <1>4, <1>7, <3>2, AckUnnamed
    <3>3. CASE o \in requests
      <4>1. o = Head(acks).req
        BY <2>2, <3>3 DEF AckLeft
      <4>2. ~ AckNamed
        BY <1>7, <2>2, <4>1, HeadNamed DEF AckOwn
      <4> QED
        BY <1>2, <1>4, <1>7, <4>1, <4>2, AckUnnamed
    <3> QED
      BY <1>6, <2>2, <3>1, <3>2, <3>3
  <2> QED
    BY <1>2, <1>3, <1>4, <1>5, <1>7, <2>1, <2>2, AckUnnamed
<1>8. CASE HandleOrder
  <2>1. \/ c.ledger[o][i].owned
        \/ i \in 1 .. Len(book.ledger[o]) /\ c.ledger[o][i] = book.ledger[o][i]
    BY <1>1, <1>2, <1>3, <1>4, <1>8, OrderBook
  <2> QED
    BY <1>2, <1>3, <1>5, <1>8, <2>1 DEF HandleOrder
<1>9. CASE FreshAction
  <2>1. PICK k \in Trades : /\ k = Head(tradeQ) /\ OrderOf(k) \in Orders /\ Gains(book, c, k)
                            /\ OrderOf(k) \in Placeable /\ u = unnamed
    BY <1>1, <1>2, <1>9, FreshParts, FreshBook, HeadTrade DEF FreshAction
  <2>2. CASE o # OrderOf(k) \/ BufferTrade
    <3>1. c.ledger[o] = book.ledger[o]
      <4>1. CASE o # OrderOf(k)
        BY <1>1, <1>4, <2>1, <4>1, GainOthers
      <4>2. CASE BufferTrade
        <5>1. Waits(book, book', k)
          BY <1>1, <2>1, <4>2, FreshBook
        <5> QED
          BY <1>2, <5>1 DEF Waits
      <4> QED
        BY <2>2, <4>1, <4>2
    <3> QED
      BY <1>3, <1>5, <2>1, <3>1
  <2>3. CASE o = OrderOf(k) /\ RecordTrade
    <3>1. Records(book, c, k, TRUE)
      BY <1>1, <1>2, <2>1, <2>3, FreshBook
    <3>2. MarkedAs(book, c, o, TRUE)
      BY <1>1, <1>4, <2>1, <2>3, <3>1, RecordRight
    <3> QED
      BY <1>3, <1>5, <2>1, <3>2 DEF MarkedAs
  <2>4. CASE o = OrderOf(k) /\ OrphanTrade
    <3>1. o \notin book.own /\ requests = {}
      BY <2>1, <2>4 DEF OrphanTrade, Owned
    <3> QED
      BY <1>6, <2>1, <2>4, <3>1
  <2> QED
    BY <1>9, <2>2, <2>3, <2>4 DEF FreshAction
<1>10. CASE UNCHANGED book /\ ~ HandleAck
  <2>1. unnamed' = unnamed
    BY <1>4, <1>10, StepParts
  <2> QED
    BY <1>2, <1>3, <1>5, <1>10, <2>1
<1> QED
  BY <1>4, <1>7, <1>8, <1>9, <1>10, StepParts DEF FreshAction

-----------------------------------------------------------------------------
(* The inductive invariant.                                                *)
IInv ==
  /\ OnceInv
  /\ WaitsRight
  /\ AcksRight
  /\ RequestsRight
  /\ HistoryRight
  /\ OrphanOnlyWhenUnnamed

LEMMA InvInit ==
  ASSUME Init
  PROVE  IInv
<1>1. OnceInv /\ Len(<< >>) = 0 /\ << >> \in Seq(NamedAnswers)
  BY OnceInit, EmptySeq
<1>2. \A o \in Orders : book.buffered[o] = << >> /\ book.ledger[o] = << >>
  BY DEF Init, EmptyBook
<1>3. WaitsRight /\ AcksRight /\ RequestsRight
  BY <1>1, <1>2 DEF Init, WaitsRight, AcksRight, RequestsRight
<1>4. OrphanOnlyWhenUnnamed
  <2>1. \A o \in Own : Len(book.ledger[o]) = 0
    BY <1>1, <1>2 DEF Orders
  <2> QED
    BY <2>1 DEF OrphanOnlyWhenUnnamed
<1>5. HistoryRight
  <2>1. Trades = {} /\ 0 \in 0 .. Len(executed)
    BY <1>1 DEF Init, Trades
  <2>2. Follows(0)
    BY <1>1, <2>1 DEF Init, Follows, HeldUpTo, SeenUpTo, GoesOn, Covers
  <2> QED
    BY <2>1, <2>2 DEF HistoryRight
<1> QED
  BY <1>1, <1>3, <1>4, <1>5 DEF IInv

LEMMA InvStep ==
  ASSUME IInv, [Next]_vars
  PROVE  IInv'
<1>1. TypeInv /\ BookedRight /\ OnceInv'
  BY OnceStep DEF IInv, OnceInv
<1>2. TypeInv' /\ Grown
  BY <1>1, TypeStep
<1>3. BrokerTyped /\ QueuesTyped /\ Sound(book)
  BY <1>1, TypeParts DEF TypeInv
<1>4. WaitsRight' /\ AcksRight' /\ RequestsRight' /\ HistoryRight' /\ OrphanOnlyWhenUnnamed'
  BY <1>1, <1>2, <1>3, WaitsStep, AcksStep, RequestsStep, HistoryStep, OrphanStep DEF IInv
<1> QED
  BY <1>1, <1>4 DEF IInv

THEOREM TradesInvariant == Spec => []IInv
<1>1. Init => IInv
  BY InvInit
<1>2. IInv /\ [Next]_vars => IInv'
  BY InvStep
<1> QED
  BY <1>1, <1>2, PTL DEF Spec

LEMMA NothingLost ==
  ASSUME IInv
  PROVE  NoTradeLost
<1>1. BrokerTyped /\ Sound(book) /\ WaitsRight /\ HistoryRight
  BY TypeParts DEF IInv, OnceInv, TypeInv
<1>2. ASSUME restarts = 0, NEW k \in 1 .. forwarded
      PROVE  \/ \E i \in 1 .. Len(tradeQ) : tradeQ[i] = k
             \/ k \in Buffered(OrderOf(k)) \cup InLedger(OrderOf(k))
  <2>1. PICK h \in 0 .. Len(executed) : Follows(h)
    BY <1>1, <1>2 DEF HistoryRight
  <2>2. k <= h \/ \E i \in 1 .. Len(tradeQ) : tradeQ[i] = k
    BY <2>1 DEF Follows, Covers
  <2>3. k \in Trades
    BY <1>1, BrokerParts DEF BrokerTyped, Trades
  <2>4. k <= h => k \in HeldIn(book, OrderOf(k))
    BY <2>1, <2>3 DEF Follows, HeldUpTo
  <2> QED
    BY <2>2, <2>4 DEF HeldIn, Held, Buffered, InLedger
<1> QED
  BY <1>1, <1>2 DEF NoTradeLost, WaitsRight

(* No trade waits for what has already happened, and a process that was    *)
(* not restarted has booked, or has still before it, every trade that was  *)
(* forwarded: what the deduplication drops it had booked before.           *)
THEOREM TradesNotLost == Spec => []NoTradeLost
<1>1. IInv => NoTradeLost
  BY NothingLost
<1> QED
  BY <1>1, TradesInvariant, PTL

(* A process that was not restarted books a fill of one of its orders as   *)
(* an orphan only when the acknowledgement of the order did not name it,   *)
(* in particular never because the fill came before the acknowledgement.   *)
THEOREM TradesOrphans == Spec => []OrphanOnlyWhenUnnamed
<1>1. IInv => OrphanOnlyWhenUnnamed
  BY DEF IInv
<1> QED
  BY <1>1, TradesInvariant, PTL
=============================================================================
