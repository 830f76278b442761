--------------------------- MODULE SimFleetProofs ---------------------------
(***************************************************************************)
(* Theorems of SimFleet, for every fleet, every number of pairs, every day   *)
(* and every setting of the two automations.                                *)
(***************************************************************************)
EXTENDS SimFleet, FiniteSetTheorems, SequenceTheorems, TLAPS

-----------------------------------------------------------------------------
(* Quiet hours. *)

LEMMA HourOf ==
  ASSUME NEW d \in Nat \ {0}, NEW q \in Int, NEW r \in 0 .. d - 1
  PROVE  (q * d + r) % d = r
OBVIOUS

LEMMA DayOf ==
  ASSUME NEW d \in Nat \ {0}, NEW t \in Int
  PROVE  /\ t % d \in 0 .. d - 1
         /\ \E q \in Int : t = q * d + (t % d)
<1>1. t % d \in 0 .. d - 1
  OBVIOUS
<1>2. t = (t \div d) * d + (t % d) /\ t \div d \in Int
  OBVIOUS
<1>3. QED
  BY <1>1, <1>2

\* The hour of any time of the day that begins at m, a midnight.
LEMMA HourAfter ==
  ASSUME NEW d \in Nat \ {0}, NEW q \in Int, NEW u \in Int, q * d <= u, u < q * d + d
  PROVE  u % d = u - q * d
<1> DEFINE m == q * d
<1>1. m \in Int
  OBVIOUS
<1>2. u - m \in 0 .. d - 1 /\ u = m + (u - m)
  BY <1>1
<1>3. QED
  BY <1>2, HourOf

\* The fleet is quiet up to the wake time, and awake for the rest of the day's hours.
LEMMA WakeAtEnd ==
  ASSUME NEW t \in Int, NEW w \in Window, IsQuiet(t, w)
  PROVE  /\ Wake(t, w) \in Int /\ t < Wake(t, w) /\ AwakeLength(w) \in Nat \ {0}
         /\ \A u \in t .. Wake(t, w) - 1 : IsQuiet(u, w)
         /\ \A u \in Wake(t, w) .. Wake(t, w) + AwakeLength(w) - 1 : ~IsQuiet(u, w)
<1> DEFINE d == DayLength
           hour(x) == x % d
           h == hour(t)
<1>1. d \in Nat \ {0} /\ IsWindow(w) /\ w.start \in 0 .. d - 1 /\ w.end \in 0 .. d - 1
      /\ w.start # w.end
  BY QuietAssumption DEF IsQuiet, Window, IsWindow
<1>2. PICK q \in Int : t = q * d + h
  BY <1>1, DayOf
<1>3. h \in 0 .. d - 1
  BY <1>1, DayOf
<1> DEFINE m == q * d
           n == (q + 1) * d
<1>4. m \in Int /\ n = m + d /\ t = m + h /\ t - h = m
  BY <1>1, <1>2, <1>3
<1>5. \A u \in Int : m <= u /\ u < n => hour(u) = u - m
  BY <1>1, <1>4, HourAfter
<1>6. \A u \in Int : n <= u /\ u < n + d => hour(u) = u - n
  <2>1. q + 1 \in Int
    OBVIOUS
  <2>2. QED
    BY <1>1, <2>1, HourAfter
<1>7. Wake(t, w) = IF m + w.end <= t THEN m + w.end + d ELSE m + w.end
  BY <1>4 DEF Wake
<1> DEFINE awake == AwakeLength(w)
<1>8. awake = IF w.start < w.end THEN w.start - w.end + d ELSE w.start - w.end
  <2>1. CASE w.start < w.end
    <3>1. w.start - w.end + d \in 0 .. d - 1 /\ -1 \in Int
      BY <1>1, <2>1
    <3>2. ((-1) * d + (w.start - w.end + d)) % d = w.start - w.end + d
      BY <1>1, <3>1, HourOf
    <3>3. (-1) * d + (w.start - w.end + d) = w.start - w.end
      BY <1>1
    <3>4. QED
      BY <2>1, <3>2, <3>3 DEF AwakeLength
  <2>2. CASE ~(w.start < w.end)
    <3>1. w.start - w.end \in 0 .. d - 1 /\ 0 \in Int
      BY <1>1, <2>2
    <3>2. (0 * d + (w.start - w.end)) % d = w.start - w.end
      BY <1>1, <3>1, HourOf
    <3>3. 0 * d + (w.start - w.end) = w.start - w.end
      BY <1>1
    <3>4. QED
      BY <2>2, <3>2, <3>3 DEF AwakeLength
  <2>3. QED
    BY <2>1, <2>2
<1> HIDE DEF d, hour, h, m, n, awake
<1>9. CASE w.start < w.end
  <2>0. \A x \in Int : IsQuiet(x, w) <=> w.start <= hour(x) /\ hour(x) < w.end
    BY <1>1, <1>9 DEF IsQuiet, hour, d
  <2>1. w.start <= h /\ h < w.end
    BY <2>0 DEF h
  <2>2. Wake(t, w) = m + w.end
    BY <1>1, <1>3, <1>4, <1>7, <2>1
  <2>3. \A u \in m + w.end .. m + d + w.start - 1 : ~IsQuiet(u, w)
    <3>1. SUFFICES ASSUME NEW u \in m + w.end .. m + d + w.start - 1
                   PROVE  hour(u) >= w.end \/ hour(u) < w.start
      BY <1>1, <1>4, <1>9, <2>0 DEF hour
    <3>2. CASE u < n
      BY <1>1, <1>4, <1>5, <3>2
    <3>3. CASE n <= u
      BY <1>1, <1>4, <1>6, <3>3
    <3>4. QED
      BY <1>1, <1>4, <3>2, <3>3
  <2>4. \A u \in t .. m + w.end - 1 : hour(u) = u - m /\ w.start <= u - m /\ u - m < w.end
    BY <1>1, <1>3, <1>4, <1>5, <2>1
  <2>5. awake = w.start - w.end + d /\ awake \in Nat \ {0}
        /\ m + w.end + awake - 1 = m + d + w.start - 1
    BY <1>1, <1>4, <1>9, <1>8
  <2>6. QED
    BY <1>1, <1>3, <1>4, <1>9, <2>0, <2>1, <2>2, <2>3, <2>4, <2>5 DEF awake
<1>10. CASE w.end < w.start /\ h >= w.start
  <2>0. \A x \in Int : IsQuiet(x, w) <=> hour(x) >= w.start \/ hour(x) < w.end
    BY <1>1, <1>10 DEF IsQuiet, hour, d
  <2>1. Wake(t, w) = n + w.end
    BY <1>1, <1>3, <1>4, <1>7, <1>10
  <2>2. \A u \in n + w.end .. n + w.start - 1 : ~IsQuiet(u, w)
    <3>1. \A u \in n + w.end .. n + w.start - 1 : hour(u) = u - n
      BY <1>1, <1>4, <1>6
    <3>2. QED
      BY <1>1, <1>4, <2>0, <3>1
  <2>3. \A u \in t .. n + w.end - 1 : hour(u) >= w.start \/ hour(u) < w.end
    <3>1. SUFFICES ASSUME NEW u \in t .. n + w.end - 1
                   PROVE  hour(u) >= w.start \/ hour(u) < w.end
      OBVIOUS
    <3>2. CASE u < n
      BY <1>1, <1>3, <1>4, <1>5, <1>10, <3>2
    <3>3. CASE n <= u
      BY <1>1, <1>3, <1>4, <1>6, <1>10, <3>3
    <3>4. QED
      BY <1>1, <1>3, <1>4, <3>2, <3>3
  <2>4. awake = w.start - w.end /\ awake \in Nat \ {0}
        /\ n + w.end + awake - 1 = n + w.start - 1
    BY <1>1, <1>4, <1>10, <1>8
  <2>5. QED
    BY <1>1, <1>3, <1>4, <1>10, <2>0, <2>1, <2>2, <2>3, <2>4 DEF awake
<1>11. CASE w.end < w.start /\ h < w.start
  <2>0. \A x \in Int : IsQuiet(x, w) <=> hour(x) >= w.start \/ hour(x) < w.end
    BY <1>1, <1>11 DEF IsQuiet, hour, d
  <2>1. h < w.end
    BY <1>1, <1>3, <1>11, <2>0 DEF h
  <2>2. Wake(t, w) = m + w.end
    BY <1>1, <1>3, <1>4, <1>7, <2>1
  <2>3. \A u \in m + w.end .. m + w.start - 1 : ~IsQuiet(u, w)
    <3>1. \A u \in m + w.end .. m + w.start - 1 : hour(u) = u - m
      BY <1>1, <1>4, <1>5
    <3>2. QED
      BY <1>1, <1>4, <2>0, <3>1
  <2>4. \A u \in t .. m + w.end - 1 : hour(u) = u - m /\ u - m < w.end
    BY <1>1, <1>3, <1>4, <1>5, <2>1
  <2>5. awake = w.start - w.end /\ awake \in Nat \ {0}
        /\ m + w.end + awake - 1 = m + w.start - 1
    BY <1>1, <1>4, <1>11, <1>8
  <2>6. QED
    BY <1>1, <1>3, <1>4, <1>11, <2>0, <2>1, <2>2, <2>3, <2>4, <2>5 DEF awake
<1>12. QED
  BY <1>1, <1>3, <1>9, <1>10, <1>11

-----------------------------------------------------------------------------
(* The order in which a loop meets the members of a finite set: D gives each   *)
(* member those met up to it.                                                  *)

Orders(S, D) ==
  /\ D \in [S -> SUBSET S]
  /\ \A x \in S : x \in D[x]
  /\ \A x, y \in S : x # y => \/ x \in D[y] /\ y \notin D[x]
                              \/ y \in D[x] /\ x \notin D[y]
  /\ \A x, y \in S : x \in D[y] => D[x] \subseteq D[y]

LEMMA RankOnto ==
  ASSUME NEW S, IsFiniteSet(S), NEW D, Orders(S, D)
  PROVE  /\ \A x \in S : Cardinality(D[x]) \in 1 .. Cardinality(S)
         /\ \A x, y \in S : Cardinality(D[x]) = Cardinality(D[y]) => x = y
         /\ \A k \in 1 .. Cardinality(S) : \E x \in S : Cardinality(D[x]) = k
<1> DEFINE rank == [x \in S |-> Cardinality(D[x])]
<1>0. /\ D \in [S -> SUBSET S]
      /\ \A x \in S : x \in D[x]
      /\ \A x, y \in S : x # y => \/ x \in D[y] /\ y \notin D[x]
                                  \/ y \in D[x] /\ x \notin D[y]
      /\ \A x, y \in S : x \in D[y] => D[x] \subseteq D[y]
  BY DEF Orders
<1>1. \A x \in S : /\ IsFiniteSet(D[x]) /\ Cardinality(D[x]) \in Nat
                    /\ Cardinality(D[x]) <= Cardinality(S) /\ Cardinality(D[x]) # 0
  <2>1. SUFFICES ASSUME NEW x \in S
                 PROVE  /\ IsFiniteSet(D[x]) /\ Cardinality(D[x]) \in Nat
                        /\ Cardinality(D[x]) <= Cardinality(S) /\ Cardinality(D[x]) # 0
    OBVIOUS
  <2>2. D[x] \in SUBSET S /\ x \in D[x]
    BY <1>0
  <2>3. IsFiniteSet(D[x]) /\ Cardinality(D[x]) <= Cardinality(S)
    BY <2>2, FS_Subset
  <2>4. QED
    BY <2>2, <2>3, FS_CardinalityType, FS_EmptySet
<1>2. Cardinality(S) \in Nat
  BY FS_CardinalityType
<1>3. rank \in [S -> 1 .. Cardinality(S)]
  BY <1>1, <1>2
<1>4. \A x, y \in S : x \in D[y] /\ y \notin D[x] => Cardinality(D[x]) # Cardinality(D[y])
  <2>1. SUFFICES ASSUME NEW x \in S, NEW y \in S, x \in D[y], y \notin D[x],
                        Cardinality(D[x]) = Cardinality(D[y])
                 PROVE  FALSE
    OBVIOUS
  <2>2. D[x] \in SUBSET D[y]
    BY <1>0, <2>1
  <2>3. D[x] = D[y]
    BY <1>1, <2>1, <2>2, FS_Subset
  <2>4. QED
    BY <1>0, <2>1, <2>3
<1>5. \A x, y \in S : Cardinality(D[x]) = Cardinality(D[y]) => x = y
  BY <1>0, <1>4
<1>6. rank \in Injection(S, 1 .. Cardinality(S))
  BY <1>3, <1>5 DEF Injection, IsInjective
<1>7. IsFiniteSet(1 .. Cardinality(S)) /\ Cardinality(1 .. Cardinality(S)) = Cardinality(S)
  BY <1>2, FS_Interval
<1>8. rank \in Surjection(S, 1 .. Cardinality(S))
  BY <1>6, <1>7, FS_Injection
<1>9. \A k \in 1 .. Cardinality(S) : \E x \in S : Cardinality(D[x]) = k
  BY <1>8 DEF Surjection
<1>10. QED
  BY <1>3, <1>5, <1>9

\* The members of a finite set of numbers, counted from the least.
LEMMA NthMember ==
  ASSUME NEW S, \A i \in S : i \in Nat, IsFiniteSet(S)
  PROVE  \A k \in 1 .. Cardinality(S) : \E i \in S : Cardinality({j \in S : j <= i}) = k
<1> DEFINE D == [i \in S |-> {j \in S : j <= i}]
<1>1. D \in [S -> SUBSET S] /\ \A x \in S : x \in D[x]
  OBVIOUS
<1>2. \A i, j \in S : i \in D[j] <=> i <= j
  OBVIOUS
<1>3. \A i \in S : D[i] = {j \in S : j <= i}
  OBVIOUS
<1> HIDE DEF D
<1>4. \A x, y \in S : x # y => \/ x \in D[y] /\ y \notin D[x]
                               \/ y \in D[x] /\ x \notin D[y]
  <2>1. \A i, j \in S : i # j => (i <= j /\ ~(j <= i)) \/ (j <= i /\ ~(i <= j))
    OBVIOUS
  <2>2. QED
    BY <1>2, <2>1
<1>5. \A x, y \in S : x \in D[y] => D[x] \subseteq D[y]
  <2>1. \A i, j, k \in S : i <= j /\ j <= k => i <= k
    OBVIOUS
  <2>2. QED
    BY <1>1, <1>2, <2>1
<1>6. /\ \A x \in S : Cardinality(D[x]) \in 1 .. Cardinality(S)
      /\ \A x, y \in S : Cardinality(D[x]) = Cardinality(D[y]) => x = y
      /\ \A k \in 1 .. Cardinality(S) : \E x \in S : Cardinality(D[x]) = k
  <2>1. Orders(S, D)
    BY <1>1, <1>4, <1>5 DEF Orders
  <2>2. QED
    BY <2>1, RankOnto
<1>7. QED
  BY <1>3, <1>6

-----------------------------------------------------------------------------
(* The rows. *)

Ends     == Sims \cup {0}
Life     == {"none", "active", "archived", "purged"}
PairRow  == [status : Life, a : Ends, b : Ends, sent : Nat, since : Nat]
QueueRow == [status : {"pending", "sent", "failed", "cancelled"}, due : Nat, attempts : Nat]
Message  == [from : Ends, at : Nat]
Ordered  == {x \in Sims \X Sims : x[1] < x[2]}
Joined(p) == pair[p].status \in {"active", "archived"}

RowsTyped ==
  /\ clock \in Nat
  /\ pair \in [PairIds -> PairRow]
  /\ queue \in [PairIds -> Seq(QueueRow)]
  /\ msgs \in [PairIds -> Seq(Message)]

Inventory == sims \in [Sims -> SimView] /\ \A s \in Sims : sims[s] \in Views[s]

\* A pair has two SIMs; to a row that is not there nothing refers.
RowsWell ==
  \A p \in PairIds :
    /\ Joined(p) => pair[p].a \in Sims /\ pair[p].b \in Sims /\ pair[p].a < pair[p].b
    /\ ~Joined(p) => queue[p] = <<>> /\ msgs[p] = <<>>

\* The rows are numbered as they are created.
Numbered == \E m \in 0 .. MaxPairs : \A p \in PairIds : pair[p].status # "none" <=> p <= m

\* What a sync is about to commit.
SyncWork ==
  /\ DOMAIN sync = Syncs
  /\ \A h \in Syncs : DOMAIN sync[h] = DOMAIN NoSync
  /\ \A h \in Syncs : sync[h].pc = "writing" =>
       /\ sync[h].make \in SUBSET Ordered
       /\ sync[h].drop \in SUBSET {p \in PairIds : pair[p].status # "none"}

PairingInv == RowsTyped /\ Inventory /\ RowsWell /\ Numbered /\ SyncWork

\* What the loops of the other jobs may rely on beside a sync or a purge.
Grown ==
  /\ clock <= clock'
  /\ \A p \in PairIds : Joined(p) =>
       /\ pair'[p].status \in {pair[p].status, "archived", "purged"}
       /\ pair'[p].status # "purged" => /\ pair'[p].a = pair[p].a /\ pair'[p].b = pair[p].b
                                        /\ msgs'[p] = msgs[p]
  /\ \A p \in PairIds : pair[p].status = "purged" => pair'[p].status = "purged"
  /\ \A p \in PairIds : msgs'[p] = msgs[p] \/ msgs'[p] = <<>>
  /\ Pending' \subseteq Pending

LEMMA EmptyRow == NoPair \in PairRow /\ <<>> \in Seq(QueueRow) /\ <<>> \in Seq(Message)
BY DEF NoPair, PairRow, Life, Ends

LEMMA InitPairing == PairingInit => PairingInv
<1> SUFFICES ASSUME PairingInit PROVE PairingInv
  OBVIOUS
<1> USE PairingAssumption DEF PairingInit
<1>1. RowsTyped
  BY EmptyRow DEF RowsTyped
<1>2. Inventory
  <2>1. \A s \in Sims : sims[s] \in SimView
    OBVIOUS
  <2>2. QED
    BY <2>1 DEF Inventory
<1>3. RowsWell
  BY DEF RowsWell, Joined, NoPair
<1>4. Numbered
  <2>1. \A p \in PairIds : pair[p].status # "none" <=> p <= 0
    BY DEF PairIds, NoPair
  <2>2. QED
    BY <2>1 DEF Numbered
<1>5. SyncWork
  BY DEF SyncWork, NoSync
<1>6. QED
  BY <1>1, <1>2, <1>3, <1>4, <1>5 DEF PairingInv

\* A sync that is over, and one that another overtakes.
LEMMA SyncEnds ==
  /\ \A h : Done(h).pc # "writing" /\ DOMAIN Done(h) = DOMAIN NoSync
  /\ NoSync.pc = "idle"
  /\ \A me : DOMAIN me = DOMAIN NoSync =>
       LET old == [me EXCEPT !.fresh = FALSE]
       IN /\ DOMAIN old = DOMAIN NoSync /\ old.fresh = FALSE /\ old.pc = me.pc
          /\ old.make = me.make /\ old.drop = me.drop
          /\ old.seen = me.seen /\ old.was = me.was
<1>1. DOMAIN NoSync = {"pc", "seen", "was", "drop", "make", "heal", "fresh"} /\ NoSync.pc = "idle"
  BY DEF NoSync
<1>2. \A h : Done(h).pc # "writing" /\ DOMAIN Done(h) = DOMAIN NoSync
  BY DEF Done, NoSync
<1>3. QED
  BY <1>1, <1>2

-----------------------------------------------------------------------------
(* A commit of sync(). *)

\* The order of the loop over the couples.
LEMMA BeforeOrders ==
  ASSUME NEW made \in SUBSET Ordered
  PROVE  /\ IsFiniteSet(made) /\ Cardinality(made) \in Nat
         /\ Orders(made, [x \in made |-> {y \in made : y = x \/ Before(y, x)}])
<1> DEFINE D == [x \in made |-> {y \in made : y = x \/ Before(y, x)}]
<1>1. IsFiniteSet(made) /\ Cardinality(made) \in Nat
  <2>1. IsFiniteSet(Sims \X Sims)
    BY PairingAssumption, FS_Product
  <2>2. made \in SUBSET (Sims \X Sims)
    BY DEF Ordered
  <2>3. QED
    BY <2>1, <2>2, FS_Subset, FS_CardinalityType
<1>2. \A x \in made : x[1] \in Nat /\ x[2] \in Nat /\ x = <<x[1], x[2]>>
  <2>1. \A x \in made : x \in Sims \X Sims
    BY DEF Ordered
  <2>2. \A s \in Sims : s \in Nat
    BY PairingAssumption
  <2>3. QED
    BY <2>1, <2>2
<1>3. /\ D \in [made -> SUBSET made]
      /\ \A x \in made : x \in D[x]
  OBVIOUS
<1>4. \A x, y \in made : x # y => \/ x \in D[y] /\ y \notin D[x]
                                  \/ y \in D[x] /\ x \notin D[y]
  <2>1. \A x, y \in made : x # y => \/ Before(x, y) /\ ~Before(y, x)
                                    \/ Before(y, x) /\ ~Before(x, y)
    BY <1>2 DEF Before
  <2>2. QED
    BY <2>1
<1>5. \A x, y \in made : x \in D[y] => D[x] \subseteq D[y]
  <2>1. \A x, y, z \in made : Before(x, y) /\ Before(y, z) => Before(x, z)
    BY <1>2 DEF Before
  <2>2. QED
    BY <2>1
<1>6. QED
  BY <1>1, <1>3, <1>4, <1>5 DEF Orders

\* The new rows take the numbers after those in use.
LEMMA NewRows ==
  ASSUME PairingInv, NEW made \in SUBSET Ordered, \A x \in made : RowOf(x, made) \in PairIds
  PROVE  \E m \in 0 .. MaxPairs, k \in Nat :
           /\ \A p \in PairIds : pair[p].status # "none" <=> p <= m
           /\ m + k <= MaxPairs
           /\ \A p \in PairIds : (\E x \in made : RowOf(x, made) = p) <=> m < p /\ p <= m + k
           /\ \A x, y \in made : RowOf(x, made) = RowOf(y, made) => x = y
<1>1. PICK m \in 0 .. MaxPairs : \A p \in PairIds : pair[p].status # "none" <=> p <= m
  BY DEF PairingInv, Numbered
<1> DEFINE D == [x \in made |-> {y \in made : y = x \/ Before(y, x)}]
           k == Cardinality(made)
           taken == {p \in PairIds : pair[p].status # "none"}
<1>2. IsFiniteSet(made) /\ k \in Nat
  BY BeforeOrders
<1>7. /\ \A x \in made : Cardinality(D[x]) \in 1 .. k
      /\ \A x, y \in made : Cardinality(D[x]) = Cardinality(D[y]) => x = y
      /\ \A j \in 1 .. k : \E x \in made : Cardinality(D[x]) = j
  <2>1. Orders(made, D)
    BY BeforeOrders
  <2> HIDE DEF D
  <2>2. QED
    BY <1>2, <2>1, RankOnto
<1>8. Cardinality(taken) = m
  <2>1. taken = 1 .. m
    BY <1>1, PairingAssumption DEF PairIds
  <2>2. m \in Nat
    BY PairingAssumption
  <2>3. Cardinality(1 .. m) = m
    BY <2>2, FS_Interval
  <2>4. QED
    BY <2>1, <2>3, Zenon
<1>9. \A x \in made : RowOf(x, made) = m + Cardinality(D[x])
  <2>1. \A x \in made : D[x] = {y \in made : y = x \/ Before(y, x)}
    OBVIOUS
  <2> HIDE DEF D
  <2>2. QED
    BY <1>8, <2>1 DEF RowOf
<1> HIDE DEF D, k, taken
<1>10. \A p \in PairIds : (\E x \in made : RowOf(x, made) = p) => m < p /\ p <= m + k
  BY <1>2, <1>7, <1>9
<1>11. \A p \in PairIds : m < p /\ p <= m + k => \E x \in made : RowOf(x, made) = p
  <2>1. SUFFICES ASSUME NEW p \in PairIds, m < p, p <= m + k
                 PROVE  \E x \in made : RowOf(x, made) = p
    OBVIOUS
  <2>2. p - m \in 1 .. k /\ p = m + (p - m)
    BY <2>1, <1>2 DEF PairIds
  <2>3. PICK x \in made : Cardinality(D[x]) = p - m
    BY <2>2, <1>7
  <2>4. QED
    BY <2>2, <2>3, <1>9
<1>12. m + k <= MaxPairs
  <2>1. CASE k = 0
    BY <2>1, PairingAssumption
  <2>2. CASE k # 0
    <3>1. PICK x \in made : Cardinality(D[x]) = k
      BY <2>2, <1>2, <1>7
    <3>2. QED
      BY <3>1, <1>9 DEF PairIds
  <2>3. QED
    BY <2>1, <2>2
<1>13. \A x, y \in made : RowOf(x, made) = RowOf(y, made) => x = y
  <2>1. \A x, y \in made : RowOf(x, made) = RowOf(y, made) => Cardinality(D[x]) = Cardinality(D[y])
    <3>1. \A x \in made : Cardinality(D[x]) \in Nat
      BY <1>2, <1>7
    <3>2. m \in Nat
      BY PairingAssumption
    <3>3. QED
      BY <1>9, <3>1, <3>2
  <2>2. QED
    BY <1>7, <2>1
<1>14. QED
  BY <1>1, <1>2, <1>10, <1>11, <1>12, <1>13

LEMMA PendingIs ==
  \A p \in PairIds, i \in Int : <<p, i>> \in Pending <=> /\ i \in 1 .. Len(queue[p])
                                                      /\ queue[p][i].status = "pending"
BY DEF Pending, Rows

LEMMA PendingPairs ==
  \A r \in Pending : \E p \in PairIds : \E i \in 1 .. Len(queue[p]) : r = <<p, i>>
BY DEF Pending, Rows

LEMMA CommitStep ==
  ASSUME PairingInv, NEW h \in Syncs, SyncCommit(h)
  PROVE  PairingInv' /\ Grown
<1> DEFINE make == sync[h].make
           drop == sync[h].drop
           New(p, x) == pair'[p] = [NoPair EXCEPT !.status = "active", !.a = x[1], !.b = x[2]]
           Dropped(p) == pair'[p] = [pair[p] EXCEPT !.status = "archived", !.since = clock]
<1>1. /\ make \in SUBSET Ordered
      /\ \A p \in drop : p \in PairIds /\ pair[p].status # "none" /\ pair[p].status # "purged"
      /\ \A x \in make : RowOf(x, make) \in PairIds
      /\ clock' = clock /\ sims' = sims /\ msgs' = msgs
  BY DEF PairingInv, SyncWork, SyncCommit
<1>2. PICK m \in 0 .. MaxPairs, k \in Nat :
        /\ \A p \in PairIds : pair[p].status # "none" <=> p <= m
        /\ m + k <= MaxPairs
        /\ \A p \in PairIds : (\E x \in make : RowOf(x, make) = p) <=> m < p /\ p <= m + k
  BY <1>1, NewRows
<1>3. pair' = [p \in PairIds |->
        IF p \in drop THEN [pair[p] EXCEPT !.status = "archived", !.since = clock]
        ELSE IF \E x \in make : RowOf(x, make) = p
        THEN LET x == CHOOSE y \in make : RowOf(y, make) = p
             IN [NoPair EXCEPT !.status = "active", !.a = x[1], !.b = x[2]]
        ELSE pair[p]]
  BY DEF SyncCommit
<1>4. m \in Nat /\ \A p \in PairIds : p \in Nat
  BY PairingAssumption DEF PairIds
<1>5. \A p \in PairIds : p \in drop => p <= m /\ Joined(p) /\ Dropped(p)
  <2>1. \A p \in PairIds : pair[p] \in PairRow
    BY DEF PairingInv, RowsTyped
  <2>2. QED
    BY <1>1, <1>2, <1>3, <2>1 DEF Joined, PairRow, Life
<1>6. \A p \in PairIds : m < p /\ p <= m + k => p \notin drop /\ \E x \in make : New(p, x)
  <2>1. SUFFICES ASSUME NEW p \in PairIds, m < p, p <= m + k
                 PROVE  p \notin drop /\ \E x \in make : New(p, x)
    OBVIOUS
  <2>2. p \notin drop
    <3>1. p \in drop => p <= m
      BY <1>5
    <3>2. p \in Nat /\ m \in Nat
      BY <1>4
    <3>3. QED
      BY <2>1, <3>1, <3>2
  <2>3. \E x \in make : RowOf(x, make) = p
    BY <1>2, <2>1
  <2>4. (CHOOSE y \in make : RowOf(y, make) = p) \in make
    BY <2>3
  <2>5. New(p, CHOOSE y \in make : RowOf(y, make) = p)
    BY <1>3, <2>2, <2>3
  <2>6. QED
    BY <2>2, <2>4, <2>5
<1>7. \A p \in PairIds : p \notin drop /\ ~(m < p /\ p <= m + k) => pair'[p] = pair[p]
  BY <1>2, <1>3
<1>8. \A x \in make : x[1] \in Sims /\ x[2] \in Sims /\ x[1] < x[2]
  BY <1>1 DEF Ordered
<1>9. \A p \in PairIds, x \in make : New(p, x) =>
        /\ pair'[p] \in PairRow /\ pair'[p].status = "active"
        /\ pair'[p].a = x[1] /\ pair'[p].b = x[2]
  <2>1. SUFFICES ASSUME NEW p \in PairIds, NEW x \in make, New(p, x)
                 PROVE  /\ pair'[p] \in PairRow /\ pair'[p].status = "active"
                        /\ pair'[p].a = x[1] /\ pair'[p].b = x[2]
    OBVIOUS
  <2>2. pair'[p] = [status |-> "active", a |-> x[1], b |-> x[2], sent |-> 0, since |-> 0]
    BY <2>1 DEF NoPair
  <2>3. x[1] \in Ends /\ x[2] \in Ends /\ "active" \in Life
    BY <1>8 DEF Ends, Life
  <2>4. QED
    BY <2>2, <2>3 DEF PairRow
<1>10. \A p \in PairIds : Dropped(p) =>
        /\ pair'[p] \in PairRow /\ pair'[p].status = "archived"
        /\ pair'[p].a = pair[p].a /\ pair'[p].b = pair[p].b
  BY DEF PairingInv, RowsTyped, PairRow, Life
<1>11. queue' = [p \in PairIds |-> [i \in 1 .. Len(queue[p]) |->
         IF <<p, i>> \in sync[h].heal THEN [queue[p][i] EXCEPT !.status = "cancelled"]
                                      ELSE queue[p][i]]]
  BY DEF SyncCommit
<1> HIDE DEF make, drop, New, Dropped
<1>12. \A p \in PairIds : /\ queue'[p] \in Seq(QueueRow) /\ Len(queue'[p]) = Len(queue[p])
                          /\ \A i \in 1 .. Len(queue[p]) :
                               queue'[p][i].status = "pending" => queue[p][i].status = "pending"
  <2>1. SUFFICES ASSUME NEW p \in PairIds
                 PROVE  /\ queue'[p] \in Seq(QueueRow) /\ Len(queue'[p]) = Len(queue[p])
                        /\ \A i \in 1 .. Len(queue[p]) :
                             queue'[p][i].status = "pending" => queue[p][i].status = "pending"
    OBVIOUS
  <2>2. Len(queue[p]) \in Nat /\ \A i \in 1 .. Len(queue[p]) : queue[p][i] \in QueueRow
    BY DEF PairingInv, RowsTyped
  <2>3. \A r \in QueueRow : [r EXCEPT !.status = "cancelled"] \in QueueRow
    BY DEF QueueRow
  <2>4. queue'[p] = [i \in 1 .. Len(queue[p]) |->
          IF <<p, i>> \in sync[h].heal THEN [queue[p][i] EXCEPT !.status = "cancelled"]
                                       ELSE queue[p][i]]
    BY <1>11
  <2>5. \A i \in 1 .. Len(queue[p]) : queue'[p][i] \in QueueRow
    BY <2>2, <2>3, <2>4
  <2>6. \A i \in 1 .. Len(queue[p]) :
          queue'[p][i].status = "pending" => queue[p][i].status = "pending"
    BY <2>2, <2>4 DEF QueueRow
  <2>7. QED
    BY <2>2, <2>4, <2>5, <2>6
<1>13. RowsTyped'
  <2>1. pair' \in [PairIds -> PairRow]
    BY <1>3, <1>5, <1>6, <1>7, <1>9, <1>10 DEF PairingInv, RowsTyped
  <2>2. queue' \in [PairIds -> Seq(QueueRow)]
    BY <1>11, <1>12
  <2>3. QED
    BY <1>1, <2>1, <2>2 DEF PairingInv, RowsTyped
<1>14. RowsWell'
  <2>1. SUFFICES ASSUME NEW p \in PairIds
                 PROVE  /\ Joined(p)' => pair'[p].a \in Sims /\ pair'[p].b \in Sims /\ pair'[p].a < pair'[p].b
                        /\ ~Joined(p)' => queue'[p] = <<>> /\ msgs'[p] = <<>>
    BY DEF RowsWell
  <2>2. CASE p \in drop
    BY <1>5, <1>10, <2>2 DEF PairingInv, RowsWell, Joined
  <2>3. CASE m < p /\ p <= m + k
    BY <1>6, <1>8, <1>9, <2>3 DEF Joined
  <2>4. CASE p \notin drop /\ ~(m < p /\ p <= m + k)
    <3>1. pair'[p] = pair[p]
      BY <1>7, <2>4
    <3>2. queue[p] = <<>> => queue'[p] = <<>>
      BY <1>12
    <3>3. QED
      BY <1>1, <3>1, <3>2 DEF PairingInv, RowsWell, Joined
  <2>5. QED
    BY <2>2, <2>3, <2>4
<1>15. Numbered'
  <2>1. m + k \in 0 .. MaxPairs
    BY <1>2, <1>4
  <2>2. \A p \in PairIds : pair'[p].status # "none" <=> p <= m + k
    BY <1>2, <1>4, <1>5, <1>6, <1>7, <1>9, <1>10
  <2>3. QED
    BY <2>1, <2>2 DEF Numbered
<1>16. \A p \in PairIds : pair[p].status # "none" => pair'[p].status # "none"
  BY <1>2, <1>4, <1>5, <1>7, <1>10
<1>17. SyncWork'
  <2>1. /\ DOMAIN sync' = Syncs /\ sync'[h].pc # "writing" /\ DOMAIN sync'[h] = DOMAIN NoSync
        /\ \A g \in Syncs \ {h} : sync'[g] = [sync[g] EXCEPT !.fresh = FALSE]
    BY SyncEnds DEF SyncCommit
  <2>2. \A g \in Syncs \ {h} : /\ DOMAIN sync'[g] = DOMAIN NoSync
                               /\ sync'[g].pc = sync[g].pc
                               /\ sync'[g].make = sync[g].make /\ sync'[g].drop = sync[g].drop
    BY <2>1, SyncEnds DEF PairingInv, SyncWork
  <2>3. QED
    BY <1>16, <2>1, <2>2 DEF PairingInv, SyncWork
<1>18. Grown
  <2>1. \A p \in PairIds : Joined(p) => /\ pair'[p].status \in {pair[p].status, "archived"}
                                        /\ pair'[p].a = pair[p].a /\ pair'[p].b = pair[p].b
    BY <1>2, <1>4, <1>5, <1>7, <1>10 DEF Joined
  <2>2. \A p \in PairIds : pair[p].status = "purged" => pair'[p].status = "purged"
    BY <1>2, <1>4, <1>5, <1>7 DEF Joined
  <2>3. Pending' \subseteq Pending
    <3>1. SUFFICES ASSUME NEW r \in Pending' PROVE r \in Pending
      OBVIOUS
    <3>2. PICK p \in PairIds : \E i \in 1 .. Len(queue'[p]) : r = <<p, i>> /\ queue'[p][i].status = "pending"
      BY DEF Pending, Rows
    <3>3. QED
      BY <1>12, <3>2, PendingIs
  <2>4. QED
    BY <1>1, <2>1, <2>2, <2>3 DEF Grown, PairingInv, RowsTyped
<1>19. QED
  BY <1>1, <1>13, <1>14, <1>15, <1>17, <1>18 DEF PairingInv, Inventory

-----------------------------------------------------------------------------
(* The other steps of a sync, the purge and the world. *)

\* A step that leaves the rows alone.
LEMMA SameRows ==
  ASSUME PairingInv, UNCHANGED <<pair, queue, msgs>>, clock' \in Nat, clock <= clock'
  PROVE  RowsTyped' /\ RowsWell' /\ Numbered' /\ Grown
<1>1. RowsTyped' /\ RowsWell' /\ Numbered'
  BY DEF PairingInv, RowsTyped, RowsWell, Joined, Numbered
<1>2. Pending' = Pending
  BY DEF Pending, Rows
<1>3. Grown
  BY <1>2 DEF PairingInv, RowsTyped, Grown
<1>4. QED
  BY <1>1, <1>3

LEMMA PurgeStep ==
  ASSUME PairingInv, NEW h \in Syncs, Purge(h)
  PROVE  PairingInv' /\ Grown
<1>1. PICK old \in SUBSET Expired :
      /\ UNCHANGED <<clock, sims>>
      /\ pair'  = [p \in PairIds |-> IF p \in old THEN [NoPair EXCEPT !.status = "purged"] ELSE pair[p]]
      /\ queue' = [p \in PairIds |-> IF p \in old THEN <<>> ELSE queue[p]]
      /\ msgs'  = [p \in PairIds |-> IF p \in old THEN <<>> ELSE msgs[p]]
      /\ sync'  = [sync EXCEPT ![h] = NoSync]
  BY DEF Purge
<1>2. \A p \in old : p \in PairIds /\ pair[p].status = "archived"
  BY DEF Expired
<1>3. LET gone == [NoPair EXCEPT !.status = "purged"] IN gone \in PairRow /\ gone.status = "purged"
  BY DEF NoPair, PairRow, Life, Ends
<1>4. RowsTyped'
  BY <1>1, <1>3, EmptyRow DEF PairingInv, RowsTyped
<1>5. \A p \in PairIds : \/ /\ p \in old /\ pair'[p].status = "purged"
                            /\ queue'[p] = <<>> /\ msgs'[p] = <<>>
                         \/ /\ p \notin old /\ pair'[p] = pair[p]
                            /\ queue'[p] = queue[p] /\ msgs'[p] = msgs[p]
  BY <1>1, <1>3
<1>6. RowsWell'
  BY <1>5 DEF PairingInv, RowsWell, Joined
<1>7. \A p \in PairIds : pair'[p].status # "none" <=> pair[p].status # "none"
  BY <1>2, <1>5
<1>8. Numbered'
  BY <1>7 DEF PairingInv, Numbered
<1>9. SyncWork'
  BY <1>1, <1>7 DEF PairingInv, SyncWork, NoSync
<1>10. Pending' \subseteq Pending
  <2>1. SUFFICES ASSUME NEW r \in Pending' PROVE r \in Pending
    OBVIOUS
  <2>2. PICK p \in PairIds : \E i \in 1 .. Len(queue'[p]) : r = <<p, i>> /\ queue'[p][i].status = "pending"
    BY DEF Pending, Rows
  <2>3. QED
    BY <1>5, <2>2, PendingIs
<1>11. Grown
  BY <1>1, <1>2, <1>5, <1>10 DEF Grown, PairingInv, RowsTyped, Joined
<1>12. QED
  BY <1>1, <1>4, <1>6, <1>8, <1>9, <1>11 DEF PairingInv, Inventory

LEMMA PairingStep ==
  ASSUME PairingInv, PairingNext
  PROVE  PairingInv' /\ Grown
<1>1. ASSUME NEW h \in Syncs, SyncRead(h) PROVE PairingInv' /\ Grown
  <2>1. PICK made \in SUBSET Couples(sims) :
          LET drop == {p \in Active : ~Survives(sims, p)}
              dead == drop \cup {p \in PairIds : pair[p].status = "archived"}
          IN sync' = [sync EXCEPT ![h] =
               [pc |-> "writing", seen |-> sims, was |-> names, drop |-> drop,
                make |-> made, heal |-> {r \in Pending : r[1] \in dead}, fresh |-> TRUE]]
    BY <1>1 DEF SyncRead
  <2>2. UNCHANGED <<clock, sims, pair, queue, msgs>>
    BY <1>1 DEF SyncRead
  <2>3. made \in SUBSET Ordered
    <3>1. Creatable(sims) \subseteq Sims
      BY DEF Creatable, KeptAlive
    <3>2. QED
      BY <3>1 DEF Couples, Ordered
  <2>4. {p \in Active : ~Survives(sims, p)} \in SUBSET {p \in PairIds : pair[p].status # "none"}
    BY DEF Active
  <2>5. SyncWork'
    BY <2>1, <2>2, <2>3, <2>4 DEF PairingInv, SyncWork, NoSync
  <2>6. QED
    BY <2>2, <2>5, SameRows DEF PairingInv, RowsTyped, Inventory
<1>2. ASSUME NEW h \in Syncs, SyncSkip(h) \/ SyncFail(h) \/ PurgeFail(h)
      PROVE  PairingInv' /\ Grown
  <2>1. /\ UNCHANGED <<clock, sims, pair, queue, msgs>>
        /\ sync' = [sync EXCEPT ![h] = Done(h)] \/ sync' = [sync EXCEPT ![h] = NoSync]
    BY <1>2 DEF SyncSkip, SyncFail, PurgeFail
  <2>2. SyncWork'
    BY <2>1, SyncEnds DEF PairingInv, SyncWork
  <2>3. QED
    BY <2>1, <2>2, SameRows DEF PairingInv, RowsTyped, Inventory
<1>3. ASSUME NEW s \in Sims, EditSim(s) PROVE PairingInv' /\ Grown
  <2>1. UNCHANGED <<clock, pair, queue, msgs, sync>>
    BY <1>3 DEF EditSim
  <2>2. PICK v \in Views[s] : sims' = [sims EXCEPT ![s] = v]
    BY <1>3 DEF EditSim
  <2>3. v \in SimView
    BY PairingAssumption
  <2>4. Inventory'
    BY <2>2, <2>3 DEF PairingInv, Inventory
  <2>5. SyncWork'
    BY <2>1 DEF PairingInv, SyncWork
  <2>6. QED
    BY <2>1, <2>4, <2>5, SameRows DEF PairingInv, RowsTyped
<1>4. ASSUME Tick PROVE PairingInv' /\ Grown
  <2>1. /\ UNCHANGED <<sims, pair, queue, msgs, sync>>
        /\ clock' \in Nat /\ clock <= clock'
    BY <1>4 DEF Tick, PairingInv, RowsTyped
  <2>2. Inventory' /\ SyncWork'
    BY <2>1 DEF PairingInv, Inventory, SyncWork
  <2>3. QED
    BY <2>1, <2>2, SameRows DEF PairingInv
<1>5. QED
  BY <1>1, <1>2, <1>3, <1>4, CommitStep, PurgeStep DEF PairingNext, SyncStep

-----------------------------------------------------------------------------
(* Conversations. *)

Item == [pair : PairIds, row : Nat, from : Sims, to : Sims]

\* The next message of the run to this pair is due to this SIM, and neither SIM
\* has a message within the cooldown.
Fit(it) ==
  /\ it.pair \in talk.pairs
  /\ it.from = NextSender(it.pair) /\ {it.from, it.to} = Members(it.pair)
  /\ \A q \in PairIds : Members(it.pair) \cap Members(q) # {} =>
       \A i \in DOMAIN msgs[q] : clock - msgs[q][i].at >= Cooldown

Batch ==
  /\ talk.todo # <<>>
  /\ \A k \in DOMAIN talk.todo : Fit(talk.todo[k])
  /\ \A j, k \in DOMAIN talk.todo : j # k =>
       Members(talk.todo[j].pair) \cap Members(talk.todo[k].pair) = {}

TalkTyped ==
  talk \in [pc : {"idle", "queueing", "choosing", "sending", "sent"},
            pairs : SUBSET PairIds, todo : Seq(Item)]

TalkWork ==
  /\ talk.pc # "idle" => \A p \in talk.pairs : Joined(p)
  /\ talk.pc \in {"queueing", "choosing"} =>
       \A r \in Pending : pair[r[1]].status = "active" => r[1] \in talk.pairs
  /\ talk.pc \in {"sending", "sent"} => Batch

TalkInv == TalkTyped /\ OnePendingPerPair /\ Alternates /\ PairCooldownKept /\ TalkWork

LEMMA MessageTyped ==
  ASSUME PairingInv, NEW q \in PairIds, NEW i \in DOMAIN msgs[q]
  PROVE  msgs[q][i].at \in Nat
<1>1. msgs[q] \in Seq(Message)
  BY DEF PairingInv, RowsTyped
<1>2. msgs[q][i] \in Message
  BY <1>1
<1>3. QED
  BY <1>2 DEF Message

LEMMA ItemTyped ==
  ASSUME TalkTyped, NEW k \in DOMAIN talk.todo
  PROVE  talk.todo[k] \in Item
<1>1. talk.todo \in Seq(Item)
  BY DEF TalkTyped
<1>2. QED
  BY <1>1

LEMMA InitTalk == PairingInit /\ TalkInit => TalkInv
<1> SUFFICES ASSUME PairingInit, TalkInit PROVE TalkInv
  OBVIOUS
<1>1. \A p \in PairIds : msgs[p] = <<>> /\ queue[p] = <<>>
  BY DEF PairingInit
<1>2. TalkTyped /\ TalkWork
  BY DEF TalkInit, NoTalk, TalkTyped, TalkWork
<1>3. Pending = {}
  BY <1>1 DEF Pending, Rows
<1>4. QED
  BY <1>1, <1>2, <1>3 DEF TalkInv, OnePendingPerPair, Alternates, PairCooldownKept

\* Beside a run, syncs and purges.
LEMMA TalkBeside ==
  ASSUME PairingInv, PairingInv', TalkInv, Grown, UNCHANGED talk,
         \A p \in talk.pairs : talk.pc # "idle" => pair'[p].status # "purged"
  PROVE  TalkInv'
<1>1. \A p \in PairIds : pair[p].status \in Life /\ pair'[p].status \in Life
  BY DEF PairingInv, RowsTyped, PairRow
<1>2. \A p \in PairIds : msgs'[p] # <<>> =>
        /\ Joined(p) /\ msgs'[p] = msgs[p]
        /\ pair'[p].a = pair[p].a /\ pair'[p].b = pair[p].b
  <2>1. SUFFICES ASSUME NEW p \in PairIds, msgs'[p] # <<>>
                 PROVE  /\ Joined(p) /\ msgs'[p] = msgs[p]
                        /\ pair'[p].a = pair[p].a /\ pair'[p].b = pair[p].b
    OBVIOUS
  <2>2. msgs'[p] = msgs[p] /\ Joined(p)
    BY <2>1 DEF Grown, PairingInv, RowsWell
  <2>3. pair'[p].status # "purged"
    BY <2>1 DEF PairingInv, RowsWell, Joined
  <2>4. QED
    BY <2>2, <2>3 DEF Grown
<1>3. \A p \in PairIds : p \in talk.pairs /\ talk.pc # "idle" =>
        /\ Joined(p)' /\ msgs'[p] = msgs[p]
        /\ pair'[p].a = pair[p].a /\ pair'[p].b = pair[p].b
  <2>1. SUFFICES ASSUME NEW p \in PairIds, p \in talk.pairs, talk.pc # "idle"
                 PROVE  /\ Joined(p)' /\ msgs'[p] = msgs[p]
                        /\ pair'[p].a = pair[p].a /\ pair'[p].b = pair[p].b
    OBVIOUS
  <2>2. Joined(p) /\ pair'[p].status # "purged"
    BY <2>1 DEF TalkInv, TalkWork
  <2>3. QED
    BY <2>2 DEF Grown, Joined
<1>4. OnePendingPerPair'
  BY DEF TalkInv, OnePendingPerPair, Grown
<1>5. Alternates'
  BY <1>2 DEF TalkInv, Alternates
<1>6. PairCooldownKept'
  BY <1>2 DEF TalkInv, PairCooldownKept, Members
<1>7. ASSUME talk.pc \in {"queueing", "choosing"}, NEW r \in Pending', pair'[r[1]].status = "active"
      PROVE  r[1] \in talk.pairs
  <2>1. r \in Pending
    BY <1>7 DEF Grown
  <2>2. PICK p \in PairIds : r[1] = p /\ queue[p] # <<>>
    BY <2>1, PendingPairs
  <2>3. Joined(p)
    BY <2>2 DEF PairingInv, RowsWell
  <2>4. pair[p].status = "active"
    BY <1>7, <2>2, <2>3 DEF Grown
  <2>5. QED
    BY <1>7, <2>1, <2>2, <2>4 DEF TalkInv, TalkWork
<1>8. ASSUME talk.pc \in {"sending", "sent"} PROVE Batch'
  <2>1. \A k \in DOMAIN talk.todo : talk.todo[k].pair \in PairIds /\ Fit(talk.todo[k])
    BY <1>8, ItemTyped DEF TalkInv, TalkWork, Batch, Item
  <2>2. \A k \in DOMAIN talk.todo : Members(talk.todo[k].pair)' = Members(talk.todo[k].pair)
    BY <1>3, <1>8, <2>1 DEF Fit, Members
  <2>3. ASSUME NEW k \in DOMAIN talk.todo PROVE Fit(talk.todo[k])'
    <3> DEFINE it == talk.todo[k]
    <3>1. it.pair \in PairIds /\ it.pair \in talk.pairs /\ Fit(it)
      BY <2>1 DEF Fit
    <3>2. NextSender(it.pair)' = NextSender(it.pair)
      BY <1>3, <1>8, <3>1 DEF NextSender
    <3>3. \A q \in PairIds : Members(it.pair)' \cap Members(q)' # {} =>
            \A i \in DOMAIN msgs'[q] : clock' - msgs'[q][i].at >= Cooldown
      <4>1. SUFFICES ASSUME NEW q \in PairIds, Members(it.pair)' \cap Members(q)' # {},
                            NEW i \in DOMAIN msgs'[q]
                     PROVE  clock' - msgs'[q][i].at >= Cooldown
        OBVIOUS
      <4>2. msgs'[q] = msgs[q] /\ Members(q)' = Members(q)
        BY <1>2, <4>1 DEF Members
      <4>3. clock - msgs[q][i].at >= Cooldown
        BY <2>2, <3>1, <4>1, <4>2 DEF Fit
      <4>4. msgs[q][i].at \in Nat /\ clock \in Nat /\ clock' \in Nat /\ clock <= clock'
        BY <4>1, <4>2, MessageTyped DEF PairingInv, RowsTyped, Grown
      <4>5. QED
        BY <4>2, <4>3, <4>4, ConversationAssumption
    <3>4. QED
      BY <2>2, <3>1, <3>2, <3>3 DEF Fit
  <2>4. QED
    BY <1>8, <2>2, <2>3 DEF TalkInv, TalkWork, Batch
<1>9. TalkTyped' /\ TalkWork'
  BY <1>3, <1>7, <1>8 DEF TalkInv, TalkTyped, TalkWork
<1>10. QED
  BY <1>4, <1>5, <1>6, <1>9 DEF TalkInv

-----------------------------------------------------------------------------
(* The steps of a run. *)

LEMMA ShiftTyped ==
  ASSUME NEW t \in Nat, NEW d \in ShiftOutOfQuiet(t, Quiet)
  PROVE  d \in Nat
<1>1. CASE IsQuiet(t, Quiet)
  <2>1. Wake(t, Quiet) \in Nat
    BY <1>1, WakeAtEnd, ConversationAssumption
  <2>2. QED
    BY <1>1, <2>1, QuietAssumption DEF ShiftOutOfQuiet
<1>2. QED
  BY <1>1 DEF ShiftOutOfQuiet

\* What a step of a run leaves to the syncs.
LEMMA TalkKeepsRows ==
  ASSUME PairingInv, UNCHANGED <<clock, sims, sync>>, RowsTyped',
         \A p \in PairIds : /\ pair'[p].status = pair[p].status
                            /\ pair'[p].a = pair[p].a /\ pair'[p].b = pair[p].b
                            /\ ~Joined(p) => queue'[p] = queue[p] /\ msgs'[p] = msgs[p]
  PROVE  PairingInv'
<1>1. RowsWell'
  BY DEF PairingInv, RowsWell, Joined
<1>2. Numbered' /\ SyncWork' /\ Inventory'
  BY DEF PairingInv, Numbered, SyncWork, Inventory
<1>3. QED
  BY <1>1, <1>2 DEF PairingInv

\* Rows of the queue change in place and none becomes pending.
InPlace ==
  \A p \in PairIds : /\ queue'[p] \in Seq(QueueRow) /\ Len(queue'[p]) = Len(queue[p])
                     /\ \A i \in 1 .. Len(queue[p]) :
                          queue'[p][i].status = "pending" => queue[p][i].status = "pending"

LEMMA InPlacePending ==
  ASSUME InPlace
  PROVE  Pending' \subseteq Pending
<1>1. SUFFICES ASSUME NEW r \in Pending' PROVE r \in Pending
  OBVIOUS
<1>2. PICK p \in PairIds : \E i \in 1 .. Len(queue'[p]) : r = <<p, i>> /\ queue'[p][i].status = "pending"
  BY DEF Pending, Rows
<1>3. QED
  BY <1>2, PendingIs DEF InPlace

\* An update of one row that does not make it pending.
LEMMA UpdateInPlace ==
  ASSUME PairingInv, NEW p \in PairIds, NEW i \in Nat, NEW new,
         queue' = [queue EXCEPT ![p] = [queue[p] EXCEPT ![i] = new]],
         i \in DOMAIN queue[p] => new \in QueueRow,
         i \in DOMAIN queue[p] /\ new.status = "pending" => queue[p][i].status = "pending"
  PROVE  queue' \in [PairIds -> Seq(QueueRow)] /\ InPlace
<1>1. \A q \in PairIds : queue[q] \in Seq(QueueRow)
  BY DEF PairingInv, RowsTyped
<1>2. \A q \in PairIds \ {p} : queue'[q] = queue[q]
  BY DEF PairingInv, RowsTyped
<1>3. queue'[p] = [queue[p] EXCEPT ![i] = new]
  BY DEF PairingInv, RowsTyped
<1> DEFINE n == Len(queue[p])
<1>4. n \in Nat /\ DOMAIN queue[p] = 1 .. n /\ queue[p] \in [1 .. n -> QueueRow]
  BY <1>1
<1>5. queue'[p] \in [1 .. n -> QueueRow]
  BY <1>3, <1>4
<1>6. queue'[p] \in Seq(QueueRow) /\ Len(queue'[p]) = Len(queue[p])
  BY <1>4, <1>5
<1>7. \A j \in 1 .. Len(queue[p]) : queue'[p][j].status = "pending" => queue[p][j].status = "pending"
  BY <1>3, <1>4
<1>8. InPlace
  BY <1>1, <1>2, <1>6, <1>7 DEF InPlace
<1>9. QED
  BY <1>8 DEF InPlace, PairingInv, RowsTyped

LEMMA StartStep ==
  ASSUME PairingInv, TalkInv, TalkStart
  PROVE  PairingInv' /\ TalkInv'
<1>1. /\ talk' = [pc |-> "queueing", pairs |-> Active, todo |-> <<>>]
      /\ UNCHANGED <<clock, sims, pair, queue, msgs, sync>>
  BY DEF TalkStart, NoTalk, pairingVars
<1>2. PairingInv'
  BY <1>1, TalkKeepsRows DEF PairingInv, RowsTyped
<1>3. Active \in SUBSET PairIds /\ \A p \in Active : Joined(p)
  BY DEF Active, Joined
<1>4. \A r \in Pending : pair[r[1]].status = "active" => r[1] \in Active
  BY PendingPairs DEF Active
<1>5. Pending' = Pending
  BY <1>1 DEF Pending, Rows
<1>6. TalkTyped' /\ TalkWork'
  BY <1>1, <1>3, <1>4, <1>5 DEF TalkTyped, TalkWork, Joined
<1>7. OnePendingPerPair' /\ Alternates' /\ PairCooldownKept'
  BY <1>1, <1>5 DEF TalkInv, OnePendingPerPair, Alternates, PairCooldownKept, Members
<1>8. QED
  BY <1>2, <1>6, <1>7 DEF TalkInv

LEMMA StopStep ==
  ASSUME PairingInv, TalkInv, talk' = NoTalk, UNCHANGED <<clock, sims, pair, msgs, sync>>,
         queue' \in [PairIds -> Seq(QueueRow)], InPlace
  PROVE  PairingInv' /\ TalkInv'
<1>1. RowsTyped'
  BY DEF PairingInv, RowsTyped
<1>2. \A p \in PairIds : ~Joined(p) => queue'[p] = queue[p]
  BY DEF PairingInv, RowsWell, InPlace
<1>3. PairingInv'
  BY <1>1, <1>2, TalkKeepsRows
<1>4. TalkTyped' /\ TalkWork'
  BY DEF NoTalk, TalkTyped, TalkWork
<1>5. OnePendingPerPair' /\ Alternates' /\ PairCooldownKept'
  BY InPlacePending DEF TalkInv, OnePendingPerPair, Alternates, PairCooldownKept, Members
<1>6. QED
  BY <1>3, <1>4, <1>5 DEF TalkInv

LEMMA EnqueueStep ==
  ASSUME PairingInv, TalkInv, TalkEnqueue
  PROVE  PairingInv' /\ TalkInv'
<1>1. /\ talk.pc = "queueing" /\ talk' = [talk EXCEPT !.pc = "choosing"]
      /\ UNCHANGED <<clock, sims, pair, msgs, sync>>
  BY DEF TalkEnqueue
<1>2. PICK due \in [Enqueued -> UNION {DueTimes(p) : p \in Enqueued}] :
        /\ \A p \in Enqueued : due[p] \in DueTimes(p)
        /\ queue' = [p \in PairIds |->
             IF p \in Enqueued
             THEN Append(queue[p], [status |-> "pending", due |-> due[p], attempts |-> 0])
             ELSE queue[p]]
  BY DEF TalkEnqueue
<1>3. \A p \in Enqueued : /\ p \in PairIds /\ p \in talk.pairs /\ Joined(p)
                         /\ \A r \in Pending : r[1] # p
  BY <1>1 DEF Enqueued, TalkInv, TalkTyped, TalkWork
<1>4. \A p \in Enqueued : due[p] \in Nat
  <2>1. SUFFICES ASSUME NEW p \in Enqueued PROVE due[p] \in Nat
    OBVIOUS
  <2> DEFINE times == IF msgs[p] = <<>> THEN {clock}
                      ELSE {msgs[p][Len(msgs[p])].at + Interval + j : j \in Jitter}
  <2>2. PICK t \in times : due[p] \in ShiftOutOfQuiet(t, Quiet)
    BY <1>2 DEF DueTimes
  <2>3. t \in Nat
    <3>1. CASE msgs[p] = <<>>
      BY <3>1 DEF PairingInv, RowsTyped
    <3>2. CASE msgs[p] # <<>>
      <4>1. Len(msgs[p]) \in DOMAIN msgs[p]
        <5>1. msgs[p] \in Seq(Message)
          BY <1>3 DEF PairingInv, RowsTyped
        <5>2. QED
          BY <3>2, <5>1
      <4>2. msgs[p][Len(msgs[p])].at \in Nat
        BY <1>3, <4>1, MessageTyped
      <4>3. PICK j \in Jitter : t = msgs[p][Len(msgs[p])].at + Interval + j
        BY <3>2
      <4>4. j \in Nat /\ Interval \in Nat
        BY ConversationAssumption
      <4>5. QED
        BY <4>2, <4>3, <4>4
    <3>3. QED
      BY <3>1, <3>2
  <2>4. QED
    BY <2>2, <2>3, ShiftTyped
<1>5. \A p \in PairIds : queue[p] \in Seq(QueueRow)
  BY DEF PairingInv, RowsTyped
<1>6. \A p \in Enqueued : [status |-> "pending", due |-> due[p], attempts |-> 0] \in QueueRow
  BY <1>4 DEF QueueRow
<1>7. \A p \in Enqueued : /\ queue'[p] \in Seq(QueueRow) /\ Len(queue'[p]) = Len(queue[p]) + 1
                         /\ \A i \in 1 .. Len(queue[p]) : queue'[p][i] = queue[p][i]
  <2>1. SUFFICES ASSUME NEW p \in Enqueued
                 PROVE  /\ queue'[p] \in Seq(QueueRow) /\ Len(queue'[p]) = Len(queue[p]) + 1
                        /\ \A i \in 1 .. Len(queue[p]) : queue'[p][i] = queue[p][i]
    OBVIOUS
  <2>2. PICK new \in QueueRow : queue'[p] = Append(queue[p], new)
    BY <1>2, <1>3, <1>6
  <2>3. queue[p] \in Seq(QueueRow)
    BY <1>3, <1>5
  <2>4. QED
    BY <2>2, <2>3
<1>8. \A p \in PairIds \ Enqueued : queue'[p] = queue[p]
  BY <1>2
<1>9. RowsTyped'
  <2>1. queue' \in [PairIds -> Seq(QueueRow)]
    BY <1>2, <1>5, <1>7, <1>8
  <2>2. QED
    BY <1>1, <2>1 DEF PairingInv, RowsTyped
<1>10. PairingInv'
  BY <1>1, <1>3, <1>8, <1>9, TalkKeepsRows
<1>11. ASSUME NEW r \in Pending'
       PROVE  \/ r \in Pending /\ r[1] \notin Enqueued
              \/ r[1] \in Enqueued /\ r = <<r[1], Len(queue[r[1]]) + 1>>
  <2>1. PICK p \in PairIds : \E i \in 1 .. Len(queue'[p]) : r = <<p, i>> /\ queue'[p][i].status = "pending"
    BY DEF Pending, Rows
  <2>2. PICK i \in 1 .. Len(queue'[p]) : r = <<p, i>> /\ queue'[p][i].status = "pending"
    BY <2>1
  <2>3. CASE p \notin Enqueued
    BY <1>8, <2>2, <2>3, PendingIs
  <2>4. CASE p \in Enqueued
    <3>1. ASSUME i \in 1 .. Len(queue[p]) PROVE FALSE
      <4>1. <<p, i>> \in Pending
        <5>1. queue[p][i].status = "pending" /\ i \in Int
          BY <1>7, <2>2, <2>4, <3>1
        <5>2. QED
          BY <3>1, <5>1, PendingIs
      <4>2. QED
        BY <1>3, <2>4, <4>1
    <3>2. Len(queue[p]) \in Nat
      BY <1>5
    <3>3. i = Len(queue[p]) + 1
      BY <1>7, <2>2, <2>4, <3>1, <3>2
    <3>4. QED
      BY <2>2, <2>4, <3>3
  <2>5. QED
    BY <2>3, <2>4
<1>12. OnePendingPerPair'
  BY <1>11 DEF TalkInv, OnePendingPerPair
<1>13. TalkTyped' /\ TalkWork'
  <2>1. \A r \in Pending' : pair[r[1]].status = "active" => r[1] \in talk.pairs
    BY <1>1, <1>3, <1>11 DEF TalkInv, TalkWork
  <2>2. QED
    BY <1>1, <2>1 DEF TalkInv, TalkTyped, TalkWork, Joined
<1>14. Alternates' /\ PairCooldownKept'
  BY <1>1 DEF TalkInv, Alternates, PairCooldownKept, Members
<1>15. QED
  BY <1>10, <1>12, <1>13, <1>14 DEF TalkInv

LEMMA SendStep ==
  ASSUME PairingInv, TalkInv, TalkSend
  PROVE  PairingInv' /\ TalkInv'
<1>1. /\ talk.pc = "sending" /\ talk' = [talk EXCEPT !.pc = "sent"]
      /\ UNCHANGED <<clock, sims, pair, queue, msgs, sync>>
  BY DEF TalkSend, pairingVars
<1>2. PairingInv'
  BY <1>1, TalkKeepsRows DEF PairingInv, RowsTyped
<1>3. Pending' = Pending
  BY <1>1 DEF Pending, Rows
<1>4. TalkTyped' /\ talk'.pairs = talk.pairs /\ talk'.todo = talk.todo /\ talk'.pc = "sent"
  BY <1>1 DEF TalkInv, TalkTyped
<1>5. TalkWork'
  <2>1. Batch /\ \A p \in talk.pairs : Joined(p)
    BY <1>1 DEF TalkInv, TalkWork
  <2>2. \A k \in DOMAIN talk.todo : Fit(talk.todo[k])'
    <3>1. SUFFICES ASSUME NEW k \in DOMAIN talk.todo PROVE Fit(talk.todo[k])'
      OBVIOUS
    <3>2. \A q : Members(q)' = Members(q) /\ NextSender(q)' = NextSender(q)
      BY <1>1 DEF Members, NextSender
    <3>3. Fit(talk.todo[k])
      BY <2>1 DEF Batch
    <3>4. QED
      BY <1>1, <1>4, <3>2, <3>3 DEF Fit
  <2>3. Batch'
    BY <1>1, <1>4, <2>1, <2>2 DEF Batch, Members
  <2>4. QED
    BY <1>1, <1>4, <2>1, <2>3 DEF TalkWork, Joined
<1>6. OnePendingPerPair' /\ Alternates' /\ PairCooldownKept'
  BY <1>1, <1>3 DEF TalkInv, OnePendingPerPair, Alternates, PairCooldownKept, Members
<1>7. QED
  BY <1>2, <1>4, <1>5, <1>6 DEF TalkInv

\* A pair has at most one row in the candidates, so there are no more than pairs.
LEMMA DueFinite ==
  ASSUME TalkInv
  PROVE  IsFiniteSet(DueRows)
<1> DEFINE f == [r \in DueRows |-> r[1]]
<1>1. DueRows \subseteq Pending
  BY DEF DueRows
<1>2. f \in [DueRows -> PairIds]
  BY <1>1, PendingPairs
<1>3. \A r, q \in DueRows : f[r] = f[q] => r = q
  BY <1>1 DEF TalkInv, OnePendingPerPair
<1>4. f \in Injection(DueRows, PairIds)
  BY <1>2, <1>3 DEF Injection, IsInjective
<1>5. IsFiniteSet(PairIds)
  BY PairingAssumption, FS_Interval DEF PairIds
<1>6. QED
  BY <1>4, <1>5, FS_Injection

\* The item of a candidate of the run.
LEMMA CandidateItem ==
  ASSUME PairingInv, TalkInv, talk.pc = "choosing", NEW r \in DueRows
  PROVE  /\ ItemOf(r) \in Item
         /\ ItemOf(r).pair \in talk.pairs
         /\ ItemOf(r).from = NextSender(ItemOf(r).pair)
         /\ {ItemOf(r).from, ItemOf(r).to} = Members(ItemOf(r).pair)
         /\ Members(ItemOf(r).pair) # {}
<1>1. PICK p \in PairIds : \E i \in 1 .. Len(queue[p]) : r = <<p, i>>
  BY PendingPairs DEF DueRows
<1>2. PICK i \in 1 .. Len(queue[p]) : r = <<p, i>>
  BY <1>1
<1>3. pair[p].status = "active" /\ p \in talk.pairs
  BY <1>2 DEF DueRows, TalkInv, TalkWork
<1>4. pair[p].a \in Sims /\ pair[p].b \in Sims /\ pair[p].a # pair[p].b
  <2>1. pair[p].a \in Nat /\ pair[p].b \in Nat
    <3>1. pair[p] \in PairRow
      BY DEF PairingInv, RowsTyped
    <3>2. Ends \subseteq Nat
      BY PairingAssumption DEF Ends
    <3>3. QED
      BY <3>1, <3>2 DEF PairRow
  <2>2. QED
    BY <1>3, <2>1 DEF PairingInv, RowsWell, Joined
<1>5. NextSender(p) \in Sims /\ NextSender(p) \in {pair[p].a, pair[p].b}
  BY <1>4 DEF NextSender
<1>6. i \in Nat
  OBVIOUS
<1>7. ItemOf(r) = [pair |-> p, row |-> i, from |-> NextSender(p),
                   to |-> IF NextSender(p) = pair[p].a THEN pair[p].b ELSE pair[p].a]
  BY <1>2 DEF ItemOf
<1>8. ItemOf(r) \in Item
  BY <1>4, <1>5, <1>6, <1>7 DEF Item
<1>9. QED
  BY <1>3, <1>4, <1>5, <1>7, <1>8 DEF Members

LEMMA ChooseStep ==
  ASSUME PairingInv, TalkInv, TalkChoose
  PROVE  PairingInv' /\ TalkInv'
<1>1. talk.pc = "choosing" /\ UNCHANGED <<clock, sims, pair, msgs, sync>>
  BY DEF TalkChoose
<1> DEFINE n == AtMost(Cardinality(DueRows), BatchSize * Overfetch)
           Order(chosen, c) == [k \in 1 .. Cardinality(chosen) |->
                   ItemOf(c[CHOOSE i \in chosen : Cardinality({j \in chosen : j <= i}) = k])]
           Outcome(c, chosen) ==
             /\ IsChosen(chosen, c)
             /\ \E due \in [Deferred(chosen, c) -> RetryTimes] :
                  queue' = [p \in PairIds |-> [i \in 1 .. Len(queue[p]) |->
                              IF <<p, i>> \in Deferred(chosen, c)
                              THEN [queue[p][i] EXCEPT !.due = due[<<p, i>>]]
                              ELSE queue[p][i]]]
             /\ talk' = IF chosen = {} THEN NoTalk
                        ELSE [talk EXCEPT !.pc = "sending", !.todo = Order(chosen, c)]
<1>2. PICK c \in [1 .. n -> DueRows] : \E chosen \in SUBSET DOMAIN c : Outcome(c, chosen)
  BY DEF TalkChoose
<1>3. PICK chosen \in SUBSET DOMAIN c : Outcome(c, chosen)
  BY <1>2
<1>4. PICK due \in [Deferred(chosen, c) -> RetryTimes] :
        queue' = [p \in PairIds |-> [i \in 1 .. Len(queue[p]) |->
                    IF <<p, i>> \in Deferred(chosen, c)
                    THEN [queue[p][i] EXCEPT !.due = due[<<p, i>>]]
                    ELSE queue[p][i]]]
  BY <1>3
<1>5. \A r \in Deferred(chosen, c) : due[r] \in Nat
  <2>1. clock + RetryDelay \in Nat
    BY ConversationAssumption DEF PairingInv, RowsTyped
  <2>2. QED
    BY <1>4, <2>1, ShiftTyped DEF RetryTimes
<1>6. queue' \in [PairIds -> Seq(QueueRow)] /\ InPlace
  <2>1. ASSUME NEW p \in PairIds
        PROVE  /\ queue'[p] \in Seq(QueueRow) /\ Len(queue'[p]) = Len(queue[p])
               /\ \A i \in 1 .. Len(queue[p]) :
                     queue'[p][i].status = "pending" => queue[p][i].status = "pending"
    <3>1. Len(queue[p]) \in Nat /\ \A i \in 1 .. Len(queue[p]) : queue[p][i] \in QueueRow
      BY DEF PairingInv, RowsTyped
    <3>2. queue'[p] = [i \in 1 .. Len(queue[p]) |->
                         IF <<p, i>> \in Deferred(chosen, c)
                         THEN [queue[p][i] EXCEPT !.due = due[<<p, i>>]]
                         ELSE queue[p][i]]
      BY <1>4
    <3>3. \A r \in QueueRow, d \in Nat : /\ [r EXCEPT !.due = d] \in QueueRow
                                        /\ [r EXCEPT !.due = d].status = r.status
      BY DEF QueueRow
    <3>4. \A i \in 1 .. Len(queue[p]) : /\ queue'[p][i] \in QueueRow
                                       /\ queue'[p][i].status = queue[p][i].status
      BY <1>5, <3>1, <3>2, <3>3
    <3>5. QED
      BY <3>1, <3>2, <3>4
  <2>2. QED
    BY <1>4, <2>1 DEF InPlace
<1>7. CASE chosen = {}
  BY <1>1, <1>3, <1>6, <1>7, StopStep
<1>8. CASE chosen # {}
  <2> DEFINE m == Cardinality(chosen)
             pick(k) == CHOOSE i \in chosen : Cardinality({j \in chosen : j <= i}) = k
  <2>1. n \in Nat
    <3>1. Cardinality(DueRows) \in Nat
      BY DueFinite, FS_CardinalityType
    <3>2. BatchSize * Overfetch \in Nat
      BY ConversationAssumption
    <3>3. QED
      BY <3>1, <3>2 DEF AtMost
  <2> HIDE DEF n
  <2>2. \A i \in chosen : i \in Nat /\ c[i] \in DueRows
    BY <1>3, <2>1
  <2>3. IsFiniteSet(chosen) /\ m \in Nat /\ m # 0
    <3>1. chosen \in SUBSET (1 .. n)
      BY <1>3
    <3>2. IsFiniteSet(1 .. n)
      BY <2>1, FS_Interval
    <3>3. IsFiniteSet(chosen)
      BY <3>1, <3>2, FS_Subset
    <3>4. QED
      BY <1>8, <3>3, FS_CardinalityType, FS_EmptySet
  <2>4. \A k \in 1 .. m : \E i \in chosen : Cardinality({j \in chosen : j <= i}) = k
    <3>1. (\A i \in chosen : i \in Nat) /\ IsFiniteSet(chosen)
      BY <2>2, <2>3
    <3>2. QED
      BY <3>1, NthMember
  <2>5. \A k \in 1 .. m : pick(k) \in chosen /\ Cardinality({j \in chosen : j <= pick(k)}) = k
    BY <2>4
  <2>6. \A j, k \in 1 .. m : pick(j) = pick(k) => j = k
    BY <2>5
  <2>7. talk' = [talk EXCEPT !.pc = "sending", !.todo = [k \in 1 .. m |-> ItemOf(c[pick(k)])]]
    BY <1>3, <1>8
  <2> HIDE DEF pick, m
  <2>8. \A k \in 1 .. m : pick(k) \in chosen /\ c[pick(k)] \in DueRows
    BY <2>2, <2>5
  <2> DEFINE todo == [k \in 1 .. m |-> ItemOf(c[pick(k)])]
  <2>9. todo \in Seq(Item)
    BY <1>1, <2>3, <2>8, CandidateItem
  <2>10. /\ talk'.pc = "sending" /\ talk'.pairs = talk.pairs /\ talk'.todo = todo
         /\ TalkTyped'
    BY <2>7, <2>9 DEF TalkInv, TalkTyped
  <2>11. DOMAIN todo = 1 .. m /\ todo # <<>> /\ \A k \in 1 .. m : todo[k] = ItemOf(c[pick(k)])
    BY <2>3
  <2> HIDE DEF todo
  <2>12. \A i \in chosen : /\ \A s \in Both(i, c) : IsCooledDown(s)
                          /\ \A j \in chosen : j < i => Both(j, c) \cap Both(i, c) = {}
    BY <1>3 DEF IsChosen
  <2>13. \A k \in 1 .. m : Both(pick(k), c) = Members(todo[k].pair)
    BY <1>1, <2>8, <2>11, CandidateItem DEF Both
  <2>14. \A k \in 1 .. m : Fit(talk.todo[k])'
    <3>1. SUFFICES ASSUME NEW k \in 1 .. m PROVE Fit(talk.todo[k])'
      OBVIOUS
    <3>2. /\ todo[k].pair \in talk.pairs
          /\ todo[k].from = NextSender(todo[k].pair)
          /\ {todo[k].from, todo[k].to} = Members(todo[k].pair)
      BY <1>1, <2>8, <2>11, CandidateItem
    <3>3. ASSUME NEW q \in PairIds, Members(todo[k].pair) \cap Members(q) # {},
                 NEW i \in DOMAIN msgs[q]
          PROVE  clock - msgs[q][i].at >= Cooldown
      <4>1. PICK s \in Members(todo[k].pair) : s \in Members(q)
        BY <3>3
      <4>2. IsCooledDown(s)
        BY <2>8, <2>12, <2>13, <4>1
      <4>3. msgs[q][i].at \in Activity(s)
        BY <3>3, <4>1 DEF Activity
      <4>4. QED
        BY <4>2, <4>3 DEF IsCooledDown
    <3>4. \A q : Members(q)' = Members(q) /\ NextSender(q)' = NextSender(q)
      BY <1>1 DEF Members, NextSender
    <3>5. QED
      BY <1>1, <2>10, <3>2, <3>3, <3>4 DEF Fit
  <2>15. \A j, k \in 1 .. m : j # k => Members(todo[j].pair) \cap Members(todo[k].pair) = {}
    <3>1. ASSUME NEW j \in 1 .. m, NEW k \in 1 .. m, pick(j) < pick(k)
          PROVE  Members(todo[j].pair) \cap Members(todo[k].pair) = {}
      BY <2>8, <2>12, <2>13, <3>1
    <3>2. ASSUME NEW j \in 1 .. m, NEW k \in 1 .. m, j # k
          PROVE  pick(j) < pick(k) \/ pick(k) < pick(j)
      <4>1. pick(j) \in Nat /\ pick(k) \in Nat
        BY <2>2, <2>8
      <4>2. pick(j) # pick(k)
        BY <2>6, <3>2
      <4>3. QED
        BY <4>1, <4>2
    <3>3. QED
      BY <3>1, <3>2
  <2>16. Batch'
    <3>1. \A q : Members(q)' = Members(q)
      BY <1>1 DEF Members
    <3>2. DOMAIN talk'.todo = 1 .. m /\ talk'.todo # <<>>
      BY <2>10, <2>11
    <3>3. \A j, k \in 1 .. m : j # k =>
            Members(talk.todo[j].pair)' \cap Members(talk.todo[k].pair)' = {}
      BY <2>10, <2>15, <3>1 DEF Members
    <3>4. QED
      BY <2>14, <3>2, <3>3 DEF Batch
  <2>17. TalkWork'
    BY <1>1, <2>10, <2>16 DEF TalkInv, TalkWork, Joined
  <2>18. OnePendingPerPair' /\ Alternates' /\ PairCooldownKept'
    BY <1>1, <1>6, InPlacePending
       DEF TalkInv, OnePendingPerPair, Alternates, PairCooldownKept, Members
  <2>19. PairingInv'
    <3>1. \A p \in PairIds : ~Joined(p) => queue'[p] = queue[p]
      BY <1>6 DEF PairingInv, RowsWell, InPlace
    <3>2. RowsTyped'
      BY <1>1, <1>6 DEF PairingInv, RowsTyped
    <3>3. QED
      BY <1>1, <3>1, <3>2, TalkKeepsRows
  <2>20. QED
    BY <2>10, <2>17, <2>18, <2>19 DEF TalkInv
<1>9. QED
  BY <1>7, <1>8

\* What is left of a list of more than one.
LEMMA TailOf ==
  ASSUME NEW S, NEW s \in Seq(S), s # <<>>, Len(s) # 1
  PROVE  /\ Tail(s) \in Seq(S) /\ Tail(s) # <<>>
         /\ \A k \in DOMAIN Tail(s) : /\ k + 1 \in DOMAIN s /\ k + 1 # 1
                                      /\ Tail(s)[k] = s[k + 1]
<1>1. PICK n \in Nat : n = Len(s)
  BY LenProperties
<1>2. n > 1
  <2>1. n # 0
    BY <1>1, EmptySeq
  <2>2. QED
    BY <1>1, <2>1
<1>3. /\ Tail(s) \in Seq(S) /\ Len(Tail(s)) = n - 1
      /\ \A k \in 1 .. n - 1 : Tail(s)[k] = s[k + 1]
  BY <1>1, HeadTailProperties
<1>4. DOMAIN s = 1 .. n /\ DOMAIN Tail(s) = 1 .. n - 1
  BY <1>1, <1>3, LenProperties
<1>5. Tail(s) # <<>>
  BY <1>2, <1>3
<1>6. QED
  BY <1>2, <1>3, <1>4, <1>5

\* The items after the first.
LEMMA OnwardShape ==
  ASSUME TalkInv, talk.pc \in {"sending", "sent"}, talk' = Onward
  PROVE  /\ TalkTyped'
         /\ \/ talk' = NoTalk
            \/ /\ talk'.pc = "sending" /\ talk'.pairs = talk.pairs /\ talk'.todo # <<>>
               /\ \A k \in DOMAIN talk'.todo : /\ k + 1 \in DOMAIN talk.todo /\ k + 1 # 1
                                              /\ talk'.todo[k] = talk.todo[k + 1]
<1>1. talk.todo \in Seq(Item) /\ talk.todo # <<>>
  BY DEF TalkInv, TalkTyped, TalkWork, Batch
<1>2. CASE Len(talk.todo) = 1
  BY <1>2 DEF Onward, NoTalk, TalkTyped
<1>3. CASE Len(talk.todo) # 1
  <2>1. talk' = [talk EXCEPT !.pc = "sending", !.todo = Tail(talk.todo)]
    BY <1>3 DEF Onward
  <2>2. /\ Tail(talk.todo) \in Seq(Item) /\ Tail(talk.todo) # <<>>
        /\ \A k \in DOMAIN Tail(talk.todo) : /\ k + 1 \in DOMAIN talk.todo /\ k + 1 # 1
                                            /\ Tail(talk.todo)[k] = talk.todo[k + 1]
    BY <1>1, <1>3, TailOf
  <2>3. /\ talk'.pc = "sending" /\ talk'.pairs = talk.pairs /\ talk'.todo = Tail(talk.todo)
        /\ TalkTyped'
    BY <2>1, <2>2 DEF TalkInv, TalkTyped
  <2>4. QED
    BY <2>2, <2>3
<1>4. QED
  BY <1>2, <1>3

LEMMA OnwardWork ==
  ASSUME TalkInv, talk.pc \in {"sending", "sent"}, talk' = Onward, clock' = clock,
         \A q \in PairIds : /\ pair'[q].status = pair[q].status
                            /\ pair'[q].a = pair[q].a /\ pair'[q].b = pair[q].b,
         \A k \in DOMAIN talk.todo \ {1}, q \in PairIds :
            Members(talk.todo[k].pair) \cap Members(q) # {} => msgs'[q] = msgs[q]
  PROVE  TalkTyped' /\ TalkWork'
<1>1. CASE talk' = NoTalk
  BY <1>1, OnwardShape DEF NoTalk, TalkWork
<1>2. CASE talk' # NoTalk
  <2>1. /\ talk'.pc = "sending" /\ talk'.pairs = talk.pairs /\ talk'.todo # <<>>
        /\ \A k \in DOMAIN talk'.todo : /\ k + 1 \in DOMAIN talk.todo \ {1}
                                       /\ talk'.todo[k] = talk.todo[k + 1]
    BY <1>2, OnwardShape
  <2>2. Batch /\ \A p \in talk.pairs : Joined(p)
    BY DEF TalkInv, TalkWork
  <2>3. \A q \in PairIds : Members(q)' = Members(q) /\ (Joined(q)' <=> Joined(q))
    BY DEF Members, Joined
  <2>4. talk.pairs \subseteq PairIds /\ \A k \in DOMAIN talk.todo : talk.todo[k].pair \in PairIds
    BY ItemTyped DEF TalkInv, TalkTyped, Item
  <2>5. ASSUME NEW k \in DOMAIN talk'.todo PROVE Fit(talk.todo[k])'
    <3>1. PICK it : it = talk.todo[k + 1]
      OBVIOUS
    <3>2. /\ it.pair \in PairIds /\ Fit(it) /\ k + 1 \in DOMAIN talk.todo \ {1}
          /\ talk'.todo[k] = it
      BY <2>1, <2>2, <2>4, <3>1 DEF Batch
    <3>3. \A q \in PairIds : Members(it.pair) \cap Members(q) # {} => msgs'[q] = msgs[q]
      BY <3>1, <3>2
    <3>4. /\ it.pair \in talk.pairs
          /\ it.from = NextSender(it.pair) /\ {it.from, it.to} = Members(it.pair)
          /\ \A q \in PairIds : Members(it.pair) \cap Members(q) # {} =>
               \A i \in DOMAIN msgs[q] : clock - msgs[q][i].at >= Cooldown
      BY <3>2 DEF Fit
    <3>5. msgs'[it.pair] = msgs[it.pair]
      <4>1. Members(it.pair) \cap Members(it.pair) # {}
        BY DEF Members
      <4>2. QED
        BY <3>2, <3>3, <4>1
    <3>6. NextSender(it.pair)' = NextSender(it.pair)
      BY <3>2, <3>5 DEF NextSender
    <3>7. Members(it.pair)' = Members(it.pair)
      BY <3>2 DEF Members
    <3>8. \A q \in PairIds : Members(it.pair)' \cap Members(q)' # {} =>
            \A i \in DOMAIN msgs'[q] : clock' - msgs'[q][i].at >= Cooldown
      <4>1. SUFFICES ASSUME NEW q \in PairIds, Members(it.pair)' \cap Members(q)' # {}
                     PROVE  \A i \in DOMAIN msgs'[q] : clock' - msgs'[q][i].at >= Cooldown
        OBVIOUS
      <4>2. Members(it.pair) \cap Members(q) # {}
        BY <2>3, <3>7, <4>1
      <4>3. QED
        BY <3>3, <3>4, <4>2
    <3>9. QED
      BY <2>1, <3>2, <3>4, <3>6, <3>7, <3>8 DEF Fit
  <2>6. ASSUME NEW j \in DOMAIN talk'.todo, NEW k \in DOMAIN talk'.todo, j # k
        PROVE  Members(talk.todo[j].pair)' \cap Members(talk.todo[k].pair)' = {}
    <3>1. j + 1 # k + 1
      <4>1. talk'.todo \in Seq(Item)
        BY OnwardShape DEF TalkTyped
      <4>2. j \in Int /\ k \in Int
        BY <4>1
      <4>3. QED
        BY <2>6, <4>2
    <3>2. Members(talk.todo[j + 1].pair) \cap Members(talk.todo[k + 1].pair) = {}
      BY <2>1, <2>2, <3>1 DEF Batch
    <3>3. QED
      BY <2>1, <2>3, <2>4, <3>2 DEF Members
  <2>7. Batch'
    BY <2>1, <2>5, <2>6 DEF Batch
  <2>8. QED
    BY <2>1, <2>2, <2>3, <2>4, <2>7, OnwardShape DEF TalkWork
<1>3. QED
  BY <1>1, <1>2

LEMMA FirstItem ==
  ASSUME TalkInv, talk.pc \in {"sending", "sent"}, NEW it, it = Head(talk.todo)
  PROVE  /\ it \in Item /\ it.pair \in PairIds /\ it.row \in Nat /\ it.from \in Sims
         /\ Fit(it) /\ Joined(it.pair)
         /\ \A k \in DOMAIN talk.todo \ {1} :
              Members(talk.todo[k].pair) \cap Members(it.pair) = {}
<1>1. talk.todo \in Seq(Item) /\ talk.todo # <<>> /\ Batch
  BY DEF TalkInv, TalkTyped, TalkWork, Batch
<1>2. 1 \in DOMAIN talk.todo /\ it = talk.todo[1]
  <2>1. Len(talk.todo) \in Nat \ {0} /\ DOMAIN talk.todo = 1 .. Len(talk.todo)
    BY <1>1, EmptySeq, LenProperties
  <2>2. QED
    BY <2>1
<1>3. it \in Item /\ Fit(it)
  BY <1>1, <1>2, ItemTyped DEF TalkInv, Batch
<1>4. \A k \in DOMAIN talk.todo \ {1} : Members(talk.todo[k].pair) \cap Members(it.pair) = {}
  BY <1>1, <1>2 DEF Batch
<1>5. Joined(it.pair)
  BY <1>3 DEF Fit, TalkInv, TalkWork
<1>6. QED
  BY <1>3, <1>4, <1>5 DEF Item

LEMMA FailStep ==
  ASSUME PairingInv, TalkInv, TalkFail
  PROVE  PairingInv' /\ TalkInv'
<1>1. PICK it : it = Head(talk.todo)
  OBVIOUS
<1>2. PICK row : row = queue[it.pair][it.row]
  OBVIOUS
<1>3. /\ talk.pc \in {"sending", "sent"} /\ talk' = Onward
      /\ UNCHANGED <<clock, sims, pair, msgs, sync>>
  BY DEF TalkFail
<1>4. PICK due \in RetryTimes :
        queue' = [queue EXCEPT ![it.pair][it.row] =
          IF row.attempts + 1 >= MaxAttempts
          THEN [row EXCEPT !.attempts = @ + 1, !.status = "failed"]
          ELSE [row EXCEPT !.attempts = @ + 1, !.due = due]]
  BY <1>1, <1>2 DEF TalkFail
<1>5. PICK new : new = IF row.attempts + 1 >= MaxAttempts
                       THEN [row EXCEPT !.attempts = @ + 1, !.status = "failed"]
                       ELSE [row EXCEPT !.attempts = @ + 1, !.due = due]
  OBVIOUS
<1>6. it.pair \in PairIds /\ it.row \in Nat
  BY <1>1, <1>3, FirstItem
<1>7. due \in Nat
  <2>1. clock + RetryDelay \in Nat
    BY ConversationAssumption DEF PairingInv, RowsTyped
  <2>2. QED
    BY <1>4, <2>1, ShiftTyped DEF RetryTimes
<1>8. row \in QueueRow => /\ new \in QueueRow
                          /\ new.status = "pending" => row.status = "pending"
  <2>1. SUFFICES ASSUME row \in QueueRow
                 PROVE  new \in QueueRow /\ (new.status = "pending" => row.status = "pending")
    OBVIOUS
  <2>2. row.attempts + 1 \in Nat
    BY <2>1 DEF QueueRow
  <2>3. /\ [row EXCEPT !.attempts = @ + 1, !.status = "failed"] \in QueueRow
        /\ [row EXCEPT !.attempts = @ + 1, !.status = "failed"].status = "failed"
    BY <2>1, <2>2 DEF QueueRow
  <2>4. /\ [row EXCEPT !.attempts = @ + 1, !.due = due] \in QueueRow
        /\ [row EXCEPT !.attempts = @ + 1, !.due = due].status = row.status
    BY <1>7, <2>1, <2>2 DEF QueueRow
  <2>5. \/ new = [row EXCEPT !.attempts = @ + 1, !.status = "failed"]
        \/ new = [row EXCEPT !.attempts = @ + 1, !.due = due]
    BY <1>5, Zenon
  <2>6. QED
    BY <2>3, <2>4, <2>5, Zenon
<1>9. it.row \in DOMAIN queue[it.pair] => row \in QueueRow
  <2>1. queue[it.pair] \in Seq(QueueRow)
    BY <1>6 DEF PairingInv, RowsTyped
  <2>2. QED
    BY <1>2, <2>1
<1>10. queue' = [queue EXCEPT ![it.pair] = [queue[it.pair] EXCEPT ![it.row] = new]]
  BY <1>4, <1>5
<1>11. queue' \in [PairIds -> Seq(QueueRow)] /\ InPlace
  BY <1>2, <1>6, <1>8, <1>9, <1>10, UpdateInPlace
<1>12. RowsTyped'
  BY <1>3, <1>11 DEF PairingInv, RowsTyped
<1>13. \A p \in PairIds : ~Joined(p) => queue'[p] = queue[p]
  BY <1>11 DEF PairingInv, RowsWell, InPlace
<1>14. PairingInv'
  BY <1>3, <1>12, <1>13, TalkKeepsRows
<1>15. TalkTyped' /\ TalkWork'
  BY <1>3, OnwardWork
<1>16. OnePendingPerPair' /\ Alternates' /\ PairCooldownKept'
  BY <1>3, <1>11, InPlacePending
     DEF TalkInv, OnePendingPerPair, Alternates, PairCooldownKept, Members
<1>17. QED
  BY <1>14, <1>15, <1>16 DEF TalkInv

LEMMA Parity ==
  ASSUME NEW n \in Nat
  PROVE  n % 2 = 1 <=> (n + 1) % 2 # 1
<1>1. n % 2 = 0 \/ n % 2 = 1
  <2>1. n % 2 \in 0 .. 2 - 1
    BY DayOf
  <2>2. QED
    BY <2>1
<1>2. PICK q \in Int : n = q * 2 + (n % 2)
  <2>1. n = (n \div 2) * 2 + (n % 2) /\ n \div 2 \in Int
    OBVIOUS
  <2>2. QED
    BY <2>1
<1>3. CASE n % 2 = 0
  <2>1. n + 1 = q * 2 + 1
    BY <1>2, <1>3
  <2>2. (q * 2 + 1) % 2 = 1
    BY HourOf
  <2>3. QED
    BY <1>3, <2>1, <2>2
<1>4. CASE n % 2 = 1
  <2>1. n + 1 = (q + 1) * 2 + 0 /\ q + 1 \in Int
    BY <1>2, <1>4
  <2>2. ((q + 1) * 2 + 0) % 2 = 0
    BY <2>1, HourOf
  <2>3. QED
    BY <1>4, <2>1, <2>2
<1>5. QED
  BY <1>1, <1>3, <1>4

\* The parity that tells whose turn it is.
LEMMA NextTurn ==
  ASSUME PairingInv, TalkInv, NEW p \in PairIds, Joined(p), NEW n \in Nat, n = Len(msgs[p])
  PROVE  NextSender(p) = IF (n + 1) % 2 = 1 THEN pair[p].a ELSE pair[p].b
<1>1. pair[p].a # pair[p].b
  <2>1. pair[p].a \in Nat /\ pair[p].b \in Nat
    BY PairingAssumption DEF PairingInv, RowsWell
  <2>2. QED
    BY <2>1 DEF PairingInv, RowsWell
<1>2. msgs[p] \in Seq(Message)
  BY DEF PairingInv, RowsTyped
<1>3. CASE msgs[p] = <<>>
  BY <1>3 DEF NextSender
<1>4. CASE msgs[p] # <<>>
  <2>1. n \in 1 .. Len(msgs[p])
    BY <1>2, <1>4, EmptySeq
  <2>2. msgs[p][n].from = IF n % 2 = 1 THEN pair[p].a ELSE pair[p].b
    BY <2>1 DEF TalkInv, Alternates
  <2>3. n % 2 = 1 <=> (n + 1) % 2 # 1
    BY Parity
  <2>4. QED
    BY <1>1, <1>4, <2>2, <2>3 DEF NextSender
<1>5. QED
  BY <1>3, <1>4

LEMMA RecordStep ==
  ASSUME PairingInv, TalkInv, TalkRecord
  PROVE  PairingInv' /\ TalkInv'
<1>1. PICK it : it = Head(talk.todo)
  OBVIOUS
<1>2. PICK row : row = queue[it.pair][it.row]
  OBVIOUS
<1>3. PICK p : p = it.pair
  OBVIOUS
<1>4. PICK new : new = [from |-> it.from, at |-> clock]
  OBVIOUS
<1>5. /\ talk.pc \in {"sending", "sent"} /\ talk' = Onward
      /\ UNCHANGED <<clock, sims, sync>>
      /\ queue' = [queue EXCEPT ![p] = [queue[p] EXCEPT ![it.row] = [row EXCEPT !.status = "sent"]]]
      /\ pair' = [pair EXCEPT ![p] = [pair[p] EXCEPT !.sent = @ + 1]]
      /\ msgs' = [msgs EXCEPT ![p] = Append(msgs[p], new)]
  BY <1>1, <1>2, <1>3, <1>4 DEF TalkRecord
<1>6. /\ p \in PairIds /\ it.row \in Nat /\ it.from \in Sims /\ Fit(it) /\ Joined(p)
      /\ \A k \in DOMAIN talk.todo \ {1} : Members(talk.todo[k].pair) \cap Members(p) = {}
  BY <1>1, <1>3, <1>5, FirstItem
<1>7. queue' \in [PairIds -> Seq(QueueRow)] /\ InPlace
  <2>1. it.row \in DOMAIN queue[p] => row \in QueueRow
    <3>1. queue[p] \in Seq(QueueRow)
      BY <1>6 DEF PairingInv, RowsTyped
    <3>2. QED
      BY <1>2, <1>3, <3>1
  <2>2. row \in QueueRow => /\ [row EXCEPT !.status = "sent"] \in QueueRow
                            /\ [row EXCEPT !.status = "sent"].status # "pending"
    BY DEF QueueRow
  <2>3. QED
    BY <1>5, <1>6, <2>1, <2>2, UpdateInPlace
<1>8. \A q \in PairIds : /\ pair'[q] \in PairRow /\ pair'[q].status = pair[q].status
                         /\ pair'[q].a = pair[q].a /\ pair'[q].b = pair[q].b
  <2>1. \A q \in PairIds : pair[q] \in PairRow
    BY DEF PairingInv, RowsTyped
  <2>2. pair[p].sent + 1 \in Nat
    BY <1>6, <2>1 DEF PairRow
  <2>3. pair'[p] = [pair[p] EXCEPT !.sent = @ + 1] /\ \A q \in PairIds \ {p} : pair'[q] = pair[q]
    BY <1>5, <1>6 DEF PairingInv, RowsTyped
  <2>4. /\ [pair[p] EXCEPT !.sent = @ + 1] \in PairRow
        /\ pair'[p].status = pair[p].status /\ pair'[p].a = pair[p].a /\ pair'[p].b = pair[p].b
    BY <1>6, <2>1, <2>2, <2>3 DEF PairRow
  <2>5. QED
    BY <2>1, <2>3, <2>4
<1>9. PICK n \in Nat : n = Len(msgs[p])
  BY <1>6, LenProperties DEF PairingInv, RowsTyped
<1>10. new \in Message
  BY <1>4, <1>6 DEF Message, Ends, PairingInv, RowsTyped
<1>11. /\ msgs'[p] \in Seq(Message) /\ DOMAIN msgs'[p] = 1 .. n + 1 /\ Len(msgs'[p]) = n + 1
       /\ msgs'[p][n + 1] = new
       /\ DOMAIN msgs[p] = 1 .. n /\ \A i \in 1 .. n : msgs'[p][i] = msgs[p][i]
       /\ \A q \in PairIds \ {p} : msgs'[q] = msgs[q]
  <2>1. msgs[p] \in Seq(Message)
    BY <1>6 DEF PairingInv, RowsTyped
  <2>2. msgs'[p] = Append(msgs[p], new) /\ \A q \in PairIds \ {p} : msgs'[q] = msgs[q]
    BY <1>5, <1>6 DEF PairingInv, RowsTyped
  <2>3. QED
    BY <1>9, <1>10, <2>1, <2>2
<1>12. RowsTyped'
  <2>1. \A q \in PairIds : msgs'[q] \in Seq(Message)
    BY <1>11 DEF PairingInv, RowsTyped
  <2>2. DOMAIN pair' = PairIds /\ pair' = [q \in PairIds |-> pair'[q]]
    BY <1>5 DEF PairingInv, RowsTyped
  <2>3. DOMAIN msgs' = PairIds /\ msgs' = [q \in PairIds |-> msgs'[q]]
    BY <1>5 DEF PairingInv, RowsTyped
  <2>4. pair' \in [PairIds -> PairRow] /\ msgs' \in [PairIds -> Seq(Message)]
    BY <1>8, <2>1, <2>2, <2>3
  <2>5. QED
    BY <1>5, <1>7, <2>4 DEF PairingInv, RowsTyped
<1>13. PairingInv'
  <2>1. \A q \in PairIds : ~Joined(q) => queue'[q] = queue[q] /\ msgs'[q] = msgs[q]
    BY <1>6, <1>7, <1>11 DEF PairingInv, RowsWell, InPlace
  <2>2. QED
    BY <1>5, <1>8, <1>12, <2>1, TalkKeepsRows
<1>14. TalkTyped' /\ TalkWork'
  BY <1>5, <1>6, <1>8, <1>11, OnwardWork
<1>15. Alternates'
  <2>1. \A q \in PairIds \ {p} : \A i \in 1 .. Len(msgs'[q]) :
          msgs'[q][i].from = IF i % 2 = 1 THEN pair'[q].a ELSE pair'[q].b
    BY <1>8, <1>11 DEF TalkInv, Alternates
  <2>2. \A i \in 1 .. n : msgs'[p][i].from = IF i % 2 = 1 THEN pair'[p].a ELSE pair'[p].b
    BY <1>6, <1>8, <1>9, <1>11 DEF TalkInv, Alternates
  <2>3. new.from = NextSender(p)
    BY <1>3, <1>4, <1>6 DEF Fit
  <2>4. msgs'[p][n + 1].from = IF (n + 1) % 2 = 1 THEN pair'[p].a ELSE pair'[p].b
    BY <1>6, <1>8, <1>9, <1>11, <2>3, NextTurn
  <2>5. \A i \in 1 .. n + 1 : i \in 1 .. n \/ i = n + 1
    OBVIOUS
  <2>6. \A i \in 1 .. Len(msgs'[p]) :
          msgs'[p][i].from = IF i % 2 = 1 THEN pair'[p].a ELSE pair'[p].b
    BY <1>11, <2>2, <2>4, <2>5
  <2>7. QED
    BY <2>1, <2>6 DEF Alternates
<1>16. PairCooldownKept'
  <2>1. \A q \in PairIds : Members(q)' = Members(q)
    BY <1>8 DEF Members
  <2>2. \A q \in PairIds : Members(p) \cap Members(q) # {} =>
          \A j \in DOMAIN msgs[q] : new.at - msgs[q][j].at >= Cooldown
    BY <1>3, <1>4, <1>6 DEF Fit
  <2>3. \A q \in PairIds : \A j \in DOMAIN msgs'[q] :
          \/ q = p /\ j = n + 1 /\ msgs'[q][j] = new
          \/ j \in DOMAIN msgs[q] /\ msgs'[q][j] = msgs[q][j]
    <3>1. \A i \in 1 .. n + 1 : i \in 1 .. n \/ i = n + 1
      OBVIOUS
    <3>2. QED
      BY <1>11, <3>1
  <2>4. SUFFICES ASSUME NEW q \in PairIds, NEW r \in PairIds,
                        NEW i \in DOMAIN msgs'[q], NEW j \in DOMAIN msgs'[r]
                 PROVE  \/ <<q, i>> = <<r, j>>
                        \/ Members(q) \cap Members(r) = {}
                        \/ msgs'[q][i].at - msgs'[r][j].at >= Cooldown
                        \/ msgs'[r][j].at - msgs'[q][i].at >= Cooldown
    BY <2>1 DEF PairCooldownKept
  <2>5. CASE i \in DOMAIN msgs[q] /\ msgs'[q][i] = msgs[q][i]
    <3>1. CASE j \in DOMAIN msgs[r] /\ msgs'[r][j] = msgs[r][j]
      BY <2>5, <3>1 DEF TalkInv, PairCooldownKept
    <3>2. CASE r = p /\ j = n + 1 /\ msgs'[r][j] = new
      BY <2>2, <2>5, <3>2
    <3>3. QED
      BY <2>3, <3>1, <3>2
  <2>6. CASE q = p /\ i = n + 1 /\ msgs'[q][i] = new
    <3>1. CASE j \in DOMAIN msgs[r] /\ msgs'[r][j] = msgs[r][j]
      BY <2>2, <2>6, <3>1
    <3>2. CASE r = p /\ j = n + 1
      BY <2>6, <3>2
    <3>3. QED
      BY <2>3, <3>1, <3>2
  <2>7. QED
    BY <2>3, <2>5, <2>6
<1>17. OnePendingPerPair'
  BY <1>7, InPlacePending DEF TalkInv, OnePendingPerPair
<1>18. QED
  BY <1>13, <1>14, <1>15, <1>16, <1>17 DEF TalkInv

LEMMA TalkStep ==
  ASSUME PairingInv, TalkInv, TalkNext
  PROVE  PairingInv' /\ TalkInv'
<1>1. CASE TalkStop
  <2>1. talk' = NoTalk /\ UNCHANGED <<clock, sims, pair, queue, msgs, sync>>
    BY <1>1 DEF TalkStop, pairingVars
  <2>2. queue' \in [PairIds -> Seq(QueueRow)] /\ InPlace
    BY <2>1 DEF PairingInv, RowsTyped, InPlace
  <2>3. QED
    BY <2>1, <2>2, StopStep
<1>2. QED
  BY <1>1, StartStep, EnqueueStep, ChooseStep, SendStep, RecordStep, FailStep DEF TalkNext

-----------------------------------------------------------------------------
(* The calls. *)

CallRow == [pair : PairIds, from : Sims, to : Sims, at : Nat,
            status : {"started", "completed", "failed"}]
Cdr     == [from : Sims, to : Sims, at : Nat, verdict : {"open", "COMPLETED", "FAILED"}]

Placed  == [pair : PairIds, at : Nat, kept : BOOLEAN]

CallTyped ==
  /\ calls \in Seq(CallRow)
  /\ cdrs \in Seq(Cdr)
  /\ placed \in Seq(Placed)
  /\ ring \in [pc : {"idle", "listing", "calling", "placed"}, now : Nat,
               todo : SUBSET PairIds, used : SUBSET Sims, started : Nat]

\* The pairs a run may still call have rested: each has its place in the loop, so a
\* call of this run is none of theirs.
CallWork ==
  ring.pc # "idle" =>
    \A p \in ring.todo :
      /\ Joined(p)
      /\ \A i \in DOMAIN calls : calls[i].pair = p => clock - calls[i].at >= CallInterval

\* A call whose commit was reached has a row, no older; one that waits for its commit
\* is that of the pair whose turn it is.
CallRows ==
  /\ \A i \in DOMAIN placed : placed[i].kept =>
       \E r \in DOMAIN calls : calls[r].pair = placed[i].pair /\ calls[r].at >= placed[i].at
  /\ ring.pc = "placed" =>
       /\ placed # <<>>
       /\ IsNext(placed[Len(placed)].pair) /\ placed[Len(placed)].at <= clock

CallInv == CallTyped /\ CallWork /\ CallRows /\ CallCadence /\ CompletedWasMade

LEMMA InitCall == CallInit => CallInv
<1> SUFFICES ASSUME CallInit PROVE CallInv
  OBVIOUS
<1>1. CallTyped /\ CallWork
  BY DEF CallInit, NoRing, CallTyped, CallWork
<1>2. CallRows /\ CallCadence /\ CompletedWasMade
  BY DEF CallInit, NoRing, CallRows, CallCadence, CompletedWasMade
<1>3. QED
  BY <1>1, <1>2 DEF CallInv

LEMMA CallAt ==
  ASSUME CallTyped, NEW i \in DOMAIN calls
  PROVE  calls[i] \in CallRow /\ calls[i].at \in Nat /\ calls[i].to \in Sims
<1>1. calls[i] \in CallRow
  BY DEF CallTyped
<1>2. QED
  BY <1>1 DEF CallRow

LEMMA PlacedAt ==
  ASSUME CallTyped, NEW i \in DOMAIN placed
  PROVE  placed[i] \in Placed /\ placed[i].at \in Nat
<1>1. placed[i] \in Placed
  BY DEF CallTyped
<1>2. QED
  BY <1>1 DEF Placed

LEMMA LastPlaced ==
  ASSUME CallTyped, placed # <<>>
  PROVE  Len(placed) \in DOMAIN placed
BY DEF CallTyped

\* Beside a run of calls.
LEMMA CallBeside ==
  ASSUME PairingInv, PairingInv', CallInv, clock <= clock', UNCHANGED callVars,
         \A p \in ring.todo : Joined(p) => Joined(p)' /\ Members(p)' = Members(p)
  PROVE  CallInv'
<1>1. CallTyped' /\ CallCadence' /\ CompletedWasMade'
  BY DEF CallInv, CallTyped, CallCadence, CompletedWasMade, callVars
<1>2. CallRows'
  <2>1. UNCHANGED <<calls, ring, placed>>
    BY DEF callVars
  <2>2. ASSUME ring.pc = "placed" PROVE Callable(ring)' = Callable(ring)
    <3>1. \A p \in ring.todo : Members(p)' = Members(p)
      BY <2>2 DEF CallInv, CallWork
    <3>2. QED
      BY <2>1, <3>1 DEF Callable
  <2>3. ASSUME ring.pc = "placed", NEW p, IsNext(p) PROVE IsNext(p)'
    BY <2>2, <2>3 DEF IsNext
  <2>4. ASSUME ring.pc = "placed" PROVE placed[Len(placed)].at <= clock'
    <3>1. placed[Len(placed)].at <= clock /\ placed[Len(placed)].at \in Nat
      BY <2>4, LastPlaced, PlacedAt DEF CallInv, CallRows
    <3>2. QED
      BY <3>1 DEF PairingInv, RowsTyped
  <2>5. QED
    BY <2>1, <2>3, <2>4 DEF CallInv, CallRows
<1>3. ASSUME ring.pc # "idle", NEW p \in ring.todo, NEW i \in DOMAIN calls, calls[i].pair = p
      PROVE  clock' - calls[i].at >= CallInterval
  <2>1. clock - calls[i].at >= CallInterval
    BY <1>3 DEF CallInv, CallWork
  <2>2. calls[i].at \in Nat /\ clock \in Nat /\ clock' \in Nat /\ CallInterval \in Nat
    BY <1>3, CallAt, CallAssumption DEF CallInv, PairingInv, RowsTyped
  <2>3. QED
    BY <2>1, <2>2
<1>4. CallWork'
  BY <1>3 DEF CallInv, CallWork, callVars
<1>5. QED
  BY <1>1, <1>4, <1>2 DEF CallInv

\* What a row makes of the calls that were placed.
LEMMA KeptIs ==
  ASSUME CallInv
  PROVE  /\ Kept \in Seq(Placed) /\ DOMAIN Kept = DOMAIN placed
         /\ \A i \in DOMAIN placed :
              /\ Kept[i].pair = placed[i].pair /\ Kept[i].at = placed[i].at
              /\ Kept[i].kept => placed[i].kept \/ (i = Len(placed) /\ ring.pc = "placed")
<1>1. PICK n \in Nat : n = Len(placed) /\ DOMAIN placed = 1 .. n /\ placed \in [1 .. n -> Placed]
  BY LenProperties DEF CallInv, CallTyped
<1>2. CASE ring.pc = "placed"
  <2>1. n \in 1 .. n
    BY <1>1, <1>2, LastPlaced DEF CallInv, CallRows
  <2>2. Kept = [placed EXCEPT ![n] = [placed[n] EXCEPT !.kept = TRUE]]
    BY <1>1, <1>2 DEF Kept
  <2>3. placed[n] \in Placed
    BY <1>1, <2>1
  <2>4. /\ [placed[n] EXCEPT !.kept = TRUE] \in Placed
        /\ [placed[n] EXCEPT !.kept = TRUE].pair = placed[n].pair
        /\ [placed[n] EXCEPT !.kept = TRUE].at = placed[n].at
    BY <2>3 DEF Placed
  <2>5. Kept \in [1 .. n -> Placed]
    BY <1>1, <2>2, <2>4
  <2>6. Kept \in Seq(Placed)
    BY <2>5
  <2>7. QED
    BY <1>1, <1>2, <2>1, <2>2, <2>4, <2>5, <2>6
<1>3. CASE ring.pc # "placed"
  BY <1>1, <1>3 DEF Kept, CallInv, CallTyped
<1>4. QED
  BY <1>2, <1>3

\* The row of a call of this run.
LEMMA NewCall ==
  ASSUME PairingInv, CallInv, NEW p \in ring.todo, ring.pc # "idle",
         NEW status \in {"started", "failed"}
  PROVE  /\ Row(p, status) \in CallRow /\ Row(p, status).pair = p
         /\ Row(p, status).at = clock /\ Row(p, status).status = status
         /\ [from |-> Caller(p, ring.now), to |-> Callee(p, ring.now),
             at |-> clock, verdict |-> "open"] \in Cdr
<1>1. p \in PairIds /\ Joined(p)
  BY DEF CallInv, CallTyped, CallWork
<1>2. pair[p].a \in Sims /\ pair[p].b \in Sims /\ pair[p].a # pair[p].b
  <2>1. /\ pair[p].a \in Sims /\ pair[p].b \in Sims /\ pair[p].a < pair[p].b
    BY <1>1 DEF PairingInv, RowsWell
  <2>2. pair[p].a \in Nat /\ pair[p].b \in Nat
    BY <2>1, PairingAssumption
  <2>3. QED
    BY <2>1, <2>2
<1>3. Caller(p, ring.now) \in Members(p)
  BY DEF Caller, Members
<1>4. Callee(p, ring.now) \in Members(p)
  <2>1. \E s \in Members(p) : s # Caller(p, ring.now)
    BY <1>2 DEF Members
  <2>2. QED
    BY <2>1 DEF Callee
<1>5. Members(p) \subseteq Sims /\ clock \in Nat
  BY <1>2 DEF Members, PairingInv, RowsTyped
<1>6. QED
  BY <1>1, <1>3, <1>4, <1>5 DEF Row, CallRow, Cdr

\* A call is added to the rows, for the pair whose turn it is.
LEMMA CallMade ==
  ASSUME PairingInv, CallInv, NEW p, IsNext(p), ring.pc \in {"calling", "placed"},
         NEW status \in {"started", "failed"}, calls' = Append(calls, Row(p, status)),
         NEW used \in SUBSET Sims, NEW started \in Nat,
         ring' = Proceed([ring EXCEPT !.used = used, !.started = started], p),
         placed' = Kept, UNCHANGED <<cdrs, pairingVars>>
  PROVE  CallInv'
<1>1. p \in ring.todo /\ p \in PairIds
  BY DEF IsNext, Callable, CallInv, CallTyped
<1>2. PICK new : new = Row(p, status)
  OBVIOUS
<1>3. new \in CallRow /\ new.pair = p /\ new.at = clock /\ new.status # "completed"
  BY <1>1, <1>2, NewCall
<1>4. PICK n \in Nat : n = Len(calls)
  BY LenProperties DEF CallInv, CallTyped
<1>5. /\ calls' \in Seq(CallRow) /\ DOMAIN calls' = 1 .. n + 1 /\ calls'[n + 1] = new
      /\ DOMAIN calls = 1 .. n /\ \A i \in 1 .. n : calls'[i] = calls[i]
  BY <1>2, <1>3, <1>4 DEF CallInv, CallTyped
<1>6. \A i \in DOMAIN calls' : (i \in DOMAIN calls /\ calls'[i] = calls[i]) \/ i = n + 1
  <2>1. \A i \in 1 .. n + 1 : i \in 1 .. n \/ i = n + 1
    OBVIOUS
  <2>2. QED
    BY <1>5, <2>1
<1>7. /\ ring' \in [pc : {"idle", "listing", "calling", "placed"}, now : Nat,
                    todo : SUBSET PairIds, used : SUBSET Sims, started : Nat]
      /\ \A q \in ring'.todo : ring'.pc # "idle" => q \in ring.todo /\ q # p
      /\ ring'.pc # "placed"
  <2> DEFINE run == [ring EXCEPT !.used = used, !.started = started]
             rest == [run EXCEPT !.pc = "calling", !.todo = {q \in run.todo : q > p}]
  <2>1. ring' = NoRing \/ ring' = rest
    BY DEF Proceed
  <2>2. NoRing \in [pc : {"idle", "listing", "calling", "placed"}, now : Nat,
                    todo : SUBSET PairIds, used : SUBSET Sims, started : Nat]
        /\ NoRing.pc = "idle"
    BY DEF NoRing
  <2>3. /\ rest \in [pc : {"idle", "listing", "calling", "placed"}, now : Nat,
                     todo : SUBSET PairIds, used : SUBSET Sims, started : Nat]
        /\ rest.todo = {q \in ring.todo : q > p} /\ rest.pc = "calling"
    BY DEF CallInv, CallTyped
  <2>4. \A q \in rest.todo : q \in ring.todo /\ q # p
    <3>1. \A q \in ring.todo : q > p => q # p
      BY <1>1 DEF CallInv, CallTyped, PairIds
    <3>2. QED
      BY <2>3, <3>1
  <2> HIDE DEF rest
  <2>5. QED
    BY <2>1, <2>2, <2>3, <2>4
<1>8. UNCHANGED <<clock, pair, cdrs>>
  BY DEF pairingVars
<1>9. CallTyped'
  BY <1>5, <1>7, <1>8, KeptIs DEF CallInv, CallTyped
<1>10. CallWork'
  <2>1. SUFFICES ASSUME ring'.pc # "idle", NEW q \in ring'.todo
                 PROVE  /\ Joined(q)
                        /\ \A i \in DOMAIN calls' : calls'[i].pair = q =>
                              clock - calls'[i].at >= CallInterval
    BY <1>8 DEF CallWork, Joined
  <2>2. q \in ring.todo /\ q # p
    BY <1>7, <2>1
  <2>3. Joined(q) /\ \A i \in DOMAIN calls : calls[i].pair = q => clock - calls[i].at >= CallInterval
    BY <2>2 DEF CallInv, CallWork
  <2>4. QED
    BY <1>3, <1>5, <1>6, <2>2, <2>3
<1>11. CallCadence'
  <2>1. SUFFICES ASSUME NEW i \in DOMAIN placed, NEW j \in DOMAIN placed, i < j,
                        placed[i].pair = placed[j].pair, Kept[i].kept
                 PROVE  placed[j].at - placed[i].at >= CallInterval
    BY KeptIs DEF CallCadence
  <2>2. i # Len(placed)
    <3>1. DOMAIN placed = 1 .. Len(placed) /\ Len(placed) \in Nat
      BY DEF CallInv, CallTyped
    <3>2. QED
      BY <2>1, <3>1
  <2>3. placed[i].kept
    BY <2>1, <2>2, KeptIs
  <2>4. QED
    BY <2>1, <2>3 DEF CallInv, CallCadence
<1>12. CallRows'
  <2>1. SUFFICES ASSUME NEW i \in DOMAIN placed, Kept[i].kept
                 PROVE  \E r \in DOMAIN calls' : /\ calls'[r].pair = placed[i].pair
                                                /\ calls'[r].at >= placed[i].at
    BY <1>7, KeptIs DEF CallRows
  <2>2. CASE placed[i].kept
    <3>1. PICK r \in DOMAIN calls : calls[r].pair = placed[i].pair /\ calls[r].at >= placed[i].at
      BY <2>2 DEF CallInv, CallRows
    <3>2. r \in DOMAIN calls' /\ calls'[r] = calls[r]
      BY <1>5, <3>1
    <3>3. QED
      BY <3>1, <3>2
  <2>3. CASE i = Len(placed) /\ ring.pc = "placed"
    <3>1. IsNext(placed[i].pair) /\ placed[i].at <= clock
      BY <2>3 DEF CallInv, CallRows
    <3>2. placed[i].pair = p
      <4>1. placed[i].pair \in Callable(ring) /\ p \in Callable(ring)
            /\ p <= placed[i].pair /\ placed[i].pair <= p
        BY <3>1 DEF IsNext
      <4>2. p \in Nat /\ placed[i].pair \in Nat
        BY <1>1, <2>1, PlacedAt DEF CallInv, Placed, PairIds
      <4>3. QED
        BY <4>1, <4>2
    <3>3. n + 1 \in DOMAIN calls' /\ calls'[n + 1].pair = p /\ calls'[n + 1].at = clock
      BY <1>3, <1>5
    <3>4. clock \in Nat /\ placed[i].at \in Nat
      BY <2>1, PlacedAt DEF CallInv, PairingInv, RowsTyped
    <3>5. QED
      BY <3>1, <3>2, <3>3, <3>4
  <2>4. QED
    BY <2>1, <2>2, <2>3, KeptIs
<1>13. CompletedWasMade'
  <2>1. \A i \in DOMAIN calls' : calls'[i].status = "completed" =>
          i \in DOMAIN calls /\ calls'[i] = calls[i]
    BY <1>3, <1>5, <1>6
  <2>2. QED
    BY <1>8, <2>1 DEF CallInv, CompletedWasMade
<1>14. QED
  BY <1>9, <1>10, <1>11, <1>13, <1>12 DEF CallInv

\* A record is added, or one becomes final: what was completed stays so.
LEMMA RecordsKept ==
  ASSUME CallInv, clock' = clock, UNCHANGED <<pair, calls>>,
         ring'.todo = ring.todo, ring.pc # "idle" \/ ring'.pc = "idle",
         \A c \in DOMAIN cdrs : c \in DOMAIN cdrs' /\ (cdrs[c].verdict = "COMPLETED" => cdrs'[c] = cdrs[c])
  PROVE  CallWork' /\ CompletedWasMade'
<1>1. CallWork'
  BY DEF CallInv, CallWork, Joined
<1>2. CompletedWasMade'
  BY DEF CallInv, CompletedWasMade
<1>3. QED
  BY <1>1, <1>2

LEMMA ReconcileStep ==
  ASSUME PairingInv, CallInv, RingReconcile
  PROVE  CallInv'
<1>1. ring.pc = "listing" /\ UNCHANGED <<clock, pair, sims, cdrs, placed>>
  BY DEF RingReconcile, pairingVars
<1>2. PICK down \in SUBSET {calls[i].from : i \in Open(ring.now)} :
        \E status \in [DOMAIN calls -> {"started", "completed", "failed"}] :
          /\ \A i \in DOMAIN calls : status[i] \in Outcomes(i, ring.now, down)
          /\ calls' = [i \in DOMAIN calls |-> [calls[i] EXCEPT !.status = status[i]]]
  BY DEF RingReconcile
<1>3. PICK status \in [DOMAIN calls -> {"started", "completed", "failed"}] :
        /\ \A i \in DOMAIN calls : status[i] \in Outcomes(i, ring.now, down)
        /\ calls' = [i \in DOMAIN calls |-> [calls[i] EXCEPT !.status = status[i]]]
  BY <1>2
<1>4. PICK n \in Nat : n = Len(calls) /\ DOMAIN calls = 1 .. n
  BY LenProperties DEF CallInv, CallTyped
<1>5. \A i \in 1 .. n : /\ calls'[i] \in CallRow /\ calls'[i].status = status[i]
                        /\ calls'[i].pair = calls[i].pair /\ calls'[i].at = calls[i].at
                        /\ calls'[i].from = calls[i].from /\ calls'[i].to = calls[i].to
  <2>1. SUFFICES ASSUME NEW i \in 1 .. n
                 PROVE  /\ calls'[i] \in CallRow /\ calls'[i].status = status[i]
                        /\ calls'[i].pair = calls[i].pair /\ calls'[i].at = calls[i].at
                        /\ calls'[i].from = calls[i].from /\ calls'[i].to = calls[i].to
    OBVIOUS
  <2>2. calls[i] \in CallRow /\ status[i] \in {"started", "completed", "failed"}
    BY <1>3, <1>4, CallAt DEF CallInv
  <2>3. calls'[i] = [calls[i] EXCEPT !.status = status[i]]
    BY <1>3, <1>4
  <2>4. QED
    BY <2>2, <2>3 DEF CallRow
<1>6. calls' \in Seq(CallRow) /\ DOMAIN calls' = 1 .. n
  <2>1. DOMAIN calls' = 1 .. n /\ calls' = [i \in 1 .. n |-> calls'[i]]
    BY <1>3, <1>4
  <2>2. calls' \in [1 .. n -> CallRow]
    BY <1>5, <2>1
  <2>3. QED
    BY <2>1, <2>2
<1>7. /\ ring' \in [pc : {"idle", "listing", "calling", "placed"}, now : Nat,
                    todo : SUBSET PairIds, used : SUBSET Sims, started : Nat]
      /\ ring'.todo \subseteq ring.todo /\ ring'.pc = "calling"
  <2> DEFINE rest == {p \in ring.todo : /\ \A s \in Members(p) : IsCallable(s)
                                        /\ sims[pair[p].a].gateway # sims[pair[p].b].gateway}
  <2>1. ring' = [ring EXCEPT !.pc = "calling", !.todo = rest]
    BY DEF RingReconcile
  <2>2. rest \subseteq ring.todo
    OBVIOUS
  <2> HIDE DEF rest
  <2>3. QED
    BY <2>1, <2>2 DEF CallInv, CallTyped
<1>8. CallTyped'
  BY <1>1, <1>6, <1>7 DEF CallInv, CallTyped
<1>9. CallWork'
  <2>1. SUFFICES ASSUME NEW q \in ring'.todo
                 PROVE  /\ Joined(q)
                        /\ \A i \in DOMAIN calls' : calls'[i].pair = q =>
                              clock - calls'[i].at >= CallInterval
    BY <1>1 DEF CallWork, Joined
  <2>2. Joined(q) /\ \A i \in DOMAIN calls : calls[i].pair = q => clock - calls[i].at >= CallInterval
    BY <1>1, <1>7, <2>1 DEF CallInv, CallWork
  <2>3. QED
    BY <1>4, <1>5, <1>6, <2>2
<1>10. CallCadence' /\ CallRows'
  BY <1>1, <1>4, <1>5, <1>6, <1>7 DEF CallInv, CallCadence, CallRows
<1>11. CompletedWasMade'
  <2>1. SUFFICES ASSUME NEW i \in 1 .. n, status[i] = "completed"
                 PROVE  \/ \E v \in Views[calls[i].to] : v.state = "ABSENT"
                        \/ \E c \in DOMAIN cdrs :
                              /\ cdrs[c].verdict = "COMPLETED" /\ cdrs[c].at >= calls[i].at
                              /\ cdrs[c].from = calls[i].from /\ cdrs[c].to = calls[i].to
    BY <1>1, <1>5, <1>6 DEF CompletedWasMade
  <2>2. status[i] \in Outcomes(i, ring.now, down)
    BY <1>3, <1>4
  <2>3. CASE i \notin Open(ring.now)
    <3>1. calls[i].status = "completed"
      BY <2>1, <2>2, <2>3 DEF Outcomes
    <3>2. QED
      BY <1>4, <3>1 DEF CallInv, CompletedWasMade
  <2>4. CASE i \in Open(ring.now)
    <3>1. Matching(i, ring.now, down) # {}
      BY <2>1, <2>2, <2>4 DEF Outcomes
    <3>2. PICK c \in Nearest(i, ring.now, down) :
            status[i] = CASE cdrs[c].verdict = "COMPLETED" -> "completed"
                          [] cdrs[c].verdict = "FAILED"    -> "failed"
                          [] OTHER                         -> "started"
      BY <2>2, <2>4, <3>1 DEF Outcomes
    <3>3. c \in Matching(i, ring.now, down)
      BY DEF Nearest
    <3>4. c \in DOMAIN cdrs /\ cdrs[c].from = calls[i].from /\ cdrs[c].at >= calls[i].at
          /\ (sims[calls[i].to].state # "ABSENT" => cdrs[c].to = calls[i].to)
      BY <3>3 DEF Matching, Listed
    <3>5. cdrs[c].verdict = "COMPLETED"
      <4>1. cdrs[c].verdict \in {"open", "COMPLETED", "FAILED"}
        <5>1. cdrs[c] \in Cdr
          BY <3>4 DEF CallInv, CallTyped
        <5>2. QED
          BY <5>1 DEF Cdr
      <4>2. QED
        BY <2>1, <3>2, <4>1
    <3>6. CASE sims[calls[i].to].state = "ABSENT"
      <4>1. sims[calls[i].to] \in Views[calls[i].to]
        BY <1>4, CallAt DEF CallInv, PairingInv, Inventory
      <4>2. QED
        BY <3>6, <4>1
    <3>7. QED
      BY <3>4, <3>5, <3>6
  <2>5. QED
    BY <2>3, <2>4
<1>12. QED
  BY <1>8, <1>9, <1>10, <1>11 DEF CallInv

LEMMA CallStep ==
  ASSUME PairingInv, CallInv, CallNext
  PROVE  CallInv'
<1>1. CASE RingStart
  <2> DEFINE due == {p \in Active : Recent(p, clock) = {}}
  <2>1. ring' = [pc |-> "listing", now |-> clock, todo |-> due, used |-> {}, started |-> 0]
        /\ UNCHANGED <<clock, pair, calls, cdrs, placed>>
    BY <1>1 DEF RingStart, NoRing, pairingVars
  <2>2. due \subseteq PairIds /\ \A p \in due : Joined(p) /\ Recent(p, clock) = {}
    BY DEF Active, Joined
  <2> HIDE DEF due
  <2>3. CallTyped'
    BY <2>1, <2>2 DEF CallInv, CallTyped, PairingInv, RowsTyped
  <2>4. ASSUME NEW p \in due, NEW i \in DOMAIN calls, calls[i].pair = p
        PROVE  clock - calls[i].at >= CallInterval
    <3>1. ~(clock - calls[i].at < CallInterval)
      BY <2>2, <2>4 DEF Recent
    <3>2. calls[i].at \in Nat /\ clock \in Nat /\ CallInterval \in Nat
      BY <2>4, CallAt, CallAssumption DEF CallInv, PairingInv, RowsTyped
    <3>3. QED
      BY <3>1, <3>2
  <2>5. CallWork'
    BY <2>1, <2>2, <2>4 DEF CallWork, Joined
  <2>6. QED
    BY <2>1, <2>3, <2>5 DEF CallInv, CallRows, CallCadence, CompletedWasMade
<1>2. CASE RingStop
  <2>1. ring' = NoRing /\ UNCHANGED <<clock, pair, calls, cdrs, placed>>
    BY <1>2 DEF RingStop, pairingVars
  <2>2. QED
    BY <2>1 DEF CallInv, CallTyped, CallWork, CallRows, CallCadence, CompletedWasMade, NoRing
<1>3. ASSUME NEW p \in PairIds, RingOriginate(p) PROVE CallInv'
  <2>1. /\ ring.pc = "calling" /\ IsNext(p) /\ p \in ring.todo
        /\ ring' = [ring EXCEPT !.pc = "placed"]
        /\ placed' = Append(placed, [pair |-> p, at |-> clock, kept |-> FALSE])
        /\ UNCHANGED <<clock, pair, calls>>
    BY <1>3 DEF RingOriginate, IsNext, Callable, pairingVars
  <2>2. PICK new \in Cdr : cdrs' = cdrs \/ cdrs' = Append(cdrs, new)
    <3>1. PICK new : new = [from |-> Caller(p, ring.now), to |-> Callee(p, ring.now),
                            at |-> clock, verdict |-> "open"]
      OBVIOUS
    <3>2. new \in Cdr
      BY <2>1, <3>1, NewCall
    <3>3. cdrs' = cdrs \/ cdrs' = Append(cdrs, new)
      BY <1>3, <3>1 DEF RingOriginate
    <3>4. QED
      BY <3>2, <3>3
  <2>3. cdrs' \in Seq(Cdr) /\ \A c \in DOMAIN cdrs : c \in DOMAIN cdrs' /\ cdrs'[c] = cdrs[c]
    <3>1. cdrs \in Seq(Cdr)
      BY DEF CallInv, CallTyped
    <3>2. CASE cdrs' = cdrs
      BY <3>1, <3>2
    <3>3. CASE cdrs' = Append(cdrs, new)
      BY <3>1, <3>3, AppendProperties
    <3>4. QED
      BY <2>2, <3>2, <3>3
  <2>4. PICK call \in Placed :
          /\ call.pair = p /\ call.at = clock /\ ~call.kept /\ placed' = Append(placed, call)
    <3>1. [pair |-> p, at |-> clock, kept |-> FALSE] \in Placed
      BY <1>3 DEF Placed, PairingInv, RowsTyped
    <3>2. QED
      BY <2>1, <3>1
  <2>5. PICK n \in Nat : /\ n = Len(placed) /\ DOMAIN placed = 1 .. n
                         /\ DOMAIN placed' = 1 .. n + 1 /\ Len(placed') = n + 1
                         /\ placed' \in Seq(Placed) /\ placed'[n + 1] = call
                         /\ \A i \in 1 .. n : placed'[i] = placed[i]
    BY <2>4, AppendProperties, LenProperties DEF CallInv, CallTyped
  <2>6. \A i \in DOMAIN placed' : i = n + 1 \/ (i \in DOMAIN placed /\ placed'[i] = placed[i])
    <3>1. \A i \in 1 .. n + 1 : i = n + 1 \/ i \in 1 .. n
      OBVIOUS
    <3>2. QED
      BY <2>5, <3>1
  <2>7. CallTyped' /\ ring'.todo = ring.todo /\ ring'.pc = "placed" /\ ring.pc # "idle"
    BY <2>1, <2>3, <2>5 DEF CallInv, CallTyped
  <2>8. CallRows'
    <3>1. IsNext(p)'
      <4>1. Callable(ring)' = Callable(ring)
        BY <2>1 DEF Callable, Members, CallInv, CallTyped
      <4>2. QED
        BY <2>1, <4>1 DEF IsNext
    <3>2. placed'[Len(placed')].pair = p /\ placed'[Len(placed')].at = clock /\ placed' # <<>>
      BY <2>4, <2>5
    <3>3. \A i \in DOMAIN placed' : placed'[i].kept => i \in DOMAIN placed /\ placed'[i] = placed[i]
      BY <2>4, <2>5, <2>6
    <3>4. clock' <= clock' /\ clock' = clock
      BY <2>1 DEF PairingInv, RowsTyped
    <3>5. QED
      BY <2>1, <3>1, <3>2, <3>3, <3>4 DEF CallInv, CallRows
  <2>9. CallCadence'
    <3>1. SUFFICES ASSUME NEW i \in DOMAIN placed', NEW j \in DOMAIN placed', i < j,
                          placed'[i].pair = placed'[j].pair, placed'[i].kept
                   PROVE  placed'[j].at - placed'[i].at >= CallInterval
      BY DEF CallCadence
    <3>2. i \in DOMAIN placed /\ placed'[i] = placed[i]
      BY <2>4, <2>5, <2>6, <3>1
    <3>3. CASE j \in DOMAIN placed /\ placed'[j] = placed[j]
      BY <3>1, <3>2, <3>3 DEF CallInv, CallCadence
    <3>4. CASE j = n + 1
      <4>1. PICK r \in DOMAIN calls : calls[r].pair = p /\ calls[r].at >= placed[i].at
        BY <2>4, <2>5, <3>1, <3>2, <3>4 DEF CallInv, CallRows
      <4>2. clock - calls[r].at >= CallInterval
        BY <2>1, <4>1 DEF CallInv, CallWork
      <4>3. clock \in Nat /\ calls[r].at \in Nat /\ placed[i].at \in Nat /\ CallInterval \in Nat
        BY <3>2, <4>1, CallAt, PlacedAt, CallAssumption DEF CallInv, PairingInv, RowsTyped
      <4>4. placed'[j].at = clock
        BY <2>4, <2>5, <3>4
      <4>5. QED
        BY <3>2, <4>1, <4>2, <4>3, <4>4
    <3>5. QED
      BY <2>6, <3>3, <3>4
  <2>10. CallWork' /\ CompletedWasMade'
    BY <2>1, <2>3, <2>7, RecordsKept
  <2>11. QED
    BY <2>7, <2>8, <2>9, <2>10 DEF CallInv
<1>4. ASSUME NEW p \in PairIds, RingRecord(p) PROVE CallInv'
  <2> DEFINE used == ring.used \cup Members(p)
             started == ring.started + 1
  <2>1. IsNext(p) /\ ring.pc = "placed" /\ p \in ring.todo /\ Joined(p)
    BY <1>4 DEF RingRecord, IsNext, Callable, CallInv, CallWork
  <2>2. used \in SUBSET Sims /\ started \in Nat
    BY <1>4, <2>1 DEF CallInv, CallTyped, PairingInv, RowsWell, Members
  <2>3. ring' = Proceed([ring EXCEPT !.used = used, !.started = started], p)
        /\ calls' = Append(calls, Row(p, "started")) /\ placed' = Kept
        /\ UNCHANGED <<cdrs, pairingVars>>
    BY <1>4 DEF RingRecord
  <2> HIDE DEF used, started
  <2>4. QED
    BY <2>1, <2>2, <2>3, CallMade
<1>5. ASSUME NEW p \in PairIds, RingFail(p) PROVE CallInv'
  <2>1. /\ IsNext(p) /\ ring.pc \in {"calling", "placed"}
        /\ ring' = Proceed(ring, p)
        /\ calls' = Append(calls, Row(p, "failed")) /\ placed' = Kept
        /\ UNCHANGED <<cdrs, pairingVars>>
    BY <1>5 DEF RingFail
  <2>2. /\ ring = [ring EXCEPT !.used = ring.used, !.started = ring.started]
        /\ ring.used \in SUBSET Sims /\ ring.started \in Nat
    BY DEF CallInv, CallTyped
  <2>3. ring' = Proceed([ring EXCEPT !.used = ring.used, !.started = ring.started], p)
    BY <2>1, <2>2
  <2>4. QED
    BY <2>1, <2>2, <2>3, CallMade
<1>6. ASSUME NEW c \in DOMAIN cdrs, Finalize(c) PROVE CallInv'
  <2>1. PICK v \in {"COMPLETED", "FAILED"} : cdrs' = [cdrs EXCEPT ![c].verdict = v]
    BY <1>6 DEF Finalize
  <2>2. cdrs[c].verdict = "open" /\ UNCHANGED <<clock, pair, calls, ring, placed>>
    BY <1>6 DEF Finalize, pairingVars
  <2>3. cdrs' \in Seq(Cdr)
    <3>1. PICK n \in Nat : DOMAIN cdrs = 1 .. n /\ cdrs \in [1 .. n -> Cdr]
      BY LenProperties DEF CallInv, CallTyped
    <3>2. [cdrs[c] EXCEPT !.verdict = v] \in Cdr
      BY <1>6, <3>1 DEF Cdr
    <3>3. cdrs' \in [1 .. n -> Cdr]
      BY <2>1, <3>1, <3>2
    <3>4. QED
      BY <3>3
  <2>4. \A d \in DOMAIN cdrs : d \in DOMAIN cdrs' /\ (cdrs[d].verdict = "COMPLETED" => cdrs'[d] = cdrs[d])
    BY <2>1, <2>2
  <2>5. CallTyped'
    BY <2>2, <2>3 DEF CallInv, CallTyped
  <2>6. CallRows' /\ CallCadence'
    BY <2>2 DEF CallInv, CallRows, CallCadence, IsNext, Callable, Members
  <2>7. CallWork' /\ CompletedWasMade'
    BY <2>2, <2>4, RecordsKept
  <2>8. QED
    BY <2>5, <2>6, <2>7 DEF CallInv
<1>7. QED
  BY <1>1, <1>2, <1>3, <1>4, <1>5, <1>6, ReconcileStep DEF CallNext

-----------------------------------------------------------------------------
(* The invariant. *)

FleetInv == PairingInv /\ TalkInv /\ CallInv

LEMMA InitFleet == Init => FleetInv
BY InitPairing, InitTalk, InitCall DEF Init, FleetInv

\* What a run of messages leaves to the calls.
LEMMA TalkLeaves ==
  ASSUME PairingInv, TalkInv, TalkNext
  PROVE  clock' = clock /\ \A p \in PairIds : Joined(p) => Joined(p)' /\ Members(p)' = Members(p)
<1>1. CASE TalkRecord
  <2>1. PICK p : p = Head(talk.todo).pair
    OBVIOUS
  <2>2. pair' = [pair EXCEPT ![p] = [pair[p] EXCEPT !.sent = @ + 1]] /\ clock' = clock
    BY <1>1, <2>1 DEF TalkRecord
  <2>3. \A q \in PairIds : pair[q] \in PairRow
    BY DEF PairingInv, RowsTyped
  <2>4. \A q \in PairIds : /\ pair'[q].status = pair[q].status
                           /\ pair'[q].a = pair[q].a /\ pair'[q].b = pair[q].b
    BY <2>2, <2>3 DEF PairRow, PairingInv, RowsTyped
  <2>5. QED
    BY <2>2, <2>4 DEF Joined, Members
<1>2. CASE ~TalkRecord
  <2>1. UNCHANGED <<clock, pair>>
    BY <1>2 DEF TalkNext, TalkStart, TalkEnqueue, TalkChoose, TalkSend, TalkFail, TalkStop,
                pairingVars
  <2>2. QED
    BY <2>1 DEF Joined, Members
<1>3. QED
  BY <1>1, <1>2

\* Beside a run of messages, steps that leave the pairs alone.
LEMMA TalkStill ==
  ASSUME PairingInv, TalkInv, UNCHANGED <<clock, sims, pair, queue, msgs, sync, talk>>
  PROVE  PairingInv' /\ TalkInv'
<1>1. RowsTyped' /\ RowsWell' /\ Numbered' /\ Grown
  BY SameRows DEF PairingInv, RowsTyped
<1>2. PairingInv'
  BY <1>1 DEF PairingInv, Inventory, SyncWork
<1>3. \A p \in talk.pairs : talk.pc # "idle" => pair'[p].status # "purged"
  BY DEF TalkInv, TalkWork, Joined
<1>4. QED
  BY <1>1, <1>2, <1>3, TalkBeside

LEMMA StepFleet == FleetInv /\ [Next]_fleetVars => FleetInv'
<1> SUFFICES ASSUME FleetInv, [Next]_fleetVars PROVE FleetInv'
  OBVIOUS
<1> USE DEF FleetInv
<1>1. CASE PairingNext /\ PurgeSparesRuns /\ UNCHANGED <<talk, callVars, config>>
  <2>1. PairingInv' /\ Grown
    BY <1>1, PairingStep
  <2>2. TalkInv'
    BY <1>1, <2>1, TalkBeside DEF PurgeSparesRuns
  <2>3. \A p \in ring.todo : Joined(p) => Joined(p)' /\ Members(p)' = Members(p)
    BY <1>1, <2>1 DEF PurgeSparesRuns, Grown, Joined, Members, CallInv, CallTyped
  <2>4. CallInv'
    BY <1>1, <2>1, <2>3, CallBeside DEF Grown
  <2>5. QED
    BY <2>1, <2>2, <2>4
<1>2. CASE TalkNext /\ UNCHANGED <<callVars, config>>
  <2>1. PairingInv' /\ TalkInv'
    BY <1>2, TalkStep
  <2>2. clock' = clock /\ \A p \in PairIds : Joined(p) => Joined(p)' /\ Members(p)' = Members(p)
    BY <1>2, TalkLeaves
  <2>3. clock <= clock' /\ \A p \in ring.todo : Joined(p) => Joined(p)' /\ Members(p)' = Members(p)
    BY <2>2 DEF CallInv, CallTyped, PairingInv, RowsTyped
  <2>4. QED
    BY <1>2, <2>1, <2>3, CallBeside
<1>3. CASE CallNext /\ UNCHANGED <<talk, config>>
  <2>1. UNCHANGED pairingVars
    BY <1>3 DEF CallNext, RingStart, RingReconcile, RingStop, RingOriginate, RingRecord,
                RingFail, Finalize
  <2>2. UNCHANGED <<clock, sims, pair, queue, msgs, sync, talk>>
    BY <1>3, <2>1 DEF pairingVars
  <2>3. PairingInv' /\ TalkInv'
    BY <2>2, TalkStill
  <2>4. QED
    BY <1>3, <2>3, CallStep
<1>4. CASE UNCHANGED fleetVars
  <2>1. UNCHANGED <<clock, sims, pair, queue, msgs, sync, talk>> /\ UNCHANGED callVars
    BY <1>4 DEF fleetVars, pairingVars
  <2>2. PairingInv' /\ TalkInv'
    BY <2>1, TalkStill
  <2>3. clock <= clock' /\ \A p \in ring.todo : Joined(p) => Joined(p)' /\ Members(p)' = Members(p)
    BY <2>1 DEF PairingInv, RowsTyped, Joined, Members
  <2>4. QED
    BY <2>1, <2>2, <2>3, CallBeside
<1>5. QED
  BY <1>1, <1>2, <1>3, <1>4 DEF Next

LEMMA FleetInvariant == Spec => []FleetInv
<1>1. QED
  BY InitFleet, StepFleet, PTL DEF Spec

-----------------------------------------------------------------------------
(* What the fleet keeps, whatever the runs, syncs and losses of the process. *)

\* _enqueue_pairs never leaves a pair with two pending rows: what it reads and the
\* rows it adds are of one run, and no sync makes a row pending again.
THEOREM OnePending == Spec => []OnePendingPerPair
<1>1. FleetInv => OnePendingPerPair
  BY DEF FleetInv, TalkInv
<1>2. QED
  BY <1>1, FleetInvariant, PTL

\* _next_direction makes the two SIMs of every pair speak in turn: the items of a run
\* are of different pairs, so none is chosen from a last message that is outdated.
THEOREM TakeTurns == Spec => []Alternates
<1>1. FleetInv => Alternates
  BY DEF FleetInv, TalkInv
<1>2. QED
  BY <1>1, FleetInvariant, PTL

\* The cooldown that _select_batch checks holds of the messages that are recorded
\* later: the items of a batch share no SIM, and no other run records any.
THEOREM MessagesApart == Spec => []PairCooldownKept
<1>1. FleetInv => PairCooldownKept
  BY DEF FleetInv, TalkInv
<1>2. QED
  BY <1>1, FleetInvariant, PTL

\* A row queued by a run whose pair a sync archives meanwhile is never sent.
THEOREM OnlyPairsOfTheRun == Spec => []NoTextForArchived
<1>1. FleetInv => NoTextForArchived
  <2>1. SUFFICES ASSUME FleetInv, talk.pc = "sending"
                 PROVE  Head(talk.todo).pair \in talk.pairs
    BY DEF NoTextForArchived
  <2>2. Fit(Head(talk.todo))
    BY <2>1, FirstItem DEF FleetInv
  <2>3. QED
    BY <2>2 DEF Fit
<1>2. QED
  BY <1>1, FleetInvariant, PTL

\* shift_out_of_quiet moves what is queued in quiet hours past their first end, by at most
\* the spread, and into quiet hours again only if the fleet is awake for no longer than
\* that: for every length of the day, spread and window, across midnight or not.
THEOREM WakesAtTheEnd == Spec => []WakesWhenTheyEnd
<1>1. FleetInv => WakesWhenTheyEnd
  <2>1. SUFFICES ASSUME FleetInv, NEW w \in Window, IsQuiet(clock, w),
                        NEW t \in ShiftOutOfQuiet(clock, w)
                 PROVE  /\ \E u \in t - WakeSpread .. t :
                             /\ clock < u /\ ~IsQuiet(u, w)
                             /\ \A v \in clock .. u - 1 : IsQuiet(v, w)
                        /\ IsQuiet(t, w) => AwakeLength(w) <= WakeSpread
    BY DEF WakesWhenTheyEnd
  <2>2. PICK u, awake : u = Wake(clock, w) /\ awake = AwakeLength(w)
    OBVIOUS
  <2>3. clock \in Int
    BY <2>1 DEF FleetInv, PairingInv, RowsTyped
  <2>4. /\ u \in Int /\ clock < u /\ awake \in Nat \ {0}
        /\ \A v \in clock .. u - 1 : IsQuiet(v, w)
        /\ \A v \in u .. u + awake - 1 : ~IsQuiet(v, w)
    BY <2>1, <2>2, <2>3, WakeAtEnd
  <2>5. PICK d \in 0 .. WakeSpread : t = u + d
    BY <2>1, <2>2 DEF ShiftOutOfQuiet
  <2>6. u \in u .. u + awake - 1 /\ u \in t - WakeSpread .. t /\ WakeSpread \in Nat
    BY <2>4, <2>5, QuietAssumption
  <2>7. ASSUME d < awake PROVE ~IsQuiet(t, w)
    <3>1. t \in u .. u + awake - 1
      BY <2>4, <2>5, <2>6, <2>7
    <3>2. QED
      BY <2>4, <3>1
  <2>8. IsQuiet(t, w) => awake <= WakeSpread
    BY <2>4, <2>5, <2>6, <2>7
  <2>9. QED
    BY <2>2, <2>4, <2>6, <2>8
<1>2. QED
  BY <1>1, FleetInvariant, PTL

\* run_due has TmLite place no call of a pair within the interval after one whose
\* commit was reached, whatever became of that call, of the runs after it and of the
\* rows of other pairs.  Only a run cut short before its commit leaves nothing behind.
THEOREM CallsApart == Spec => []CallCadence
<1>1. FleetInv => CallCadence
  BY DEF FleetInv, CallInv
<1>2. QED
  BY <1>1, FleetInvariant, PTL

\* _reconcile_started_calls says "completed" only of a call that TmLite completed, if
\* the SIM that was called is always listed with its number.
THEOREM CompletedCallsWereMade == Spec => []CompletedWasMade
<1>1. FleetInv => CompletedWasMade
  BY DEF FleetInv, CallInv
<1>2. QED
  BY <1>1, FleetInvariant, PTL

=============================================================================
