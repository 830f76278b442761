---------------------------- MODULE SimSyncProofs ----------------------------
(***************************************************************************)
(* Theorems of SimPairing in the fleet: what sync() makes of the inventory,  *)
(* for every inventory, limit of pairs and number of rows, however many      *)
(* callers sync and however their syncs overlap.                             *)
(***************************************************************************)
EXTENDS SimFleetProofs

-----------------------------------------------------------------------------
(* The load of a SIM. *)

\* The condition of the loop on a couple.
Fits(x, kept, made) ==
  LET earlier == {y \in made : Before(y, x)}
  IN /\ Load(x[1], kept, earlier) < PairLimit
     /\ Load(x[2], kept, earlier) < PairLimit
     /\ \A p \in kept : Members(p) # {x[1], x[2]}

\* The pairs of a SIM, and its couples.
In(s, kept) == {p \in kept : s \in Members(p)}
Of(s, made) == {x \in made : s \in {x[1], x[2]}}

LEMMA LoadSets ==
  ASSUME NEW s, NEW kept \in SUBSET PairIds, NEW made \in SUBSET Ordered
  PROVE  /\ IsFiniteSet(In(s, kept)) /\ IsFiniteSet(Of(s, made))
         /\ Cardinality(In(s, kept)) \in Nat /\ Cardinality(Of(s, made)) \in Nat
         /\ Load(s, kept, made) = Cardinality(In(s, kept)) + Cardinality(Of(s, made))
<1>1. IsFiniteSet(PairIds)
  BY PairingAssumption, FS_Interval DEF PairIds
<1>2. IsFiniteSet(In(s, kept))
  BY <1>1, FS_Subset DEF In
<1>3. IsFiniteSet(Of(s, made))
  BY BeforeOrders, FS_Subset DEF Of
<1>4. QED
  BY <1>2, <1>3, FS_CardinalityType DEF Load, In, Of

\* More pairs are more load.
LEMMA LoadGrows ==
  ASSUME NEW s, NEW kept \in SUBSET PairIds, NEW made \in SUBSET Ordered, NEW some \in SUBSET made
  PROVE  /\ Load(s, kept, some) \in Nat /\ Load(s, kept, made) \in Nat
         /\ Load(s, kept, some) <= Load(s, kept, made)
<1>1. Of(s, some) \in SUBSET Of(s, made) /\ some \in SUBSET Ordered
  BY DEF Of
<1>2. Cardinality(Of(s, some)) <= Cardinality(Of(s, made))
  BY <1>1, LoadSets, FS_Subset
<1>3. /\ Load(s, kept, some) = Cardinality(In(s, kept)) + Cardinality(Of(s, some))
      /\ Load(s, kept, made) = Cardinality(In(s, kept)) + Cardinality(Of(s, made))
      /\ {Cardinality(In(s, kept)), Cardinality(Of(s, some)), Cardinality(Of(s, made))} \subseteq Nat
  BY <1>1, LoadSets
<1>4. QED
  BY <1>2, <1>3

\* The last pair made of a SIM was made when all its others were counted.
LEMMA LoadLast ==
  ASSUME NEW s, NEW kept \in SUBSET PairIds, NEW made \in SUBSET Ordered, Of(s, made) # {}
  PROVE  \E x \in Of(s, made) :
           Load(s, kept, made) = Load(s, kept, {y \in made : Before(y, x)}) + 1
<1> DEFINE M == Of(s, made)
           D == [x \in M |-> {y \in M : y = x \/ Before(y, x)}]
<1>1. M \in SUBSET Ordered
  BY DEF Of
<1>2. IsFiniteSet(M) /\ Cardinality(M) \in Nat /\ Orders(M, D)
  BY <1>1, BeforeOrders
<1>3. Cardinality(M) # 0
  BY <1>2, FS_EmptySet
<1>4. PICK x \in M : Cardinality(D[x]) = Cardinality(M)
  <2> HIDE DEF M, D
  <2>1. Cardinality(M) \in 1 .. Cardinality(M)
    BY <1>2, <1>3
  <2>2. QED
    BY <1>2, <2>1, RankOnto
<1>5. D[x] = M
  <2>1. D[x] \in SUBSET M
    OBVIOUS
  <2>2. QED
    BY <1>2, <1>4, <2>1, FS_Subset
<1> DEFINE earlier == {y \in made : Before(y, x)}
<1>6. ~Before(x, x)
  <2>1. x \in Sims \X Sims /\ \A t \in Sims : t \in Nat
    BY <1>1, PairingAssumption DEF Ordered
  <2>2. x[1] \in Nat /\ x[2] \in Nat
    BY <2>1
  <2>3. QED
    BY <2>2 DEF Before
<1>7. Of(s, earlier) = M \ {x}
  <2>1. \A y \in M : y = x \/ Before(y, x)
    BY <1>5
  <2>2. QED
    BY <1>6, <2>1 DEF Of
<1>8. earlier \in SUBSET Ordered
  OBVIOUS
<1>9. Cardinality(M \ {x}) = Cardinality(M) - 1
  BY <1>2, FS_RemoveElement
<1>10. /\ Load(s, kept, made) = Cardinality(In(s, kept)) + Cardinality(M)
       /\ Load(s, kept, earlier) = Cardinality(In(s, kept)) + Cardinality(M \ {x})
       /\ Cardinality(In(s, kept)) \in Nat
  <2>1. Load(s, kept, earlier) = Cardinality(In(s, kept)) + Cardinality(Of(s, earlier))
    BY <1>8, LoadSets
  <2>2. QED
    BY <1>7, <2>1, LoadSets
<1>11. Load(s, kept, made) = Load(s, kept, earlier) + 1
  <2> HIDE DEF M, earlier
  <2>1. QED
    BY <1>2, <1>9, <1>10
<1>12. QED
  BY <1>11

\* A limit that holds of the surviving pairs holds with those that the loop makes.
LEMMA LoadBound ==
  ASSUME NEW s, NEW kept \in SUBSET PairIds, NEW made \in SUBSET Ordered,
         \A x \in made : Fits(x, kept, made), Cardinality(In(s, kept)) <= PairLimit
  PROVE  Load(s, kept, made) <= PairLimit
<1>1. CASE Of(s, made) = {}
  <2>1. Cardinality(Of(s, made)) = 0
    BY <1>1, FS_EmptySet
  <2>2. QED
    BY <2>1, LoadSets
<1>2. CASE Of(s, made) # {}
  <2>1. PICK x \in Of(s, made) : Load(s, kept, made) = Load(s, kept, {y \in made : Before(y, x)}) + 1
    BY <1>2, LoadLast
  <2>2. x \in made /\ (s = x[1] \/ s = x[2])
    BY DEF Of
  <2>3. Load(s, kept, {y \in made : Before(y, x)}) < PairLimit
    BY <2>2 DEF Fits
  <2>4. Load(s, kept, {y \in made : Before(y, x)}) \in Nat
    <3>1. {y \in made : Before(y, x)} \in SUBSET made
      OBVIOUS
    <3>2. QED
      BY <3>1, LoadGrows
  <2>5. QED
    BY <2>1, <2>3, <2>4, PairingAssumption
<1>3. QED
  BY <1>1, <1>2

\* A couple for which there is room has it beside fewer pairs.
LEMMA FitsFewer ==
  ASSUME NEW kept \in SUBSET PairIds, NEW some \in SUBSET kept, NEW made \in SUBSET Ordered,
         NEW x \in made, Fits(x, kept, made)
  PROVE  Fits(x, some, made)
<1> DEFINE earlier == {y \in made : Before(y, x)}
<1>1. earlier \in SUBSET Ordered /\ some \in SUBSET PairIds
  OBVIOUS
<1>2. ASSUME NEW s, Load(s, kept, earlier) < PairLimit PROVE Load(s, some, earlier) < PairLimit
  <2> HIDE DEF earlier
  <2>1. /\ IsFiniteSet(In(s, kept)) /\ Cardinality(In(s, kept)) \in Nat
        /\ Cardinality(In(s, some)) \in Nat /\ Cardinality(Of(s, earlier)) \in Nat
        /\ Load(s, kept, earlier) = Cardinality(In(s, kept)) + Cardinality(Of(s, earlier))
        /\ Load(s, some, earlier) = Cardinality(In(s, some)) + Cardinality(Of(s, earlier))
    BY <1>1, LoadSets
  <2>2. In(s, some) \in SUBSET In(s, kept)
    BY DEF In
  <2>3. Cardinality(In(s, some)) <= Cardinality(In(s, kept))
    BY <2>1, <2>2, FS_Subset
  <2>4. QED
    BY <1>2, <2>1, <2>3, PairingAssumption
<1>3. QED
  BY <1>2 DEF Fits

-----------------------------------------------------------------------------
(* The invariant.                                                           *)

Drops(seen) == {p \in Active : ~Survives(seen, p)}

\* What makes nothing of a couple.
Blocked(x, kept) ==
  \/ Load(x[1], kept, {}) >= PairLimit \/ Load(x[2], kept, {}) >= PairLimit
  \/ \E p \in kept : Members(p) = {x[1], x[2]}

\* What the last sync has left: no pair to archive and no couple to make a pair.
Rests(seen, kept) ==
  seen \in [Sims -> SimView] =>
    /\ \A p \in kept : Survives(seen, p)
    /\ \A x \in Couples(seen) : Blocked(x, kept)

\* The pairs but for those made in ignorance of others.
Sound(kept, over) ==
  /\ \A p, q \in kept : Members(p) = Members(q) => p = q \/ {p, q} \cap over # {}
  /\ \A s \in Sims : Cardinality(In(s, kept \ over)) <= PairLimit

\* What a sync has read is still so when it commits, if no other has committed since.
Follows(me, kept, was) ==
  me.pc = "writing" =>
    /\ me.seen \in [Sims -> SimView] /\ me.was \in [Sims -> Int]
    /\ me.fresh => /\ me.was = was
                   /\ me.drop = {p \in kept : ~Survives(me.seen, p)}
                   /\ me.make = {x \in Couples(me.seen) : Fits(x, kept \ me.drop, me.make)}

SyncInv ==
  /\ names \in [Sims -> Int]
  /\ \A p \in late : p \in PairIds /\ pair[p].status # "none"
  /\ Sound(Active, late)
  /\ Rests(synced, Active)
  /\ \A h \in Syncs : Follows(sync[h], Active, names)

\* The active pairs are the same, and no row is new.
SamePairs ==
  /\ Active' = Active
  /\ \A p \in Active : pair'[p].a = pair[p].a /\ pair'[p].b = pair[p].b
  /\ \A p \in PairIds : pair[p].status # "none" => pair'[p].status # "none"

LEMMA SameView == \A seen : Couples(seen)' = Couples(seen) /\ KeptAlive(seen)' = KeptAlive(seen)
BY DEF Couples, Creatable, KeptAlive, Pairable, Country

LEMMA SameLoad ==
  ASSUME SamePairs, NEW kept \in SUBSET Active
  PROVE  /\ \A s : In(s, kept)' = In(s, kept)
         /\ \A s, made : Load(s, kept, made)' = Load(s, kept, made)
         /\ \A seen : \A p \in kept : Members(p)' = Members(p) /\ (Survives(seen, p)' <=> Survives(seen, p))
<1>1. \A p \in kept : Members(p)' = Members(p)
  BY DEF SamePairs, Members
<1>2. \A s : {p \in kept : s \in Members(p)}' = {p \in kept : s \in Members(p)}
  BY <1>1
<1>3. \A s, made : Load(s, kept, made)' = Load(s, kept, made)
  BY <1>2 DEF Load
<1>4. \A seen : \A p \in kept : Survives(seen, p)' <=> Survives(seen, p)
  BY <1>1, SameView DEF Survives, SamePairs, Country
<1>5. QED
  BY <1>1, <1>2, <1>3, <1>4 DEF In

LEMMA SameCounts ==
  ASSUME SamePairs, NEW kept \in SUBSET Active
  PROVE  /\ \A over : Sound(kept, over)' <=> Sound(kept, over)
         /\ \A seen : Rests(seen, kept)' <=> Rests(seen, kept)
         /\ \A me, was : Follows(me, kept, was)' <=> Follows(me, kept, was)
<1>1. \A p \in kept : Members(p)' = Members(p)
  BY SameLoad
<1>2. ASSUME NEW over PROVE Sound(kept, over)' <=> Sound(kept, over)
  <2>1. PICK some \in SUBSET Active : some = kept \ over
    OBVIOUS
  <2>2. \A s : In(s, some)' = In(s, some)
    BY SameLoad
  <2>3. QED
    BY <1>1, <2>1, <2>2 DEF Sound
<1>3. ASSUME NEW seen PROVE Rests(seen, kept)' <=> Rests(seen, kept)
  <2>1. \A x : Blocked(x, kept)' <=> Blocked(x, kept)
    BY <1>1, SameLoad DEF Blocked
  <2>2. QED
    BY <2>1, SameLoad, SameView DEF Rests
<1>4. ASSUME NEW me, NEW was PROVE Follows(me, kept, was)' <=> Follows(me, kept, was)
  <2>1. {p \in kept : ~Survives(me.seen, p)}' = {p \in kept : ~Survives(me.seen, p)}
    BY SameLoad
  <2>2. \A x : Fits(x, kept \ me.drop, me.make)' <=> Fits(x, kept \ me.drop, me.make)
    <3>1. PICK left \in SUBSET Active : left = kept \ me.drop
      OBVIOUS
    <3>2. \A x : Fits(x, left, me.make)' <=> Fits(x, left, me.make)
      BY <3>1, SameLoad DEF Fits
    <3>3. QED
      BY <3>1, <3>2
  <2>3. {x \in Couples(me.seen) : Fits(x, kept \ me.drop, me.make)}'
        = {x \in Couples(me.seen) : Fits(x, kept \ me.drop, me.make)}
    BY <2>2, SameView
  <2>4. QED
    BY <2>1, <2>3 DEF Follows
<1>5. QED
  BY <1>2, <1>3, <1>4

\* A step that leaves the active pairs and the names alone, and starts no sync.
LEMMA SameSync ==
  ASSUME SyncInv, SamePairs, UNCHANGED <<names, synced, late>>,
         \A h \in Syncs : sync'[h] = sync[h] \/ sync'[h].pc # "writing"
  PROVE  SyncInv'
<1>1. PICK kept, last, was, over : kept = Active /\ last = synced /\ was = names /\ over = late
  OBVIOUS
<1>2. Active' = kept /\ synced' = last /\ names' = was /\ late' = over
  BY <1>1 DEF SamePairs
<1>3. Sound(kept, over)' /\ Rests(last, kept)'
  BY <1>1, SameCounts DEF SyncInv
<1>4. ASSUME NEW h \in Syncs PROVE Follows(sync[h], Active, names)'
  <2>1. CASE sync'[h].pc # "writing"
    BY <2>1 DEF Follows
  <2>2. CASE sync'[h] = sync[h]
    <3>1. PICK me : me = sync[h]
      OBVIOUS
    <3>2. Follows(me, kept, was)'
      BY <1>1, <3>1, SameCounts DEF SyncInv
    <3>3. QED
      BY <1>2, <2>2, <3>1, <3>2
  <2>3. QED
    BY <2>1, <2>2
<1>5. \A p \in late' : p \in PairIds /\ pair'[p].status # "none"
  BY DEF SyncInv, SamePairs
<1>6. QED
  BY <1>1, <1>2, <1>3, <1>4, <1>5 DEF SyncInv

-----------------------------------------------------------------------------
(* The pairs that a commit adds. *)

LEMMA ImageCount ==
  ASSUME NEW S, IsFiniteSet(S), NEW f
  PROVE  /\ IsFiniteSet({f[x] : x \in S}) /\ Cardinality({f[x] : x \in S}) <= Cardinality(S)
         /\ (\A x, y \in S : f[x] = f[y] => x = y) => Cardinality({f[x] : x \in S}) = Cardinality(S)
<1> DEFINE g == [x \in S |-> f[x]]
           T == {f[x] : x \in S}
<1>1. g \in Surjection(S, T)
  BY DEF Surjection
<1>2. (\A x, y \in S : f[x] = f[y] => x = y) => g \in Injection(S, T)
  BY DEF Injection, IsInjective
<1>3. QED
  <2> HIDE DEF g, T
  <2>1. /\ IsFiniteSet(T) /\ Cardinality(T) <= Cardinality(S)
        /\ Cardinality(T) = Cardinality(S) <=> g \in Injection(S, T)
    BY <1>1, FS_Surjection
  <2>2. QED
    BY <1>2, <2>1 DEF T

\* What a commit makes of the rows: row[x] is the new row of the couple x.
Added(kept, made, row) ==
  /\ \A x \in made : /\ row[x] = RowOf(x, made)
                     /\ row[x] \in PairIds \ kept /\ pair[row[x]].status = "none"
  /\ \A x, y \in made : row[x] = row[y] => x = y
  /\ Active' = kept \cup {row[x] : x \in made}
  /\ \A p \in kept : pair'[p] = pair[p]
  /\ \A x \in made : pair'[row[x]].a = x[1] /\ pair'[row[x]].b = x[2]
  /\ \A p \in PairIds : pair[p].status # "none" \/ (\E x \in made : p = row[x]) =>
       pair'[p].status # "none"

LEMMA CommitAdds ==
  ASSUME PairingInv, NEW h \in Syncs, SyncCommit(h)
  PROVE  \E row : Added(Active \ sync[h].drop, sync[h].make, row)
<1> DEFINE make == sync[h].make
           drop == sync[h].drop
           row  == [x \in make |-> RowOf(x, make)]
<1>1. /\ make \in SUBSET Ordered /\ \A x \in make : row[x] \in PairIds
      /\ pair' = [p \in PairIds |->
           IF p \in drop THEN [pair[p] EXCEPT !.status = "archived", !.since = clock]
           ELSE IF \E x \in make : RowOf(x, make) = p
           THEN LET x == CHOOSE y \in make : RowOf(y, make) = p
                IN [NoPair EXCEPT !.status = "active", !.a = x[1], !.b = x[2]]
           ELSE pair[p]]
  BY DEF PairingInv, SyncWork, SyncCommit
<1>2. PICK m \in 0 .. MaxPairs, k \in Nat :
        /\ \A p \in PairIds : pair[p].status # "none" <=> p <= m
        /\ \A p \in PairIds : (\E x \in make : RowOf(x, make) = p) <=> m < p /\ p <= m + k
        /\ \A x, y \in make : RowOf(x, make) = RowOf(y, make) => x = y
  BY <1>1, NewRows
<1>3. \A p \in drop : p \in PairIds /\ pair[p].status # "none"
  BY DEF PairingInv, SyncWork, SyncCommit
<1>4. m \in Nat /\ \A p \in PairIds : p \in Nat /\ pair[p] \in PairRow
  BY PairingAssumption DEF PairIds, PairingInv, RowsTyped
<1>5. \A x \in make : row[x] \in PairIds /\ pair[row[x]].status = "none" /\ row[x] \notin drop
  <2>1. \A x \in make : row[x] \in PairIds /\ m < row[x]
    BY <1>1, <1>2
  <2>2. QED
    BY <1>2, <1>3, <1>4, <2>1
<1>6. \A x \in make : pair'[row[x]] = [NoPair EXCEPT !.status = "active", !.a = x[1], !.b = x[2]]
  <2>1. SUFFICES ASSUME NEW x \in make
                 PROVE  pair'[row[x]] = [NoPair EXCEPT !.status = "active", !.a = x[1], !.b = x[2]]
    OBVIOUS
  <2>2. (CHOOSE y \in make : RowOf(y, make) = RowOf(x, make)) = x
    BY <1>2
  <2>3. QED
    BY <1>1, <1>5, <2>2
<1>7. \A x \in make : pair'[row[x]].status = "active" /\ pair'[row[x]].a = x[1] /\ pair'[row[x]].b = x[2]
  BY <1>6 DEF NoPair
<1>8. \A p \in PairIds \ drop : (\A x \in make : p # row[x]) => pair'[p] = pair[p]
  BY <1>1
<1>9. \A p \in drop : pair'[p].status = "archived"
  BY <1>1, <1>3, <1>4 DEF PairRow
<1>15. \A x \in make : row[x] = RowOf(x, make)
  OBVIOUS
<1> HIDE DEF make, drop, row
<1>10. \A p \in Active \ drop : p \in PairIds /\ pair'[p] = pair[p]
  BY <1>5, <1>8 DEF Active
<1>11. Active' = (Active \ drop) \cup {row[x] : x \in make}
  <2>1. \A p \in PairIds : pair'[p].status = "active" <=> p \in Active \ drop \/ \E x \in make : p = row[x]
    BY <1>7, <1>8, <1>9, <1>10 DEF Active
  <2>2. QED
    BY <1>5, <2>1 DEF Active
<1>12. \A x, y \in make : row[x] = row[y] => x = y
  BY <1>2 DEF row
<1>16. \A p \in PairIds : pair[p].status # "none" \/ (\E x \in make : p = row[x]) =>
         pair'[p].status # "none"
  BY <1>5, <1>7, <1>8, <1>9
<1>13. Added(Active \ drop, make, row)
  BY <1>5, <1>7, <1>10, <1>11, <1>12, <1>15, <1>16 DEF Added, Active
<1>17. QED
  BY <1>13 DEF make, drop

\* The load that the new pairs and some of the others are to a SIM after the commit.
LEMMA CommitLoad ==
  ASSUME NEW kept \in SUBSET PairIds, NEW made \in SUBSET Ordered, NEW row, Added(kept, made, row),
         NEW some \in SUBSET kept, NEW s
  PROVE  Cardinality(In(s, some \cup {row[x] : x \in made})') = Load(s, some, made)
<1> DEFINE old == In(s, some)
           new == {row[x] : x \in Of(s, made)}
<1>1. IsFiniteSet(old) /\ IsFiniteSet(Of(s, made)) /\ Cardinality(old) \in Nat
      /\ Cardinality(Of(s, made)) \in Nat
      /\ Load(s, some, made) = Cardinality(old) + Cardinality(Of(s, made))
  BY LoadSets
<1>2. IsFiniteSet(new) /\ Cardinality(new) = Cardinality(Of(s, made))
  <2>1. \A x, y \in Of(s, made) : row[x] = row[y] => x = y
    BY DEF Of, Added
  <2>2. QED
    BY <1>1, <2>1, ImageCount
<1>3. {p \in some \cup {row[x] : x \in made} : s \in {pair'[p].a, pair'[p].b}} = old \cup new
  <2>1. \A p \in some : s \in {pair'[p].a, pair'[p].b} <=> p \in old
    BY DEF Added, In, Members
  <2>2. \A x \in made : s \in {pair'[row[x]].a, pair'[row[x]].b} <=> x \in Of(s, made)
    BY DEF Added, Of
  <2>3. old \subseteq some /\ Of(s, made) \subseteq made
    BY DEF In, Of
  <2> HIDE DEF old
  <2>4. QED
    BY <2>1, <2>2, <2>3
<1>4. old \cap new = {}
  BY DEF In, Of, Added
<1>5. Cardinality(old \cup new) = Cardinality(old) + Cardinality(new)
  <2> HIDE DEF old, new
  <2>1. Cardinality(old \cap new) = 0
    BY <1>4, FS_EmptySet
  <2>2. Cardinality(old \cup new) = Cardinality(old) + Cardinality(new) - Cardinality(old \cap new)
    BY <1>1, <1>2, FS_Union
  <2>3. QED
    BY <1>1, <1>2, <2>1, <2>2
<1>6. In(s, some \cup {row[x] : x \in made})' = old \cup new
  BY <1>3 DEF In, Members
<1>7. QED
  BY <1>1, <1>2, <1>5, <1>6

-----------------------------------------------------------------------------
(* The steps. *)

\* A commit leaves the pairs sound, and nothing to do for the same inventory.
LEMMA CommitPairs ==
  ASSUME NEW kept \in SUBSET PairIds, NEW made \in SUBSET Ordered, NEW row, NEW seen,
         Added(kept, made, row), made = {x \in Couples(seen) : Fits(x, kept, made)},
         \A p \in kept : Survives(seen, p),
         NEW over, Sound(kept, over), \A x \in made : row[x] \notin over
  PROVE  Sound(Active, over)' /\ Rests(seen, Active)'
<1>1. \A x \in made : Fits(x, kept, made)
  OBVIOUS
<1>2. Active' = kept \cup {row[x] : x \in made}
  BY DEF Added
<1>3. \A p \in kept : Members(p)' = Members(p) /\ Members(p) = {pair[p].a, pair[p].b}
  BY DEF Added, Members
<1>4. \A x \in made : Members(row[x])' = {x[1], x[2]}
  BY DEF Added, Members
<1>5. \A x \in made : x[1] \in Nat /\ x[2] \in Nat /\ x[1] < x[2] /\ x = <<x[1], x[2]>>
  <2>1. \A x \in made : x \in Sims \X Sims /\ x[1] < x[2]
    BY DEF Ordered
  <2>2. QED
    BY <2>1, PairingAssumption
<1>6. Sound(Active, over)'
  <2>1. ASSUME NEW p \in Active', NEW q \in Active', Members(p)' = Members(q)'
        PROVE  p = q \/ {p, q} \cap over # {}
    <3>1. CASE p \in kept /\ q \in kept
      BY <1>3, <2>1, <3>1 DEF Sound
    <3>2. ASSUME NEW o \in kept, NEW x \in made, Members(o)' = Members(row[x])' PROVE FALSE
      BY <1>1, <1>3, <1>4, <3>2 DEF Fits
    <3>3. ASSUME NEW x \in made, NEW y \in made, p = row[x], q = row[y] PROVE p = q
      <4>1. {x[1], x[2]} = {y[1], y[2]}
        BY <1>4, <2>1, <3>3
      <4>2. x[1] = y[1] /\ x[2] = y[2]
        BY <1>5, <4>1
      <4>3. QED
        BY <1>5, <3>3, <4>2
    <3>4. QED
      BY <1>2, <2>1, <3>1, <3>2, <3>3
  <2>2. ASSUME NEW s \in Sims PROVE Cardinality(In(s, Active \ over))' <= PairLimit
    <3>1. PICK some \in SUBSET kept : some = kept \ over
      OBVIOUS
    <3>2. Cardinality(In(s, some)) <= PairLimit /\ some \in SUBSET PairIds
      BY <3>1 DEF Sound
    <3>3. \A x \in made : Fits(x, some, made)
      BY <1>1, FitsFewer
    <3>4. Load(s, some, made) <= PairLimit
      BY <3>2, <3>3, LoadBound
    <3>5. Cardinality(In(s, some \cup {row[x] : x \in made})') = Load(s, some, made)
      BY CommitLoad
    <3>6. In(s, Active \ over)' = In(s, some \cup {row[x] : x \in made})'
      <4>1. Active' \ over = some \cup {row[x] : x \in made}
        BY <1>2, <3>1
      <4>2. QED
        BY <4>1 DEF In
    <3>7. QED
      BY <3>4, <3>5, <3>6
  <2>3. QED
    BY <2>1, <2>2 DEF Sound
<1>7. ASSUME NEW p \in Active' PROVE Survives(seen, p)'
  <2>1. CASE p \in kept
    BY <2>1, SameView DEF Survives, Added, Members, Country
  <2>2. ASSUME NEW x \in made, p = row[x] PROVE Survives(seen, p)'
    <3>1. /\ x[1] \in KeptAlive(seen) /\ x[2] \in KeptAlive(seen)
          /\ Country(seen, x[1]) = Country(seen, x[2])
      BY DEF Couples, Creatable, Pairable
    <3>2. QED
      BY <2>2, <3>1, SameView DEF Survives, Added, Members, Country
  <2>3. QED
    BY <1>2, <2>1, <2>2
<1>8. ASSUME NEW x \in Couples(seen) PROVE Blocked(x, Active)'
  <2>1. CASE x \in made
    <3>1. row[x] \in Active' /\ Members(row[x])' = {x[1], x[2]}
      BY <1>2, <1>4, <2>1
    <3>2. QED
      BY <3>1 DEF Blocked
  <2>2. CASE \E p \in kept : Members(p) = {x[1], x[2]}
    <3>1. \E p \in Active' : Members(p)' = {x[1], x[2]}
      BY <1>2, <1>3, <2>2
    <3>2. QED
      BY <3>1 DEF Blocked
  <2>3. ASSUME NEW s, ~(Load(s, kept, {y \in made : Before(y, x)}) < PairLimit)
        PROVE  Load(s, Active, {})' >= PairLimit
    <3>1. /\ Load(s, kept, {y \in made : Before(y, x)}) \in Nat /\ Load(s, kept, made) \in Nat
          /\ Load(s, kept, {y \in made : Before(y, x)}) <= Load(s, kept, made)
      <4>1. {y \in made : Before(y, x)} \in SUBSET made
        OBVIOUS
      <4>2. QED
        BY <4>1, LoadGrows
    <3>2. Cardinality(In(s, Active))' = Load(s, kept, made)
      <4>1. PICK some \in SUBSET kept : some = kept
        OBVIOUS
      <4>2. Cardinality(In(s, some \cup {row[y] : y \in made})') = Load(s, some, made)
        BY CommitLoad
      <4>3. QED
        BY <1>2, <4>1, <4>2 DEF In
    <3>3. Load(s, Active, {})' = Cardinality(In(s, Active))' + Cardinality({})
      <4>1. {y \in {} : s \in {y[1], y[2]}} = {}
        OBVIOUS
      <4>2. QED
        BY <4>1 DEF Load, In
    <3>4. Cardinality({}) = 0
      BY FS_EmptySet
    <3>5. QED
      BY <2>3, <3>1, <3>2, <3>3, <3>4, PairingAssumption
  <2>4. QED
    <3>1. SUFFICES ASSUME x \notin made PROVE Blocked(x, Active)'
      BY <2>1
    <3>2. ~Fits(x, kept, made)
      BY <3>1
    <3>3. QED
      BY <2>2, <2>3, <3>2 DEF Fits, Blocked
<1>9. Rests(seen, Active)'
  BY <1>7, <1>8, SameView DEF Rests
<1>10. QED
  BY <1>6, <1>9

\* The k-th name that no row holds.
LEMMA FreeName ==
  ASSUME NEW was \in [Sims -> Int], NEW k \in 1 .. Cardinality(Sims)
  PROVE  LET name == NthFree(k, {was[s] : s \in Sims})
         IN  name \in Nat \ {0} /\ \A s \in Sims : was[s] # name
<1> DEFINE n == Cardinality(Sims)
           all == 1 .. (n + k)
           taken == {was[s] : s \in Sims}
           free == all \ taken
<1>1. n \in Nat /\ k \in Nat /\ 1 <= k /\ IsFiniteSet(Sims)
  BY PairingAssumption, FS_CardinalityType
<1>2. IsFiniteSet(taken) /\ Cardinality(taken) <= n
  BY <1>1, ImageCount
<1>3. IsFiniteSet(all) /\ Cardinality(all) = n + k
  <2> HIDE DEF n
  <2>1. n + k \in Int /\ ~(1 > n + k)
    BY <1>1
  <2>2. QED
    BY <1>1, <2>1, FS_Interval
<1>4. IsFiniteSet(free) /\ k <= Cardinality(free) /\ Cardinality(free) \in Nat
  <2> HIDE DEF n, all, taken
  <2>1. all \cap taken \in SUBSET taken
    OBVIOUS
  <2>2. Cardinality(all \cap taken) <= Cardinality(taken) /\ IsFiniteSet(all \cap taken)
    BY <1>2, <2>1, FS_Subset
  <2>3. IsFiniteSet(free) /\ Cardinality(free) = Cardinality(all) - Cardinality(all \cap taken)
    BY <1>3, FS_Difference
  <2>4. Cardinality(all \cap taken) \in Nat /\ Cardinality(taken) \in Nat /\ Cardinality(free) \in Nat
    BY <1>2, <2>2, <2>3, FS_CardinalityType
  <2>5. QED
    BY <1>1, <1>2, <1>3, <2>2, <2>3, <2>4
<1>5. \A i \in free : i \in Nat /\ i # 0 /\ \A s \in Sims : was[s] # i
  BY <1>1
<1>6. PICK m \in free : Cardinality({j \in free : j <= m}) = k
  <2> HIDE DEF free
  <2>1. k \in 1 .. Cardinality(free)
    BY <1>1, <1>4
  <2>2. QED
    BY <1>4, <1>5, <2>1, NthMember
<1>7. NthFree(k, taken) = CHOOSE i \in free : Cardinality({j \in free : j <= i}) = k
  BY DEF NthFree
<1>8. NthFree(k, taken) \in free
  <2> HIDE DEF free
  <2>1. QED
    BY <1>6, <1>7
<1>9. QED
  BY <1>5, <1>8

\* The name that a SIM without one is given.
LEMMA NameGiven ==
  ASSUME NEW was \in [Sims -> Int], NEW seen, NEW s \in Unnamed(seen, was)
  PROVE  Renamed(seen, was)[s] \in Nat \ {0} /\ \A t \in Sims : was[t] # Renamed(seen, was)[s]
<1> DEFINE U == Unnamed(seen, was)
           upTo == {t \in U : t <= s}
<1>1. U \subseteq Sims /\ \A t \in U : t \in Nat
  BY PairingAssumption DEF Unnamed, KeptAlive
<1>2. upTo \in SUBSET Sims /\ s \in upTo
  BY <1>1
<1>3. Cardinality(upTo) \in 1 .. Cardinality(Sims)
  <2> HIDE DEF upTo
  <2>1. IsFiniteSet(upTo) /\ Cardinality(upTo) <= Cardinality(Sims)
    BY <1>2, PairingAssumption, FS_Subset
  <2>2. Cardinality(upTo) \in Nat /\ Cardinality(upTo) # 0 /\ Cardinality(Sims) \in Nat
    BY <1>2, <2>1, PairingAssumption, FS_CardinalityType, FS_EmptySet
  <2>3. QED
    BY <2>1, <2>2
<1>4. Renamed(seen, was)[s] = NthFree(Cardinality(upTo), {was[t] : t \in Sims})
  BY DEF Renamed
<1>5. QED
  BY <1>3, <1>4, FreeName

LEMMA ReadSync ==
  ASSUME PairingInv, SyncInv, NEW h \in Syncs, SyncRead(h)
  PROVE  SyncInv'
<1>1. PICK made \in SUBSET Couples(sims) :
        LET drop == {p \in Active : ~Survives(sims, p)}
            dead == drop \cup {p \in PairIds : pair[p].status = "archived"}
        IN /\ IsCreated(made, sims, Active \ drop)
           /\ sync' = [sync EXCEPT ![h] =
                [pc |-> "writing", seen |-> sims, was |-> names, drop |-> drop,
                 make |-> made, heal |-> {r \in Pending : r[1] \in dead}, fresh |-> TRUE]]
  BY DEF SyncRead
<1>2. UNCHANGED <<pair, names, synced, late>> /\ sync[h].pc = "idle" /\ DOMAIN sync = Syncs
  BY DEF SyncRead, PairingInv, SyncWork
<1>3. SamePairs
  BY <1>2 DEF SamePairs, Active
<1>4. PICK kept, was, seen, last, over :
        kept = Active /\ was = names /\ seen = sims /\ last = synced /\ over = late
  OBVIOUS
<1>5. Active' = kept /\ names' = was /\ synced' = last /\ late' = over
  BY <1>2, <1>3, <1>4 DEF SamePairs
<1>6. Sound(kept, over)' /\ Rests(last, kept)'
  BY <1>3, <1>4, SameCounts DEF SyncInv
<1>7. ASSUME NEW g \in Syncs PROVE Follows(sync[g], Active, names)'
  <2>1. PICK me : me = sync'[g]
    OBVIOUS
  <2>2. Follows(me, kept, was)
    <3>1. CASE g = h
      <4>1. /\ me.seen = seen /\ me.was = was /\ me.make = made
            /\ me.drop = {p \in kept : ~Survives(seen, p)}
        BY <1>1, <1>2, <1>4, <2>1, <3>1
      <4>2. seen \in [Sims -> SimView] /\ was \in [Sims -> Int]
        BY <1>4 DEF PairingInv, Inventory, SyncInv
      <4>3. made = {x \in Couples(seen) : Fits(x, kept \ me.drop, made)}
        <5>1. IsCreated(made, seen, kept \ me.drop)
          BY <1>1, <1>4, <4>1
        <5>2. QED
          BY <5>1 DEF IsCreated, Fits
      <4>4. QED
        BY <4>1, <4>2, <4>3 DEF Follows
    <3>2. CASE g # h
      BY <1>1, <1>2, <1>4, <2>1, <3>2 DEF SyncInv
    <3>3. QED
      BY <3>1, <3>2
  <2>3. Follows(me, kept, was)'
    BY <1>3, <1>4, <2>2, SameCounts
  <2>4. QED
    BY <1>5, <2>1, <2>3
<1>8. QED
  BY <1>2, <1>4, <1>5, <1>6, <1>7 DEF SyncInv

\* Fewer pairs, and more of them excused, are as sound.
LEMMA SoundFewer ==
  ASSUME NEW kept \in SUBSET PairIds, NEW some \in SUBSET kept, NEW over, NEW more,
         over \subseteq more, Sound(kept, over)
  PROVE  Sound(some, more)
<1>1. \A p, q \in some : Members(p) = Members(q) => p = q \/ {p, q} \cap more # {}
  BY DEF Sound
<1>2. ASSUME NEW s \in Sims PROVE Cardinality(In(s, some \ more)) <= PairLimit
  <2>1. PICK large \in SUBSET PairIds : large = kept \ over
    OBVIOUS
  <2>2. PICK small \in SUBSET large : small = some \ more
    BY <2>1
  <2>3. IsFiniteSet(In(s, large)) /\ Cardinality(In(s, large)) \in Nat
        /\ Cardinality(In(s, small)) \in Nat
    <3>1. small \in SUBSET PairIds /\ {} \in SUBSET Ordered
      OBVIOUS
    <3>2. QED
      BY <3>1, LoadSets
  <2>4. In(s, small) \in SUBSET In(s, large)
    BY DEF In
  <2>5. Cardinality(In(s, small)) <= Cardinality(In(s, large))
    BY <2>3, <2>4, FS_Subset
  <2>6. Cardinality(In(s, large)) <= PairLimit
    BY <2>1 DEF Sound
  <2>7. QED
    BY <2>2, <2>3, <2>5, <2>6, PairingAssumption
<1>3. QED
  BY <1>1, <1>2 DEF Sound

\* The commit of a sync that no other has overtaken.
LEMMA FreshCommit ==
  ASSUME PairingInv, SyncInv, NEW h \in Syncs, SyncCommit(h), sync[h].fresh
  PROVE  Sound(Active, late)' /\ Rests(synced, Active)'
<1>1. PICK me, seen, made, kept, over :
        /\ me = sync[h] /\ seen = me.seen /\ made = me.make
        /\ kept = Active \ me.drop /\ over = late
  OBVIOUS
<1>2. /\ me.drop = {p \in Active : ~Survives(seen, p)}
      /\ made = {x \in Couples(seen) : Fits(x, kept, made)}
  BY <1>1 DEF SyncCommit, SyncInv, Follows
<1>3. kept \in SUBSET PairIds /\ made \in SUBSET Ordered /\ Active \in SUBSET PairIds
  BY <1>1 DEF Active, PairingInv, SyncWork, SyncCommit
<1>4. PICK row : Added(kept, made, row)
  BY <1>1, CommitAdds
<1>5. Sound(kept, over)
  BY <1>1, <1>3, SoundFewer DEF SyncInv
<1>6. \A p \in kept : Survives(seen, p)
  BY <1>1, <1>2
<1>7. \A x \in made : row[x] \notin over
  BY <1>1, <1>4 DEF Added, SyncInv
<1>8. Sound(Active, over)' /\ Rests(seen, Active)'
  BY <1>2, <1>3, <1>4, <1>5, <1>6, <1>7, CommitPairs
<1>9. synced' = seen /\ late' = over
  BY <1>1 DEF SyncCommit
<1>10. QED
  BY <1>8, <1>9

\* The commit of a sync that another has overtaken: its pairs are excused.
LEMMA LateCommit ==
  ASSUME PairingInv, SyncInv, NEW h \in Syncs, SyncCommit(h), ~sync[h].fresh
  PROVE  Sound(Active, late)' /\ Rests(synced, Active)'
<1>1. PICK made, kept, more, over :
        /\ made = sync[h].make /\ kept = Active \ sync[h].drop /\ over = late
        /\ more = late \cup {RowOf(x, made) : x \in made}
  OBVIOUS
<1>2. synced' = <<>> /\ late' = more
  BY <1>1 DEF SyncCommit
<1>3. kept \in SUBSET PairIds /\ made \in SUBSET Ordered /\ Active \in SUBSET PairIds
  BY <1>1 DEF Active, PairingInv, SyncWork, SyncCommit
<1>4. PICK row : Added(kept, made, row)
  BY <1>1, CommitAdds
<1>5. Active' = kept \cup {row[x] : x \in made} /\ \A x \in made : row[x] \in more
  BY <1>1, <1>4 DEF Added
<1>6. \A p \in kept : Members(p)' = Members(p)
  BY <1>4 DEF Added, Members
<1>7. Sound(kept, more)
  BY <1>1, <1>3, SoundFewer DEF SyncInv
<1>8. Sound(Active, more)'
  <2>1. \A p, q \in Active' : Members(p)' = Members(q)' => p = q \/ {p, q} \cap more # {}
    BY <1>5, <1>6, <1>7 DEF Sound
  <2>2. \A s \in Sims : In(s, Active \ more)' = In(s, kept \ more)
    BY <1>5, <1>6 DEF In
  <2>3. QED
    BY <1>7, <2>1, <2>2 DEF Sound
<1>9. Rests(<<>>, Active)'
  <2>1. SUFFICES ASSUME <<>> \in [Sims -> SimView] PROVE Active' = {} /\ \A seen : Couples(seen) = {}
    BY SameView DEF Rests
  <2>2. Sims = {}
    BY <2>1
  <2>3. made = {}
    BY <1>3, <2>2 DEF Ordered
  <2>4. kept = {}
    BY <1>1, <1>3, <2>2 DEF Active, PairingInv, RowsWell, Joined
  <2>5. QED
    BY <1>5, <2>2, <2>3, <2>4 DEF Couples, Creatable, KeptAlive
<1>10. QED
  BY <1>2, <1>8, <1>9

LEMMA CommitSync ==
  ASSUME PairingInv, SyncInv, NEW h \in Syncs, SyncCommit(h)
  PROVE  SyncInv'
<1>1. PICK me, was : me = sync[h] /\ was = me.was
  OBVIOUS
<1>2. was \in [Sims -> Int] /\ names \in [Sims -> Int]
  BY <1>1 DEF SyncCommit, SyncInv, Follows
<1>3. Sound(Active, late)' /\ Rests(synced, Active)'
  BY FreshCommit, LateCommit
<1>4. names' \in [Sims -> Int]
  <2>1. names' = [s \in Sims |-> IF s \in Unnamed(me.seen, was) THEN Renamed(me.seen, was)[s]
                                                                 ELSE names[s]]
    BY <1>1 DEF SyncCommit
  <2>2. \A s \in Unnamed(me.seen, was) : Renamed(me.seen, was)[s] \in Int
    BY <1>2, NameGiven
  <2>3. QED
    BY <1>2, <2>1, <2>2
<1>5. \A p \in late' : p \in PairIds /\ pair'[p].status # "none"
  <2>1. PICK made : made = me.make
    OBVIOUS
  <2>2. PICK row : Added(Active \ me.drop, made, row)
    BY <1>1, <2>1, CommitAdds
  <2>3. \A p \in late' : p \in late \/ \E x \in made : p = row[x]
    <3>1. late' \subseteq late \cup {RowOf(x, made) : x \in made}
      BY <1>1, <2>1 DEF SyncCommit
    <3>2. \A x \in made : RowOf(x, made) = row[x]
      BY <2>2 DEF Added
    <3>3. QED
      BY <3>1, <3>2
  <2>4. QED
    BY <2>2, <2>3 DEF Added, SyncInv
<1>6. ASSUME NEW g \in Syncs PROVE Follows(sync[g], Active, names)'
  <2>1. CASE g = h
    <3>1. sync'[g].pc # "writing"
      BY <2>1, SyncEnds DEF SyncCommit
    <3>2. QED
      BY <3>1 DEF Follows
  <2>2. CASE g # h
    <3>1. sync'[g] = [sync[g] EXCEPT !.fresh = FALSE] /\ DOMAIN sync[g] = DOMAIN NoSync
      BY <2>2 DEF SyncCommit, PairingInv, SyncWork
    <3>2. /\ sync'[g].pc = sync[g].pc /\ ~sync'[g].fresh
          /\ sync'[g].seen = sync[g].seen /\ sync'[g].was = sync[g].was
      BY <3>1, SyncEnds
    <3>3. QED
      BY <3>2 DEF SyncInv, Follows
  <2>3. QED
    BY <2>1, <2>2
<1>7. QED
  BY <1>3, <1>4, <1>5, <1>6 DEF SyncInv

\* A purge takes only archived pairs.
LEMMA PurgeSync ==
  ASSUME PairingInv, SyncInv, NEW h \in Syncs, Purge(h)
  PROVE  SyncInv'
<1>1. /\ UNCHANGED <<names, synced, late>> /\ sync' = [sync EXCEPT ![h] = NoSync]
      /\ \A p \in PairIds : \/ pair'[p] = pair[p]
                            \/ pair[p].status = "archived" /\ pair'[p].status = "purged"
  BY DEF Purge, Expired, NoPair
<1>2. SamePairs
  BY <1>1 DEF SamePairs, Active
<1>3. \A g \in Syncs : sync'[g] = sync[g] \/ sync'[g].pc # "writing"
  BY <1>1 DEF PairingInv, SyncWork, NoSync
<1>4. QED
  BY <1>1, <1>2, <1>3, SameSync

\* A message that is recorded counts on its pair.
LEMMA TalkSync ==
  ASSUME PairingInv, SyncInv, TalkInv, TalkNext
  PROVE  SyncInv'
<1>1. UNCHANGED <<names, sync, synced, late>>
  BY DEF TalkNext, TalkStart, TalkEnqueue, TalkChoose, TalkSend, TalkFail, TalkRecord, TalkStop,
         pairingVars
<1>2. SamePairs
  <2>1. CASE TalkRecord
    <3>1. PICK p : p = Head(talk.todo).pair
      OBVIOUS
    <3>2. pair' = [pair EXCEPT ![p] = [pair[p] EXCEPT !.sent = @ + 1]]
      BY <2>1, <3>1 DEF TalkRecord
    <3>3. \A q \in PairIds : pair[q] \in PairRow
      BY DEF PairingInv, RowsTyped
    <3>4. \A q \in PairIds : /\ pair'[q].status = pair[q].status
                             /\ pair'[q].a = pair[q].a /\ pair'[q].b = pair[q].b
      BY <3>2, <3>3 DEF PairRow, PairingInv, RowsTyped
    <3>5. QED
      BY <3>4 DEF SamePairs, Active
  <2>2. CASE ~TalkRecord
    <3>1. UNCHANGED pair
      BY <2>2 DEF TalkNext, TalkStart, TalkEnqueue, TalkChoose, TalkSend, TalkFail, TalkStop,
                  pairingVars
    <3>2. QED
      BY <3>1 DEF SamePairs, Active
  <2>3. QED
    BY <2>1, <2>2
<1>3. QED
  BY <1>1, <1>2, SameSync

LEMMA StillSync ==
  ASSUME SyncInv, UNCHANGED <<pair, names, sync, synced, late>>
  PROVE  SyncInv'
<1>1. SamePairs
  BY DEF SamePairs, Active
<1>2. QED
  BY <1>1, SameSync

LEMMA StepSync ==
  ASSUME FleetInv, SyncInv, [Next]_fleetVars
  PROVE  SyncInv'
<1>1. PairingInv /\ TalkInv
  BY DEF FleetInv
<1>2. CASE PairingNext
  <2>1. ASSUME NEW h \in Syncs, SyncSkip(h) \/ SyncFail(h) \/ PurgeFail(h) PROVE SyncInv'
    <3>1. /\ UNCHANGED <<pair, names, synced, late>>
          /\ \A g \in Syncs : sync'[g] = sync[g] \/ sync'[g].pc # "writing"
      BY <1>1, <2>1, SyncEnds DEF SyncSkip, SyncFail, PurgeFail, PairingInv, SyncWork
    <3>2. SamePairs
      BY <3>1 DEF SamePairs, Active
    <3>3. QED
      BY <3>1, <3>2, SameSync
  <2>2. CASE Tick \/ \E s \in Sims : EditSim(s)
    BY <2>2, StillSync DEF Tick, EditSim
  <2>3. QED
    BY <1>1, <1>2, <2>1, <2>2, ReadSync, CommitSync, PurgeSync DEF PairingNext, SyncStep
<1>3. CASE TalkNext
  BY <1>1, <1>3, TalkSync
<1>4. CASE CallNext
  <2>1. UNCHANGED pairingVars
    BY <1>4 DEF CallNext, RingStart, RingReconcile, RingStop, RingOriginate, RingRecord,
                RingFail, Finalize
  <2>2. QED
    BY <2>1, StillSync DEF pairingVars
<1>5. CASE UNCHANGED fleetVars
  BY <1>5, StillSync DEF fleetVars, pairingVars
<1>6. QED
  BY <1>2, <1>3, <1>4, <1>5 DEF Next

LEMMA InitSync == Init => SyncInv
<1> SUFFICES ASSUME PairingInit PROVE SyncInv
  BY DEF Init
<1>1. Active = {}
  BY DEF PairingInit, Active, NoPair
<1>2. names \in [Sims -> Int]
  BY PairingAssumption DEF PairingInit
<1>3. Sound(Active, late)
  <2>1. \A s, over : In(s, {} \ over) = {}
    BY DEF In
  <2>2. Cardinality({}) = 0
    BY FS_EmptySet
  <2>3. QED
    BY <1>1, <2>1, <2>2, PairingAssumption DEF Sound
<1>4. Rests(synced, Active)
  <2>1. SUFFICES ASSUME synced \in [Sims -> SimView] PROVE Couples(synced) = {}
    BY <1>1 DEF Rests
  <2>2. Sims = {}
    BY <2>1 DEF PairingInit
  <2>3. QED
    BY <2>2 DEF Couples, Creatable, KeptAlive
<1>5. \A h \in Syncs : Follows(sync[h], Active, names)
  BY DEF PairingInit, Follows, NoSync
<1>6. late = {}
  BY DEF PairingInit
<1>7. QED
  BY <1>2, <1>3, <1>4, <1>5, <1>6 DEF SyncInv

LEMMA SyncInvariant == Spec => []SyncInv
<1>1. FleetInv /\ SyncInv /\ [Next]_fleetVars => SyncInv'
  BY StepSync
<1>2. QED
  BY <1>1, InitSync, FleetInvariant, PTL DEF Spec

-----------------------------------------------------------------------------
(* The equations IsCreated and IsChosen state of two loops have one solution. *)

LEMMA EarliestCouple ==
  ASSUME NEW some \in SUBSET Ordered, some # {}
  PROVE  \E x \in some : \A y \in some : ~Before(y, x)
<1> DEFINE D == [x \in some |-> {y \in some : y = x \/ Before(y, x)}]
<1>1. IsFiniteSet(some) /\ Cardinality(some) \in Nat /\ Orders(some, D)
  BY BeforeOrders
<1>2. 1 \in 1 .. Cardinality(some)
  BY <1>1, FS_EmptySet
<1>3. PICK x \in some : Cardinality(D[x]) = 1
  <2> HIDE DEF D
  <2>1. QED
    BY <1>1, <1>2, RankOnto
<1>4. \A y \in D[x] : y = x
  <2>1. PICK z : D[x] = {z}
    <3>1. D[x] \in SUBSET some
      OBVIOUS
    <3>2. IsFiniteSet(D[x])
      BY <1>1, <3>1, FS_Subset
    <3> HIDE DEF D
    <3>3. QED
      BY <1>3, <3>2, FS_Singleton
  <2>2. x \in D[x]
    OBVIOUS
  <2> HIDE DEF D
  <2>3. QED
    BY <2>1, <2>2
<1>5. ~Before(x, x)
  <2>1. x[1] \in Nat /\ x[2] \in Nat
    BY PairingAssumption DEF Ordered
  <2>2. QED
    BY <2>1 DEF Before
<1>6. QED
  BY <1>4, <1>5

\* From one reading of SIMs and surviving pairs the loop makes one set of pairs: what a
\* sync decides does not depend on anything but what it has read.
THEOREM LoopIsDeterministic ==
  ASSUME NEW seen, NEW kept, NEW made, NEW other,
         IsCreated(made, seen, kept), IsCreated(other, seen, kept)
  PROVE  made = other
<1> DEFINE apart == (made \ other) \cup (other \ made)
<1>1. made \in SUBSET Couples(seen) /\ other \in SUBSET Couples(seen)
  BY DEF IsCreated
<1>2. Couples(seen) \in SUBSET Ordered
  BY DEF Couples, Creatable, KeptAlive, Ordered
<1>3. SUFFICES ASSUME apart # {} PROVE FALSE
  OBVIOUS
<1>4. PICK x \in apart : \A y \in apart : ~Before(y, x)
  <2>1. apart \in SUBSET Ordered
    BY <1>1, <1>2
  <2> HIDE DEF apart
  <2>2. QED
    BY <1>3, <2>1, EarliestCouple
<1> DEFINE Leaves(earlier) == /\ Load(x[1], kept, earlier) < PairLimit
                              /\ Load(x[2], kept, earlier) < PairLimit
                              /\ \A p \in kept : Members(p) # {x[1], x[2]}
<1>5. {y \in made : Before(y, x)} = {y \in other : Before(y, x)}
  BY <1>4
<1>6. x \in Couples(seen)
  BY <1>1
<1>7. x \in made <=> x \in other
  <2>1. x \in made <=> Leaves({y \in made : Before(y, x)})
    BY <1>6 DEF IsCreated
  <2>2. x \in other <=> Leaves({y \in other : Before(y, x)})
    BY <1>6 DEF IsCreated
  <2> HIDE DEF Leaves
  <2>3. QED
    BY <1>5, <2>1, <2>2
<1>8. QED
  BY <1>4, <1>7

\* From one order of the candidates a run of messages chooses one batch.
THEOREM ChoiceIsDeterministic ==
  ASSUME NEW n \in Nat, NEW c \in [1 .. n -> DueRows], NEW chosen, NEW other,
         IsChosen(chosen, c), IsChosen(other, c)
  PROVE  chosen = other
<1> DEFINE apart == (chosen \ other) \cup (other \ chosen)
<1>1. chosen \in SUBSET (1 .. n) /\ other \in SUBSET (1 .. n)
  BY DEF IsChosen
<1>2. SUFFICES ASSUME apart # {} PROVE FALSE
  OBVIOUS
<1>3. PICK i \in apart : \A j \in apart : i <= j
  <2>1. apart \in SUBSET (1 .. n) /\ IsFiniteSet(1 .. n)
    BY <1>1, FS_Interval
  <2> HIDE DEF apart
  <2>2. IsFiniteSet(apart) /\ Cardinality(apart) \in Nat /\ Cardinality(apart) # 0
    BY <1>2, <2>1, FS_Subset, FS_CardinalityType, FS_EmptySet
  <2>3. 1 \in 1 .. Cardinality(apart) /\ \A i \in apart : i \in Nat
    BY <2>1, <2>2
  <2>4. PICK i \in apart : Cardinality({j \in apart : j <= i}) = 1
    BY <2>2, <2>3, NthMember
  <2>5. PICK k : {j \in apart : j <= i} = {k}
    <3>1. {j \in apart : j <= i} \in SUBSET apart
      OBVIOUS
    <3>2. QED
      BY <2>2, <2>4, <3>1, FS_Subset, FS_Singleton
  <2>6. \A j \in apart : j <= i => j = i
    <3>1. i \in {j \in apart : j <= i}
      BY <2>3
    <3>2. QED
      BY <2>5, <3>1
  <2>7. QED
    BY <2>3, <2>6
<1>4. \A j \in 1 .. n : j < i => (j \in chosen <=> j \in other)
  BY <1>1, <1>3
<1>5. {j \in chosen : j < i} = {j \in other : j < i}
  BY <1>1, <1>4
<1>6. Room(i, chosen) <=> Room(i, other)
  BY <1>5 DEF Room
<1>7. (\A j \in chosen : j < i => Both(j, c) \cap Both(i, c) = {})
        <=> (\A j \in other : j < i => Both(j, c) \cap Both(i, c) = {})
  BY <1>5
<1>8. i \in 1 .. n
  BY <1>1
<1>9. i \in chosen <=> i \in other
  BY <1>6, <1>7, <1>8 DEF IsChosen
<1>10. QED
  BY <1>3, <1>9

-----------------------------------------------------------------------------
(* What syncs keep, however they overlap. *)

\* No two active pairs join the same SIMs, and no SIM is in more pairs than the limit,
\* whatever TmLite said at each sync: but for the pairs of syncs that another had
\* overtaken, which every later sync counts.
THEOREM PairsAreWellFormed == Spec => []PairsWellFormed
<1>1. SyncInv => PairsWellFormed
  BY DEF SyncInv, Sound, In, PairsWellFormed
<1>2. QED
  BY <1>1, SyncInvariant, PTL

\* A sync that sees what the last one saw archives nothing and creates nothing: the
\* limits stopped the loop then, and stop it again, whatever syncs that overlapped had
\* left before.
THEOREM SyncsAreIdempotent == Spec => []SyncIdempotent
<1>1. FleetInv /\ SyncInv => SyncIdempotent
  <2>1. SUFFICES ASSUME FleetInv, SyncInv, NEW h \in Syncs, sync[h].pc = "writing",
                        sync[h].fresh, sync[h].seen = synced
                 PROVE  sync[h].make = {} /\ sync[h].drop = {}
    BY DEF SyncIdempotent
  <2>2. Rests(synced, Active) /\ Follows(sync[h], Active, names)
    BY <2>1 DEF SyncInv
  <2>3. sync[h].drop = {}
    BY <2>1, <2>2 DEF Rests, Follows
  <2>4. PICK kept, made : kept = Active /\ made = sync[h].make
    OBVIOUS
  <2>5. kept \in SUBSET PairIds /\ made \in SUBSET Ordered
    BY <2>1, <2>4 DEF Active, FleetInv, PairingInv, SyncWork
  <2>6. \A x \in made : Fits(x, kept, made) /\ Blocked(x, kept)
    BY <2>1, <2>2, <2>3, <2>4 DEF Rests, Follows
  <2>7. \A s, x : /\ Load(s, kept, {}) \in Nat /\ Load(s, kept, {y \in made : Before(y, x)}) \in Nat
                  /\ Load(s, kept, {}) <= Load(s, kept, {y \in made : Before(y, x)})
    <3>1. ASSUME NEW s, NEW x
          PROVE  /\ Load(s, kept, {}) \in Nat /\ Load(s, kept, {y \in made : Before(y, x)}) \in Nat
                 /\ Load(s, kept, {}) <= Load(s, kept, {y \in made : Before(y, x)})
      <4>1. PICK earlier \in SUBSET Ordered : earlier = {y \in made : Before(y, x)}
        BY <2>5
      <4>2. {} \in SUBSET earlier
        OBVIOUS
      <4>3. QED
        BY <2>5, <4>1, <4>2, LoadGrows
    <3>2. QED
      BY <3>1
  <2>8. ASSUME NEW x \in made PROVE FALSE
    <3>1. \/ Load(x[1], kept, {}) >= PairLimit
          \/ Load(x[2], kept, {}) >= PairLimit
      BY <2>6 DEF Fits, Blocked
    <3>2. /\ Load(x[1], kept, {y \in made : Before(y, x)}) < PairLimit
          /\ Load(x[2], kept, {y \in made : Before(y, x)}) < PairLimit
      BY <2>6 DEF Fits
    <3>3. QED
      BY <2>7, <3>1, <3>2, PairingAssumption
  <2>9. QED
    BY <2>3, <2>4, <2>8
<1>2. QED
  BY <1>1, SyncInvariant, FleetInvariant, PTL

\* The persona a SIM is given is one that no row of the table holds, be its SIM gone:
\* the unique constraints never refuse the commit of a sync unless another has
\* committed since it read the names.
THEOREM NamesDoNotClash == Spec => []NamesNeverClash
<1>1. SyncInv => NamesNeverClash
  <2>1. SUFFICES ASSUME SyncInv, NEW h \in Syncs, sync[h].pc = "writing", sync[h].fresh,
                        NEW s \in Unnamed(sync[h].seen, names),
                        \/ names[s] = 0 /\ names[s] # 0
                        \/ \E t \in Sims \ {s} : names[t] = Renamed(sync[h].seen, names)[s]
                 PROVE  FALSE
    <3>1. SUFFICES ASSUME SyncInv, NEW h \in Syncs, sync[h].pc = "writing", sync[h].fresh,
                          NamesClash(sync[h].seen, names)
                   PROVE  FALSE
      BY DEF SyncInv, Follows, NamesNeverClash
    <3>2. DOMAIN Renamed(sync[h].seen, names) = Unnamed(sync[h].seen, names)
      BY DEF Renamed
    <3>3. PICK s \in Unnamed(sync[h].seen, names) :
                 \/ names[s] = 0 /\ names[s] # 0
                 \/ \E t \in Sims \ {s} : names[t] = Renamed(sync[h].seen, names)[s]
      BY <3>1, <3>2 DEF NamesClash
    <3>4. QED
      BY <3>1, <3>3
  <2>2. PICK was, seen : was = names /\ seen = sync[h].seen
    OBVIOUS
  <2>3. was \in [Sims -> Int]
    BY <2>1, <2>2 DEF SyncInv
  <2>4. \A t \in Sims : was[t] # Renamed(seen, was)[s]
    BY <2>1, <2>2, <2>3, NameGiven
  <2>5. QED
    BY <2>1, <2>2, <2>4
<1>2. QED
  BY <1>1, SyncInvariant, PTL

=============================================================================
