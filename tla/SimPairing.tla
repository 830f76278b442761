----------------------------- MODULE SimPairing -----------------------------
(***************************************************************************)
(* Which SIMs form pairs (services/sim_pairing_service.py), their persona   *)
(* names, and the purge of archived pairs (sim_pairing_retention.py).  A    *)
(* sync reads the SIMs from TmLite and the pairs from the database, and     *)
(* commits what follows from both later; nothing keeps the job and requests *)
(* that sync apart.  It also cancels rows of the message queue, which       *)
(* PairConversation fills.                                                  *)
(***************************************************************************)
EXTENDS Integers, FiniteSets, Sequences

CONSTANTS
  Sims,          \* the ids of SIMs; sync walks them in their order
  Views,         \* what TmLite may say of each SIM: sets of SimView
  CountryOf,     \* the country of each gateway
  Labelled,      \* SIMs that an older installation named "SIM 894"
  MaxPairs,      \* bound: rows of sim_pair
  PairLimit,     \* pairs per SIM, 3 in the code
  Syncs,         \* callers of sync(): the job, API requests
  Jobs,          \* those that purge afterwards
  Retention,     \* pairing_archive_retention_days, in ticks; 0 keeps everything
  PurgeBatch,    \* PURGE_BATCH_SIZE
  MaxTime        \* bound of the clock

SimView == [state : {"IDLE", "BUSY", "OFFLINE", "ABSENT"}, tracked : BOOLEAN,
            gateway : DOMAIN CountryOf]

ASSUME PairingAssumption ==
  /\ Sims \subseteq Nat \ {0} /\ IsFiniteSet(Sims) /\ Labelled \subseteq Sims
  /\ \A s \in Sims : Views[s] \subseteq SimView /\ Views[s] # {}
  /\ MaxPairs \in Nat /\ PairLimit \in Nat \ {0}
  /\ Jobs \subseteq Syncs
  /\ Retention \in Nat /\ MaxTime \in Nat /\ PurgeBatch \in Nat \ {0}

PairIds == 1 .. MaxPairs

VARIABLES
  clock,         \* the time
  sims,          \* TmLite's inventory
  names,         \* sim_pairing_sim.display_name: 0 no row, < 0 a machine label
  pair,          \* rows of sim_pair
  queue,         \* rows of sim_pair_message_queue, per pair, in order of creation
  msgs,          \* rows of sim_pair_message in status "sent", per pair
  sync,          \* sync() of each caller, between its reads and its commit
  synced,        \* history: what the last sync to commit had seen of the SIMs, unless
                 \* another had overtaken it
  late           \* history: the pairs made by syncs that another had overtaken

pairingVars == <<clock, sims, names, pair, queue, msgs, sync, synced, late>>

-----------------------------------------------------------------------------
(* The rows. *)

NoPair == [status |-> "none", a |-> 0, b |-> 0, sent |-> 0, since |-> 0]

Active     == {p \in PairIds : pair[p].status = "active"}
Members(p) == {pair[p].a, pair[p].b}
Rows       == UNION {{<<p, i>> : i \in 1 .. Len(queue[p])} : p \in PairIds}
Pending    == {r \in Rows : queue[r[1]][r[2]].status = "pending"}

(* What a sync concludes from the inventory it has seen.  A SIM is kept when  *)
(* TmLite lists it in a tracked group behind a gateway of a known country,    *)
(* and not in a durable bad state, for which OFFLINE stands.                  *)
KeptAlive(seen) == {s \in Sims : /\ seen[s].tracked
                                 /\ seen[s].state \notin {"OFFLINE", "ABSENT"}}
Creatable(seen) == {s \in KeptAlive(seen) : seen[s].state = "IDLE"}
Country(seen, s) == CountryOf[seen[s].gateway]

Survives(seen, p) ==
  /\ Members(p) \subseteq KeptAlive(seen)
  /\ Country(seen, pair[p].a) = Country(seen, pair[p].b)

Pairable(seen, a, b) ==
  /\ seen[a].gateway # seen[b].gateway
  /\ Country(seen, a) = Country(seen, b)

Before(x, y) == x[1] < y[1] \/ (x[1] = y[1] /\ x[2] < y[2])

Load(s, kept, made) ==
  Cardinality({p \in kept : s \in Members(p)})
    + Cardinality({x \in made : s \in {x[1], x[2]}})

Couples(seen) ==
  {x \in Creatable(seen) \X Creatable(seen) : x[1] < x[2] /\ Pairable(seen, x[1], x[2])}

\* Mutant of IsCreated: the pairs a SIM is in already do not count.
IsCreatedAnew(made, seen, kept) ==
  made = {x \in Couples(seen) :
            LET earlier == {y \in made : Before(y, x)}
            IN /\ Load(x[1], {}, earlier) < PairLimit
               /\ Load(x[2], {}, earlier) < PairLimit
               /\ \A p \in kept : Members(p) # {x[1], x[2]}}

\* Mutant of IsCreated: pairs made in this sync do not count.
IsCreatedOver(made, seen, kept) ==
  made = {x \in Couples(seen) :
            /\ Load(x[1], kept, {}) < PairLimit /\ Load(x[2], kept, {}) < PairLimit
            /\ \A p \in kept : Members(p) # {x[1], x[2]}}

\* The nested loop over the creatable SIMs: a couple is made a pair when the
\* surviving pairs and those made before it leave room for both of its SIMs.
IsCreated(made, seen, kept) ==
  made = {x \in Couples(seen) :
            LET earlier == {y \in made : Before(y, x)}
            IN /\ Load(x[1], kept, earlier) < PairLimit
               /\ Load(x[2], kept, earlier) < PairLimit
               /\ \A p \in kept : Members(p) # {x[1], x[2]}}

(* _ensure_sim_names, given the names it read: every kept SIM without a       *)
(* persona takes, in order, the first name that no row of the table holds.    *)
Unnamed(seen, was) == {s \in KeptAlive(seen) : was[s] <= 0}

NthFree(k, held) ==
  LET free == (1 .. Cardinality(Sims) + k) \ held
  IN CHOOSE n \in free : Cardinality({m \in free : m <= n}) = k

\* Mutant of Renamed: only the names of SIMs that are kept count as taken.
RenamedAmongKept(seen, was) ==
  [s \in Unnamed(seen, was) |->
     NthFree(Cardinality({t \in Unnamed(seen, was) : t <= s}),
             {was[t] : t \in KeptAlive(seen)})]

Renamed(seen, was) ==
  [s \in Unnamed(seen, was) |->
     NthFree(Cardinality({t \in Unnamed(seen, was) : t <= s}), {was[t] : t \in Sims})]

\* The unique constraints of sim_pairing_sim, met by a concurrent sync.
NamesClash(seen, was) ==
  LET given == Renamed(seen, was)
  IN \E s \in DOMAIN given : \/ was[s] = 0 /\ names[s] # 0
                             \/ \E t \in Sims \ {s} : names[t] = given[s]

-----------------------------------------------------------------------------
(* sync() *)

\* fresh: no other sync has committed since this one read.
NoSync == [pc |-> "idle", seen |-> <<>>, was |-> <<>>, drop |-> {},
           make |-> {}, heal |-> {}, fresh |-> FALSE]

\* sync() up to its last read: list_sims, the names, the active pairs, and the
\* UPDATE that cancels the pending rows of archived pairs.
SyncRead(h) ==
  /\ sync[h].pc = "idle"
  /\ \E made \in SUBSET Couples(sims) :
       LET drop == {p \in Active : ~Survives(sims, p)}
           dead == drop \cup {p \in PairIds : pair[p].status = "archived"}
       IN /\ IsCreated(made, sims, Active \ drop)
          /\ sync' = [sync EXCEPT ![h] =
               [pc |-> "writing", seen |-> sims, was |-> names, drop |-> drop,
                make |-> made, heal |-> {r \in Pending : r[1] \in dead}, fresh |-> TRUE]]
  /\ UNCHANGED <<clock, sims, names, pair, queue, msgs, synced, late>>

\* What comes after a sync that succeeds: the scheduled job goes on to the purge.
Done(h) == IF h \in Jobs THEN [NoSync EXCEPT !.pc = "purging"] ELSE NoSync

\* No group is enabled or there is no topic: a success that changes nothing.
SyncSkip(h) ==
  /\ sync[h].pc = "idle"
  /\ sync' = [sync EXCEPT ![h] = Done(h)]
  /\ UNCHANGED <<clock, sims, names, pair, queue, msgs, synced, late>>

\* New rows take the next ids, in the order of the loop.
RowOf(x, made) ==
  Cardinality({p \in PairIds : pair[p].status # "none"})
    + Cardinality({y \in made : y = x \/ Before(y, x)})

\* The commit in _finish.  Two syncs that archive the same pair may commit in either
\* order here; the locks of its row allow one.
SyncCommit(h) ==
  LET me == sync[h] IN
  /\ me.pc = "writing"
  /\ ~NamesClash(me.seen, me.was)
  /\ \A p \in me.drop : pair[p].status # "purged"              \* else no row to update
  /\ \A x \in me.make : RowOf(x, me.make) \in PairIds          \* the bound
  /\ pair' = [p \in PairIds |->
       IF p \in me.drop
       THEN [pair[p] EXCEPT !.status = "archived", !.since = clock]
       ELSE IF \E x \in me.make : RowOf(x, me.make) = p
       THEN LET x == CHOOSE y \in me.make : RowOf(y, me.make) = p
            IN [NoPair EXCEPT !.status = "active", !.a = x[1], !.b = x[2]]
       ELSE pair[p]]
  /\ queue' = [p \in PairIds |-> [i \in 1 .. Len(queue[p]) |->
       IF <<p, i>> \in me.heal THEN [queue[p][i] EXCEPT !.status = "cancelled"]
                               ELSE queue[p][i]]]
  /\ names' = [s \in Sims |-> IF s \in Unnamed(me.seen, me.was)
                              THEN Renamed(me.seen, me.was)[s] ELSE names[s]]
  /\ synced' = IF me.fresh THEN me.seen ELSE <<>>
  /\ late' = IF me.fresh THEN late ELSE late \cup {RowOf(x, me.make) : x \in me.make}
  /\ sync' = [g \in Syncs |-> IF g = h THEN Done(h) ELSE [sync[g] EXCEPT !.fresh = FALSE]]
  /\ UNCHANGED <<clock, sims, msgs>>

\* An exception anywhere, a unique constraint among others, or the process lost:
\* everything is rolled back.
SyncFail(h) ==
  /\ sync[h].pc = "writing"
  /\ sync' = [sync EXCEPT ![h] = NoSync]
  /\ UNCHANGED <<clock, sims, names, pair, queue, msgs, synced, late>>

\* The pairs archived long ago.
Expired == {p \in PairIds : /\ Retention > 0
                            /\ pair[p].status = "archived" /\ clock - pair[p].since > Retention}

AtMost(n, m) == IF n <= m THEN n ELSE m

\* purge_archived_pairs: a batch of them, the oldest first, with their messages and
\* rows.
Purge(h) ==
  /\ sync[h].pc = "purging"
  /\ \E old \in SUBSET Expired :
       /\ Cardinality(old) = AtMost(Cardinality(Expired), PurgeBatch)
       /\ \A p \in old, q \in Expired \ old : pair[p].since <= pair[q].since
       /\ pair'  = [p \in PairIds |-> IF p \in old THEN [NoPair EXCEPT !.status = "purged"]
                                                   ELSE pair[p]]
       /\ queue' = [p \in PairIds |-> IF p \in old THEN <<>> ELSE queue[p]]
       /\ msgs'  = [p \in PairIds |-> IF p \in old THEN <<>> ELSE msgs[p]]
  /\ sync' = [sync EXCEPT ![h] = NoSync]
  /\ UNCHANGED <<clock, sims, names, synced, late>>

\* The purge raises, or the process is lost: nothing is deleted.
PurgeFail(h) ==
  /\ sync[h].pc = "purging"
  /\ sync' = [sync EXCEPT ![h] = NoSync]
  /\ UNCHANGED <<clock, sims, names, pair, queue, msgs, synced, late>>

-----------------------------------------------------------------------------
(* The rest of the world. *)

\* TmLite: a SIM goes busy or idle, offline, out of its group, to a gateway.
EditSim(s) ==
  /\ \E v \in Views[s] \ {sims[s]} : sims' = [sims EXCEPT ![s] = v]
  /\ UNCHANGED <<clock, names, pair, queue, msgs, sync, synced, late>>

Tick ==
  /\ clock < MaxTime
  /\ clock' = clock + 1
  /\ UNCHANGED <<sims, names, pair, queue, msgs, sync, synced, late>>

PairingInit ==
  /\ clock = 0
  /\ sims \in [Sims -> UNION {Views[s] : s \in Sims}]
  /\ \A s \in Sims : sims[s] \in Views[s]
  /\ names = [s \in Sims |-> IF s \in Labelled THEN -s ELSE 0]
  /\ pair = [p \in PairIds |-> NoPair]
  /\ queue = [p \in PairIds |-> <<>>]
  /\ msgs = [p \in PairIds |-> <<>>]
  /\ sync = [h \in Syncs |-> NoSync]
  /\ synced = <<>>
  /\ late = {}

SyncStep(h) ==
  \/ SyncRead(h) \/ SyncSkip(h) \/ SyncCommit(h) \/ SyncFail(h)
  \/ Purge(h) \/ PurgeFail(h)

PairingNext ==
  \/ \E h \in Syncs : SyncStep(h)
  \/ \E s \in Sims : EditSim(s)
  \/ Tick

-----------------------------------------------------------------------------
(* Properties. *)

\* However SIMs come, go, move and are busy between syncs, no two active pairs join
\* the same SIMs and no SIM is in more pairs than the limit, but for pairs made by a
\* sync that another had overtaken: each counts the pairs it has read.  What such a
\* sync leaves behind counts in every later one.
PairsWellFormed ==
  /\ \A p, q \in Active : Members(p) = Members(q) => p = q \/ {p, q} \cap late # {}
  /\ \A s \in Sims : Cardinality({p \in Active \ late : s \in Members(p)}) <= PairLimit

\* A sync that sees the SIMs as the last one did has nothing to archive and
\* nothing to create, whatever was sent, purged or failed in between and whatever
\* syncs had overlapped before.
SyncIdempotent ==
  \A h \in Syncs : sync[h].pc = "writing" /\ sync[h].fresh /\ sync[h].seen = synced
                     => sync[h].make = {} /\ sync[h].drop = {}

\* A sync gives no name that another SIM holds, be that SIM gone, unless another sync
\* commits after it has read the names: its commit would die on the unique
\* constraint, and so would every sync after it.
NamesNeverClash ==
  \A h \in Syncs : sync[h].pc = "writing" /\ sync[h].fresh
                     => ~NamesClash(sync[h].seen, sync[h].was)

=============================================================================
