-------------------------- MODULE PairConversation --------------------------
(***************************************************************************)
(* services/sim_pair_conversation_service.py: the run that queues the next  *)
(* message of every active pair and sends those that are due.  Each text    *)
(* leaves before the commit that records it.  One backend process, whose    *)
(* lock keeps runs apart; a sync may commit between any two steps.          *)
(***************************************************************************)
EXTENDS SimPairing, QuietHours

CONSTANTS
  Quiet,         \* the quiet hours of Config
  Interval,      \* pairing_conversation_interval_minutes, in ticks
  Jitter,        \* what the spread may add to it
  Cooldown,      \* pairing_sim_cooldown_minutes; 0 disables the rule
  RetryDelay,    \* RETRY_DELAY_MINUTES
  BatchSize,     \* pairing_max_messages_per_run
  Overfetch,     \* OVERFETCH
  Target,        \* target_messages of every pair
  MaxAttempts,   \* attempts of a row, 3 in the code
  MaxRows        \* bound: rows of the queue per pair

ASSUME ConversationAssumption ==
  /\ Quiet \in Window
  /\ {Interval, Cooldown, RetryDelay, Target, MaxRows} \subseteq Nat
  /\ Jitter \subseteq Nat
  /\ {BatchSize, Overfetch, MaxAttempts} \subseteq Nat \ {0}

VARIABLES
  talk           \* the run that holds _run_lock

NoTalk == [pc |-> "idle", pairs |-> {}, todo |-> <<>>]

-----------------------------------------------------------------------------
(* What a run reads. *)

\* Mutant of NextSender: the last speaker goes on.
SameSender(p) ==
  IF msgs[p] # <<>> /\ msgs[p][Len(msgs[p])].from = pair[p].b
  THEN pair[p].b ELSE pair[p].a

\* _latest_sent_message and _next_direction.
NextSender(p) ==
  IF msgs[p] # <<>> /\ msgs[p][Len(msgs[p])].from = pair[p].a
  THEN pair[p].b ELSE pair[p].a

ItemOf(r) ==
  LET from == NextSender(r[1])
  IN [pair |-> r[1], row |-> r[2], from |-> from,
      to |-> IF from = pair[r[1]].a THEN pair[r[1]].b ELSE pair[r[1]].a]

\* _last_activity_by_sim: the messages a SIM sent or received.
Activity(s) ==
  UNION {{msgs[p][i].at : i \in DOMAIN msgs[p]} : p \in {q \in PairIds : s \in Members(q)}}

\* Mutant of DueRows: rows of archived pairs too.
DueRowsAny == {r \in Pending : queue[r[1]][r[2]].due <= clock}

\* The rows and the order of _due_candidates: pairs below their target first,
\* then by due time.  Of rows that tie any may come first.
DueRows == {r \in Pending : /\ queue[r[1]][r[2]].due <= clock
                            /\ pair[r[1]].status = "active"}
Rank(r) == <<IF pair[r[1]].sent >= Target THEN 1 ELSE 0, queue[r[1]][r[2]].due>>

\* The list of candidates, cut at its limit.
IsCandidates(c) ==
  /\ \A i, j \in DOMAIN c : i < j => c[i] # c[j] /\ ~Before(Rank(c[j]), Rank(c[i]))
  /\ \A r \in DueRows, i \in DOMAIN c : Before(Rank(r), Rank(c[i])) =>
       \E j \in DOMAIN c : r = c[j]

IsSendable(s)   == sims[s].state = "IDLE"
\* Mutant of IsCooledDown: one tick early.
IsAlmostCooledDown(s) == \A at \in Activity(s) : clock - at + 1 >= Cooldown

IsCooledDown(s) == \A at \in Activity(s) : clock - at >= Cooldown

(* The loop of _select_batch over the candidates c: the chosen positions, and  *)
(* those that a SIM which is not IDLE defers.                                  *)
Both(i, c)      == {ItemOf(c[i]).from, ItemOf(c[i]).to}
Room(i, chosen) == Cardinality({j \in chosen : j < i}) < BatchSize

IsChosen(chosen, c) ==
  chosen = {i \in DOMAIN c : /\ Room(i, chosen)
                             /\ \A s \in Both(i, c) : IsSendable(s) /\ IsCooledDown(s)
                             /\ \A j \in chosen : j < i => Both(j, c) \cap Both(i, c) = {}}

Deferred(chosen, c) ==
  {c[i] : i \in {j \in DOMAIN c : /\ Room(j, chosen)
                                  /\ \E s \in Both(j, c) : ~IsSendable(s)}}

-----------------------------------------------------------------------------
(* _run_due *)

\* Up to the query of the active pairs.  A preview stops here.
TalkStart ==
  /\ talk.pc = "idle"
  /\ Active # {}
  /\ talk' = [NoTalk EXCEPT !.pc = "queueing", !.pairs = Active]
  /\ UNCHANGED pairingVars

\* _enqueue_pairs: one row for every pair without a pending one.
DueTimes(p) ==
  UNION {ShiftOutOfQuiet(t, Quiet) :
           t \in IF msgs[p] = <<>> THEN {clock}
                 ELSE {msgs[p][Len(msgs[p])].at + Interval + j : j \in Jitter}}

\* Mutant of Enqueued: a pair may have a pending row already.
EnqueuedAgain == talk.pairs

Enqueued == {p \in talk.pairs : \A r \in Pending : r[1] # p}

TalkEnqueue ==
  /\ talk.pc = "queueing"
  /\ \A p \in Enqueued : Len(queue[p]) < MaxRows                 \* the bound
  /\ \E due \in [Enqueued -> UNION {DueTimes(p) : p \in Enqueued}] :
       /\ \A p \in Enqueued : due[p] \in DueTimes(p)
       /\ queue' = [p \in PairIds |->
            IF p \in Enqueued
            THEN Append(queue[p], [status |-> "pending", due |-> due[p], attempts |-> 0])
            ELSE queue[p]]
  /\ talk' = [talk EXCEPT !.pc = "choosing"]
  /\ UNCHANGED <<clock, sims, names, pair, msgs, sync, synced, late>>

\* _retry_at: when something not sent is tried again.
RetryTimes == ShiftOutOfQuiet(clock + RetryDelay, Quiet)

\* Outside quiet hours: the candidates, the inventory, the last activity, the
\* batch, and the commit that postpones what was deferred.
TalkChoose ==
  /\ talk.pc = "choosing"
  /\ ~IsQuiet(clock, Quiet)
  /\ \E c \in [1 .. AtMost(Cardinality(DueRows), BatchSize * Overfetch) -> DueRows] :
       /\ IsCandidates(c)
       /\ \E chosen \in SUBSET DOMAIN c :
            /\ IsChosen(chosen, c)
            /\ \E due \in [Deferred(chosen, c) -> RetryTimes] :
                 queue' = [p \in PairIds |-> [i \in 1 .. Len(queue[p]) |->
                             IF <<p, i>> \in Deferred(chosen, c)
                             THEN [queue[p][i] EXCEPT !.due = due[<<p, i>>]]
                             ELSE queue[p][i]]]
            /\ LET todo == [k \in 1 .. Cardinality(chosen) |->
                              ItemOf(c[CHOOSE i \in chosen :
                                         Cardinality({j \in chosen : j <= i}) = k])]
               IN talk' = IF chosen = {} THEN NoTalk
                          ELSE [talk EXCEPT !.pc = "sending", !.todo = todo]
  /\ UNCHANGED <<clock, sims, names, pair, msgs, sync, synced, late>>

\* The text is generated and leaves.
TalkSend ==
  /\ talk.pc = "sending"
  /\ talk' = [talk EXCEPT !.pc = "sent"]
  /\ UNCHANGED pairingVars

\* The run after its first item.
Onward == IF Len(talk.todo) = 1 THEN NoTalk
          ELSE [talk EXCEPT !.pc = "sending", !.todo = Tail(@)]

\* A sync that has updated a row and not yet committed holds its lock.
Unlocked(p, i) == \A h \in Syncs : <<p, i>> \notin sync[h].heal

\* The one commit after the send: message, row and count.
TalkRecord ==
  LET it == Head(talk.todo) IN
  /\ talk.pc = "sent"
  /\ Unlocked(it.pair, it.row) /\ \A h \in Syncs : it.pair \notin sync[h].drop
  /\ queue' = [queue EXCEPT ![it.pair][it.row].status = "sent"]
  /\ pair' = [pair EXCEPT ![it.pair].sent = @ + 1]
  /\ msgs' = [msgs EXCEPT ![it.pair] = Append(@, [from |-> it.from, at |-> clock])]
  /\ talk' = Onward
  /\ UNCHANGED <<clock, sims, names, sync, synced, late>>

\* The generation or the send raised, the latter with or without the text having
\* left: an attempt is counted, and only the third is the last.
TalkFail ==
  LET it  == Head(talk.todo)
      row == queue[it.pair][it.row]
  IN /\ talk.pc \in {"sending", "sent"}
     /\ Unlocked(it.pair, it.row)
     /\ \E due \in RetryTimes :
          queue' = [queue EXCEPT ![it.pair][it.row] =
            IF row.attempts + 1 >= MaxAttempts
            THEN [row EXCEPT !.attempts = @ + 1, !.status = "failed"]
            ELSE [row EXCEPT !.attempts = @ + 1, !.due = due]]
     /\ talk' = Onward
     /\ UNCHANGED <<clock, sims, names, pair, msgs, sync, synced, late>>

\* The run is over early: quiet hours, no server, a commit that fails, or the
\* process is lost.  Nothing tells of a text that has just left.
TalkStop ==
  /\ talk.pc # "idle"
  /\ talk' = NoTalk
  /\ UNCHANGED pairingVars

TalkInit == talk = NoTalk

TalkNext ==
  \/ TalkStart \/ TalkEnqueue \/ TalkChoose \/ TalkSend
  \/ TalkRecord \/ TalkFail \/ TalkStop

-----------------------------------------------------------------------------
(* Properties. *)

\* One message at a time is planned for a pair, whatever runs were cut short.
OnePendingPerPair == \A r, q \in Pending : r[1] = q[1] => r = q

\* The two SIMs of a pair speak in turn, failed attempts and lost runs between.
Alternates ==
  \A p \in PairIds : \A i \in 1 .. Len(msgs[p]) :
    msgs[p][i].from = IF i % 2 = 1 THEN pair[p].a ELSE pair[p].b

\* Recorded messages of one SIM, in any of its pairs, are a cooldown apart.
PairCooldownKept ==
  \A p, q \in PairIds : \A i \in DOMAIN msgs[p], j \in DOMAIN msgs[q] :
    \/ <<p, i>> = <<q, j>>
    \/ Members(p) \cap Members(q) = {}
    \/ msgs[p][i].at - msgs[q][j].at >= Cooldown
    \/ msgs[q][j].at - msgs[p][i].at >= Cooldown

\* A text leaves only for a pair that was active when its run began: what an earlier
\* run queued while a sync archived the pair is no item of a later one.  A sync that
\* commits after the batch is chosen does not stop the text.
NoTextForArchived == talk.pc = "sending" => Head(talk.todo).pair \in talk.pairs

\* A first message queued in quiet hours of any window, shift_out_of_quiet moves past
\* their first end and by no more than the spread past it, whichever way the window
\* lies across midnight; it is quiet again there only if the fleet is awake for no
\* longer than the spread.
WakesWhenTheyEnd ==
  talk.pc = "queueing" =>
    \A w \in Window : IsQuiet(clock, w) =>
      \A t \in ShiftOutOfQuiet(clock, w) :
        /\ \E u \in t - WakeSpread .. t : /\ clock < u /\ ~IsQuiet(u, w)
                                         /\ \A v \in clock .. u - 1 : IsQuiet(v, w)
        /\ IsQuiet(t, w) => AwakeLength(w) <= WakeSpread

=============================================================================
