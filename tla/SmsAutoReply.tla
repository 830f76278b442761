---------------------------- MODULE SmsAutoReply ----------------------------
(***************************************************************************)
(* The automatic answers to inbound SMS and unanswered calls: the job of   *)
(* each backend process against the rows of sms_reply they share.  A run   *)
(* reads the fleet, the contacts of its window, the refs already claimed   *)
(* and the recipients of the cooldown, one after the other, and then       *)
(* claims, sends and records one contact at a time; contacts arrive, time  *)
(* passes and the process can be lost between any two of these steps.  A   *)
(* list of TmLite is read in pages and can end early.                      *)
(***************************************************************************)
EXTENDS Naturals, FiniteSets, SequencesExt

CONSTANTS
  Processes,    \* backend processes: each has its own _run_lock
  Contacts,     \* ids of rows of TmLite's list_sms and list_calls
  Kind,         \* "sms", "missed" (ended unanswered) or "answered" (a conversation)
  People,       \* who sends the SMS and receives the calls
  Sims,         \* the people that are SIMs of the fleet
  Person,       \* Person[c]: the sender of an SMS, the callee of a call
  Number,       \* Number[c]: that person's number in the format of this row
  SimNumber,    \* SimNumber[s]: the number of a SIM of the fleet
  Short,        \* values too short or too alphabetic to be anyone's number
  HasSim,       \* contacts whose row leads to the SIM that handled them
  Lookback,     \* sms_autoreply_lookback_minutes
  Cooldown,     \* sms_autoreply_recipient_cooldown_hours
  MaxPerRun,    \* sms_autoreply_max_per_run
  PageSize,     \* rows of a full page, 100 in the code
  MaxPages,     \* pages read of a list, 10 in the code
  MaxReading,   \* bound: time from the start of a run to its last read
  MaxTime,      \* bound: the clock stops here
  Never         \* has not happened

ASSUME ContactsAssumption == Contacts \subseteq Nat
ASSUME PeopleAssumption   == /\ Sims \subseteq People
                             /\ Person \in [Contacts -> People]
ASSUME TimesAssumption    == {Lookback, Cooldown, MaxPerRun, MaxReading, MaxTime} \subseteq Nat
\* update_config refuses a window longer than the cooldown.
ASSUME WindowAssumption   == Lookback <= Cooldown
ASSUME PagesAssumption    == PageSize \in Nat \ {0} /\ MaxPages \in Nat
ASSUME NeverAssumption    == Never \notin Nat

VARIABLES
  now,      \* the clock
  at,       \* at[c]: when the SMS arrived or the call began
  undated,  \* SMS whose row has no usable received_at or created_at
  listed,   \* listed[s]: TmLite holds the number of s, not a stray short value
  reply,    \* reply[c]: status of the sms_reply row with this trigger_ref
  made,     \* made[c]: its created_at
  run,      \* run[p]: the run that holds p's lock
  texts,    \* texts[c]: history, how often a reply to c left a SIM
  unseen    \* history: contacts answered by a run that had not read their SIM

world == <<now, at, undated, listed>>
rows  == <<reply, made>>
hist  == <<texts, unseen>>
vars  == <<world, rows, run, hist>>

Replies == {"none", "sending", "sent", "failed", "skipped"}
Reading == {"sims", "contacts", "refs", "recent"}
RunPcs  == {"idle", "loop", "claimed", "sent", "failed"} \cup Reading

NoRun == [pc |-> "idle", begin |-> 0, fleet |-> {}, unread |-> {}, todo |-> {}, reach |-> {},
          on |-> Never, config |-> TRUE]

Init ==
  /\ now = 0
  /\ at = [c \in Contacts |-> Never]
  /\ undated = {}
  /\ listed \in [Sims -> BOOLEAN]
  /\ reply = [c \in Contacts |-> "none"]
  /\ made = [c \in Contacts |-> 0]
  /\ run = [p \in Processes |-> NoRun]
  /\ texts = [c \in Contacts |-> 0]
  /\ unseen = {}

-----------------------------------------------------------------------------
(* sms_auto_reply_rules: who gets an answer.                                *)

SameNumber(a, b) ==
  /\ a \notin Short /\ b \notin Short
  /\ IsSuffix(a, b) \/ IsSuffix(b, a)

IsFleetNumber(n, fleet) == \E owned \in fleet : SameNumber(n, owned)

\* TmLite names a SIM of the fleet in some format of that SIM's number.
ASSUME FleetAssumption ==
  \A c \in Contacts : Person[c] \in Sims => SameNumber(Number[c], SimNumber[Person[c]])

\* Rows are never equally old: ids break the tie.
Newer(c, d) == at[c] > at[d] \/ (at[c] = at[d] /\ c > d)

\* Mutant of InWindow: the newest page is taken as it is, without a cut-off.
InPage(p, c) == at[c] # Never

\* sms_is_older_than, which a row without a date never is.
IsOlder(p, c) == c \notin undated /\ at[c] + Lookback < run[p].begin

\* list_calls filters by date; _recent_sms reads the newest first up to the first row
\* that is older, with the undated ones among them however old.
InWindow(p, c) ==
  /\ at[c] # Never /\ ~IsOlder(p, c)
  /\ c \in undated => \A d \in Contacts :
       Kind[d] = "sms" /\ at[d] # Never /\ IsOlder(p, d) => Newer(c, d)

\* What a paged reading of S may return: all of it, or some full pages, when the next
\* one is no list or is beyond the last that is asked for.
Listed(S) ==
  {part \in SUBSET S : /\ Cardinality(part) <= MaxPages * PageSize
                       /\ part # S => Cardinality(part) % PageSize = 0}

\* A number that can be messaged and is not the fleet's.
Outside(p, c) == Number[c] \notin Short /\ ~IsFleetNumber(Number[c], run[p].fleet)

Messages(p) == {c \in Contacts : Kind[c] = "sms" /\ InWindow(p, c)}
Calls(p)    == {c \in Contacts : Kind[c] # "sms" /\ InWindow(p, c)}

SmsTriggers(p, messages) == {c \in messages : Outside(p, c)}

Unanswered(p, calls) == {c \in calls : Kind[c] = "missed" /\ Outside(p, c)}

MissedCallTrigger(p, calls) ==
  {c \in Unanswered(p, calls) : \A d \in Unanswered(p, calls) : ~Newer(d, c)}

\* Contacts for which whatsapp_for, or the call itself, names a caller.
Reachable(calls) ==
  {c \in Contacts : \/ Kind[c] = "missed"
                    \/ \E d \in calls : SameNumber(Number[c], Number[d])}

\* The order of the batch: SMS before the call, the newest first.
Before(c, d) ==
  \/ Kind[c] = "sms" /\ Kind[d] # "sms"
  \/ Kind[c] = Kind[d] /\ Newer(c, d)

OneRecipient(c, d) == SameNumber(Number[c], Number[d]) \/ Number[c] = Number[d]

MessagedRecently(c, recent) == \E n \in recent : SameNumber(Number[c], n)

\* One person, one message: a trigger is kept unless its recipient was messaged
\* recently or is the recipient of an earlier one that is kept.
IsKept(kept, triggers, recent) ==
  \A c \in triggers :
    c \in kept <=> /\ ~MessagedRecently(c, recent)
                  /\ ~ \E d \in kept : Before(d, c) /\ OneRecipient(d, c)

-----------------------------------------------------------------------------
(* SmsAutoReplyService: one run.                                            *)

\* The lock is free and the gates are open.  A preview holds the lock the same
\* way and ends, like a refused run, by RunEnds before its loop.
RunStart(p) ==
  /\ run[p].pc = "idle"
  /\ run' = [run EXCEPT ![p] = [NoRun EXCEPT !.pc = "sims", !.begin = now]]
  /\ UNCHANGED <<world, rows, hist>>

\* fleet_numbers of the SIMs that were read, those TmLite holds a number of.
FleetNumbers(part) == {SimNumber[s] : s \in {s \in part : listed[s]}}

\* Mutant of ListSims: one usable number is enough.
ListSomeSims(p) ==
  /\ run[p].pc = "sims"
  /\ \E part \in Listed(Sims) :
       /\ \E s \in part : listed[s]
       /\ run' = [run EXCEPT ![p].pc = "contacts",
                             ![p].fleet = FleetNumbers(part), ![p].unread = Sims \ part]
  /\ UNCHANGED <<world, rows, hist>>

\* _all_sims and the three stops: some SIM, some usable number, none unusable.
ListSims(p) ==
  /\ run[p].pc = "sims"
  /\ \E part \in Listed(Sims) :
       /\ part # {} /\ \A s \in part : listed[s]
       /\ run' = [run EXCEPT ![p].pc = "contacts",
                             ![p].fleet = FleetNumbers(part), ![p].unread = Sims \ part]
  /\ UNCHANGED <<world, rows, hist>>

\* list_sms, the newest first, and list_calls, and the triggers computed from both.
ListContacts(p) ==
  /\ run[p].pc = "contacts"
  /\ \E messages \in Listed(Messages(p)), calls \in Listed(Calls(p)) :
       /\ \A c \in messages, d \in Messages(p) \ messages : Newer(c, d)
       /\ run' = [run EXCEPT ![p].pc = "refs",
                    ![p].todo = SmsTriggers(p, messages) \cup MissedCallTrigger(p, calls),
                    ![p].reach = Reachable(calls) \cap HasSim]
  /\ UNCHANGED <<world, rows, hist>>

ReadRefs(p) ==
  /\ run[p].pc = "refs"
  /\ run' = [run EXCEPT ![p].pc = "recent",
                        ![p].todo = {c \in @ : reply[c] = "none"}]
  /\ UNCHANGED <<world, rows, hist>>

\* Mutant of RecentRecipients: only replies known to have left count.
SentRecipients ==
  {Number[c] : c \in {d \in Contacts : reply[d] = "sent" /\ made[d] + Cooldown >= now}}

RecentRecipients ==
  {Number[c] : c \in {d \in Contacts : reply[d] # "none" /\ made[d] + Cooldown >= now}}

ReadRecent(p) ==
  /\ run[p].pc = "recent"
  /\ \E kept \in SUBSET run[p].todo :
       /\ IsKept(kept, run[p].todo, RecentRecipients)
       /\ run' = [run EXCEPT ![p].pc = "loop",
                             ![p].todo = {c \in kept : Cardinality({d \in kept : Before(d, c)})
                                                         < MaxPerRun}]
  /\ UNCHANGED <<world, rows, hist>>

\* The loop comes to c.
Reaches(p, c) ==
  /\ run[p].pc = "loop" /\ c \in run[p].todo
  /\ \A d \in run[p].todo : ~Before(d, c)

\* _store: trigger_ref is unique.
Store(c, status) ==
  /\ reply[c] = "none"
  /\ reply' = [reply EXCEPT ![c] = status]
  /\ made' = [made EXCEPT ![c] = now]

\* No caller or no SIM: the contact is claimed and never sent.
Skip(p, c) ==
  /\ Reaches(p, c) /\ c \notin run[p].reach
  /\ Store(c, "skipped")
  /\ run' = [run EXCEPT ![p].todo = @ \ {c}]
  /\ UNCHANGED <<world, hist>>

\* Mutant of Claim: nothing is stored before the SMS has left.
ClaimNothing(p, c) ==
  /\ Reaches(p, c) /\ c \in run[p].reach /\ run[p].config
  /\ run' = [run EXCEPT ![p].pc = "claimed", ![p].todo = @ \ {c}, ![p].on = c]
  /\ UNCHANGED <<world, rows, hist>>

\* The row is committed as "sending" before the SMS leaves.  Its text is rendered from
\* the Config row, which raises, and so ends the run, once a rollback has expired it.
Claim(p, c) ==
  /\ Reaches(p, c) /\ c \in run[p].reach /\ run[p].config
  /\ Store(c, "sending")
  /\ run' = [run EXCEPT ![p].pc = "claimed", ![p].todo = @ \ {c}, ![p].on = c]
  /\ UNCHANGED <<world, hist>>

\* The commit raises, for the unique index or for the connection; in the second
\* case the row may have been stored all the same.  The rollback expires every object
\* of the session, the Config row too.
StoreFails(p, c) ==
  /\ Reaches(p, c) /\ (c \in run[p].reach => run[p].config)
  /\ \/ Store(c, IF c \in run[p].reach THEN "sending" ELSE "skipped")
     \/ UNCHANGED rows
  /\ run' = [run EXCEPT ![p].todo = @ \ {c}, ![p].config = FALSE]
  /\ UNCHANGED <<world, hist>>

\* send_sms returns, or raises with or without the message having left.
Send(p) ==
  /\ run[p].pc = "claimed"
  /\ \E left \in 0..1, outcome \in {"sent", "failed"} :
       /\ outcome = "sent" => left = 1
       /\ texts' = [texts EXCEPT ![run[p].on] = @ + left]
       /\ unseen' = unseen \cup {c \in Contacts : /\ left = 1 /\ c = run[p].on
                                                 /\ Person[c] \in run[p].unread}
       /\ run' = [run EXCEPT ![p].pc = outcome]
  /\ UNCHANGED <<world, rows>>

\* _record_outcome: an update whose failure costs the record, and rolls back.
RecordOutcome(p) ==
  /\ run[p].pc \in {"sent", "failed"}
  /\ \E raised \in BOOLEAN :
       /\ \/ reply' = [reply EXCEPT ![run[p].on] = run[p].pc]
          \/ raised /\ UNCHANGED reply
       /\ run' = [run EXCEPT ![p].pc = "loop", ![p].on = Never, ![p].config = ~raised]
  /\ UNCHANGED <<world, made, hist>>

\* The run is over, is refused, raises outside its guards, or its process dies.
RunEnds(p) ==
  /\ run[p].pc # "idle"
  /\ run' = [run EXCEPT ![p] = NoRun]
  /\ UNCHANGED <<world, rows, hist>>

-----------------------------------------------------------------------------
(* TmLite and the clock.                                                    *)

\* An SMS arrives, with a date or without, or a call ends.
Contact(c) ==
  /\ at[c] = Never
  /\ at' = [at EXCEPT ![c] = now]
  /\ \/ undated' = undated
     \/ Kind[c] = "sms" /\ undated' = undated \cup {c}
  /\ UNCHANGED <<now, listed, rows, run, hist>>

\* The number of a SIM is damaged or repaired in TmLite.  The inventory itself is
\* fixed, and SIMs without any number never send, so they are left out.
EditSim(s) ==
  /\ listed' = [listed EXCEPT ![s] = ~@]
  /\ UNCHANGED <<now, at, undated, rows, run, hist>>

Tick ==
  /\ now < MaxTime
  /\ \A p \in Processes : run[p].pc \in Reading => now < run[p].begin + MaxReading
  /\ now' = now + 1
  /\ UNCHANGED <<at, undated, listed, rows, run, hist>>

RunNext(p) ==
  \/ RunStart(p) \/ ListSims(p) \/ ListContacts(p) \/ ReadRefs(p) \/ ReadRecent(p)
  \/ \E c \in Contacts : Skip(p, c) \/ Claim(p, c) \/ StoreFails(p, c)
  \/ Send(p) \/ RecordOutcome(p) \/ RunEnds(p)

Next ==
  \/ \E p \in Processes : RunNext(p)
  \/ \E c \in Contacts : Contact(c)
  \/ \E s \in Sims : EditSim(s)
  \/ Tick

Spec == Init /\ [][Next]_vars

-----------------------------------------------------------------------------
(* Properties.                                                              *)

Run == [pc : RunPcs, begin : Nat, fleet : SUBSET {SimNumber[s] : s \in Sims},
        unread : SUBSET Sims, todo : SUBSET Contacts, reach : SUBSET Contacts, on : Contacts \cup {Never},
        config : BOOLEAN]

\* Types of the rows, the runs and the history.
TypeOK ==
  /\ now \in Nat
  /\ at \in [Contacts -> Nat \cup {Never}]
  /\ undated \subseteq Contacts
  /\ listed \in [Sims -> BOOLEAN]
  /\ reply \in [Contacts -> Replies]
  /\ made \in [Contacts -> Nat]
  /\ run \in [Processes -> Run]
  /\ texts \in [Contacts -> Nat]
  /\ unseen \subseteq Contacts

\* However many processes run, and wherever they are lost, a contact is answered at
\* most once (the claim of _store before send_sms); what has left has a row that
\* still holds its trigger_ref, and a row that says "sent" is true.
AnsweredOnce ==
  \A c \in Contacts :
    /\ texts[c] <= 1
    /\ texts[c] = 1 => reply[c] \in {"sending", "sent", "failed"}
    /\ reply[c] = "sent" => texts[c] = 1

\* The fleet's own SIMs are not answered, while operators damage and repair their numbers
\* in TmLite (the three stops of _run), but by a run whose reading of the fleet ended
\* before that SIM (_all_sims breaks silently on a page that is no list).
FleetNeverAnswered ==
  \A c \in Contacts : texts[c] > 0 /\ Person[c] \in Sims => c \in unseen

\* Two texts to one person are claimed more than a cooldown apart, lost outcomes and
\* failed sends included (drop_recent_recipients and the claim of _store).
CooldownKept ==
  \A c, d \in Contacts :
    /\ c # d /\ Person[c] = Person[d]
    /\ texts[c] > 0 /\ texts[d] > 0
    => made[c] + Cooldown < made[d] \/ made[d] + Cooldown < made[c]

\* A burst costs its sender one reply, up to the time a run takes to read: what a later
\* reply answers was received at the earliest MaxReading + Lookback - Cooldown before the
\* reply that went before, which is before it only when the window comes that close to the
\* cooldown (update_config accepts equal ones).  A row without a date is in every window.
BurstAnsweredOnce ==
  \A c, d \in Contacts :
    /\ Person[c] = Person[d] /\ made[c] < made[d] /\ d \notin undated
    /\ texts[c] > 0 /\ texts[d] > 0
    => at[d] + Lookback + MaxReading > made[c] + Cooldown

\* What _store and _record_outcome say of their guards: bookkeeping that fails costs
\* its own contact only, the loop can still claim the next one it may answer.
FailureCostsItself ==
  \A p \in Processes, c \in Contacts :
    Reaches(p, c) /\ c \in run[p].reach /\ reply[c] = "none" => ENABLED Claim(p, c)

=============================================================================
