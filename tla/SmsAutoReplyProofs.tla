------------------------- MODULE SmsAutoReplyProofs -------------------------
(***************************************************************************)
(* Theorems of SmsAutoReply, for every number of backend processes, every  *)
(* fleet, every set of contacts and every window and cooldown.             *)
(***************************************************************************)
EXTENDS SmsAutoReply, TLAPS

-----------------------------------------------------------------------------
(* Type correctness.                                                        *)

LEMMA InitType == Init => TypeOK
BY NeverAssumption DEF Init, TypeOK, NoRun, Run, RunPcs, Reading, Replies

LEMMA RunUpdate ==
  ASSUME run \in [Processes -> Run], NEW p \in Processes, NEW pc \in RunPcs,
         NEW todo \in SUBSET Contacts, NEW on \in Contacts \cup {Never}, NEW config \in BOOLEAN
  PROVE  /\ [run EXCEPT ![p].pc = pc] \in [Processes -> Run]
         /\ [run EXCEPT ![p].todo = todo] \in [Processes -> Run]
         /\ [run EXCEPT ![p].pc = pc, ![p].todo = todo] \in [Processes -> Run]
         /\ [run EXCEPT ![p].todo = todo, ![p].config = config] \in [Processes -> Run]
         /\ [run EXCEPT ![p].pc = pc, ![p].on = on, ![p].config = config] \in [Processes -> Run]
         /\ [run EXCEPT ![p].pc = pc, ![p].todo = todo, ![p].on = on] \in [Processes -> Run]
<1>1. run[p] \in Run
  OBVIOUS
<1>2. [run EXCEPT ![p].pc = pc] \in [Processes -> Run]
  BY <1>1 DEF Run
<1>3. [run EXCEPT ![p].todo = todo] \in [Processes -> Run]
  BY <1>1 DEF Run
<1>4. [run EXCEPT ![p].pc = pc, ![p].todo = todo] \in [Processes -> Run]
  BY <1>1 DEF Run
<1>5. [run EXCEPT ![p].pc = pc, ![p].on = on, ![p].config = config] \in [Processes -> Run]
  BY <1>1 DEF Run
<1>8. [run EXCEPT ![p].todo = todo, ![p].config = config] \in [Processes -> Run]
  BY <1>1 DEF Run
<1>6. [run EXCEPT ![p].pc = pc, ![p].todo = todo, ![p].on = on] \in [Processes -> Run]
  BY <1>1 DEF Run
<1>7. QED
  BY <1>2, <1>3, <1>4, <1>5, <1>6, <1>8

\* What list_sims has told a run that goes on.
LEMMA Inventory ==
  ASSUME TypeOK, NEW p \in Processes, ListSims(p)
  PROVE  \E part \in SUBSET Sims :
           /\ \A s \in part : listed[s]
           /\ FleetNumbers(part) \in SUBSET {SimNumber[s] : s \in Sims}
           /\ run' = [run EXCEPT ![p].pc = "contacts", ![p].fleet = FleetNumbers(part),
                                 ![p].unread = Sims \ part]
<1>1. PICK part \in Listed(Sims) :
        /\ \A s \in part : listed[s]
        /\ run' = [run EXCEPT ![p].pc = "contacts", ![p].fleet = FleetNumbers(part),
                              ![p].unread = Sims \ part]
  BY DEF ListSims
<1>2. part \in SUBSET Sims
  BY DEF Listed
<1>3. FleetNumbers(part) \in SUBSET {SimNumber[s] : s \in Sims}
  BY <1>2 DEF FleetNumbers
<1>4. QED
  BY <1>1, <1>2, <1>3

\* What list_sms and list_calls have told a run: contacts of its window, of people that
\* are not of the fleet it has read.
LEMMA Triggers ==
  ASSUME TypeOK, NEW p \in Processes, ListContacts(p)
  PROVE  \E todo \in SUBSET Contacts, reach \in SUBSET Contacts :
           /\ run' = [run EXCEPT ![p].pc = "refs", ![p].todo = todo, ![p].reach = reach]
           /\ \A c \in todo : /\ at[c] \in Nat /\ Kind[c] \in {"sms", "missed"}
                              /\ Outside(p, c) /\ ~IsOlder(p, c)
<1>1. PICK messages \in Listed(Messages(p)), calls \in Listed(Calls(p)) :
        run' = [run EXCEPT ![p].pc = "refs",
                 ![p].todo = SmsTriggers(p, messages) \cup MissedCallTrigger(p, calls),
                 ![p].reach = Reachable(calls) \cap HasSim]
  BY DEF ListContacts
<1>2. messages \subseteq Messages(p) /\ calls \subseteq Calls(p)
  BY DEF Listed
<1> DEFINE todo == SmsTriggers(p, messages) \cup MissedCallTrigger(p, calls)
           reach == Reachable(calls) \cap HasSim
<1>3. todo \in SUBSET Contacts /\ reach \in SUBSET Contacts
  BY <1>2 DEF SmsTriggers, MissedCallTrigger, Unanswered, Messages, Calls, Reachable
<1>4. ASSUME NEW c \in todo
      PROVE  /\ at[c] \in Nat /\ Kind[c] \in {"sms", "missed"}
             /\ Outside(p, c) /\ ~IsOlder(p, c)
  <2>1. c \in Contacts /\ InWindow(p, c) /\ Outside(p, c) /\ Kind[c] \in {"sms", "missed"}
    BY <1>2, <1>4 DEF SmsTriggers, MissedCallTrigger, Unanswered, Messages, Calls
  <2>2. QED
    BY <2>1 DEF InWindow, TypeOK
<1>5. QED
  BY <1>1, <1>3, <1>4

LEMMA StoreType ==
  ASSUME TypeOK, NEW c \in Contacts, NEW status \in Replies, Store(c, status)
  PROVE  reply' \in [Contacts -> Replies] /\ made' \in [Contacts -> Nat]
BY DEF Store, TypeOK

LEMMA RunType == ASSUME TypeOK, NEW p \in Processes, RunNext(p) PROVE TypeOK'
<1> USE DEF world, rows, hist
<1>t. run \in [Processes -> Run] /\ run[p] \in Run
  BY DEF TypeOK
<1>1. CASE RunStart(p)
  BY <1>1, NeverAssumption DEF RunStart, TypeOK, NoRun, Run, RunPcs, Reading
<1>2. CASE ListSims(p)
  <2>1. PICK part \in SUBSET Sims :
          /\ FleetNumbers(part) \in SUBSET {SimNumber[s] : s \in Sims}
          /\ run' = [run EXCEPT ![p].pc = "contacts", ![p].fleet = FleetNumbers(part),
                                ![p].unread = Sims \ part]
    BY <1>2, Inventory
  <2>2. run' \in [Processes -> Run]
    BY <1>t, <2>1 DEF Run, RunPcs, Reading
  <2>3. QED
    BY <1>2, <2>2 DEF ListSims, TypeOK
<1>3. CASE ListContacts(p)
  <2>1. PICK todo \in SUBSET Contacts, reach \in SUBSET Contacts :
          run' = [run EXCEPT ![p].pc = "refs", ![p].todo = todo, ![p].reach = reach]
    BY <1>3, Triggers
  <2>2. run' \in [Processes -> Run]
    BY <1>t, <2>1 DEF Run, RunPcs, Reading
  <2>3. QED
    BY <1>3, <2>2 DEF ListContacts, TypeOK
<1>4. CASE ReadRefs(p)
  <2> DEFINE todo == {c \in run[p].todo : reply[c] = "none"}
  <2>1. todo \in SUBSET Contacts
    BY <1>t DEF Run
  <2>2. run' = [run EXCEPT ![p].pc = "recent", ![p].todo = todo]
    BY <1>4 DEF ReadRefs
  <2> HIDE DEF todo
  <2>3. run' \in [Processes -> Run]
    BY <1>t, <2>1, <2>2, RunUpdate DEF RunPcs, Reading
  <2>4. QED
    BY <1>4, <2>3 DEF ReadRefs, TypeOK
<1>5. CASE ReadRecent(p)
  <2>1. PICK kept \in SUBSET run[p].todo :
          run' = [run EXCEPT ![p].pc = "loop",
                             ![p].todo = {c \in kept : Cardinality({d \in kept : Before(d, c)})
                                                         < MaxPerRun}]
    BY <1>5 DEF ReadRecent
  <2> DEFINE todo == {c \in kept : Cardinality({d \in kept : Before(d, c)}) < MaxPerRun}
  <2>2. todo \in SUBSET Contacts
    BY <1>t DEF Run
  <2> HIDE DEF todo
  <2>3. run' \in [Processes -> Run]
    BY <1>t, <2>1, <2>2, RunUpdate DEF todo, RunPcs
  <2>4. QED
    BY <1>5, <2>3 DEF ReadRecent, TypeOK
<1>6. ASSUME NEW c \in Contacts, Skip(p, c) \/ Claim(p, c) \/ StoreFails(p, c) PROVE TypeOK'
  <2> DEFINE todo == run[p].todo \ {c}
  <2>1. todo \in SUBSET Contacts /\ c \in Contacts \cup {Never}
    BY <1>t DEF Run
  <2>2. \/ run' = [run EXCEPT ![p].todo = todo]
        \/ run' = [run EXCEPT ![p].todo = todo, ![p].config = FALSE]
        \/ run' = [run EXCEPT ![p].pc = "claimed", ![p].todo = todo, ![p].on = c]
    BY <1>6 DEF Skip, Claim, StoreFails
  <2> HIDE DEF todo
  <2>3. "claimed" \in RunPcs
    BY DEF RunPcs
  <2>a. /\ [run EXCEPT ![p].todo = todo] \in [Processes -> Run]
        /\ [run EXCEPT ![p].todo = todo, ![p].config = FALSE] \in [Processes -> Run]
        /\ [run EXCEPT ![p].pc = "claimed", ![p].todo = todo, ![p].on = c]
             \in [Processes -> Run]
    BY <1>t, <2>1, <2>3, RunUpdate
  <2>b. run' \in [Processes -> Run]
    BY <2>2, <2>a
  <2>4. reply' \in [Contacts -> Replies] /\ made' \in [Contacts -> Nat]
    BY <1>6, StoreType DEF Skip, Claim, StoreFails, Replies, TypeOK
  <2>5. UNCHANGED <<world, hist>>
    BY <1>6 DEF Skip, Claim, StoreFails
  <2>6. QED
    BY <2>b, <2>4, <2>5 DEF TypeOK
<1>7. CASE Send(p)
  <2>1. PICK left \in 0..1, outcome \in {"sent", "failed"} :
          /\ texts' = [texts EXCEPT ![run[p].on] = @ + left]
          /\ run' = [run EXCEPT ![p].pc = outcome]
    BY <1>7 DEF Send
  <2>2. run' \in [Processes -> Run]
    BY <1>t, <2>1 DEF Run, RunPcs
  <2>3. texts' \in [Contacts -> Nat]
    <3>1. texts \in [Contacts -> Nat] /\ left \in Nat
      BY DEF TypeOK
    <3>2. \A c \in Contacts : texts'[c] \in Nat
      BY <2>1, <3>1
    <3>3. QED
      BY <2>1, <3>1, <3>2
  <2>4. unseen' \subseteq Contacts
    BY <1>7 DEF Send, TypeOK
  <2>5. QED
    BY <1>7, <2>2, <2>3, <2>4 DEF Send, TypeOK
<1>8. CASE RecordOutcome(p)
  <2>1. run' \in [Processes -> Run]
    <3>1. PICK raised \in BOOLEAN :
            run' = [run EXCEPT ![p].pc = "loop", ![p].on = Never, ![p].config = ~raised]
      BY <1>8 DEF RecordOutcome
    <3>2. "loop" \in RunPcs /\ Never \in Contacts \cup {Never} /\ (~raised) \in BOOLEAN
      BY DEF RunPcs
    <3>3. QED
      BY <1>t, <3>1, <3>2, RunUpdate
  <2>2. reply' \in [Contacts -> Replies]
    BY <1>8 DEF RecordOutcome, Replies, TypeOK
  <2>3. QED
    BY <1>8, <2>1, <2>2 DEF RecordOutcome, TypeOK
<1>9. CASE RunEnds(p)
  BY <1>9, NeverAssumption DEF RunEnds, TypeOK, NoRun, Run, RunPcs
<1>10. QED
  BY <1>1, <1>2, <1>3, <1>4, <1>5, <1>6, <1>7, <1>8, <1>9 DEF RunNext

LEMMA WorldType ==
  TypeOK /\ ((\E c \in Contacts : Contact(c)) \/ (\E s \in Sims : EditSim(s)) \/ Tick)
    => TypeOK'
<1> SUFFICES ASSUME TypeOK,
                    (\E c \in Contacts : Contact(c)) \/ (\E s \in Sims : EditSim(s)) \/ Tick
             PROVE  TypeOK'
  OBVIOUS
<1> USE DEF rows, hist
<1>1. ASSUME NEW c \in Contacts, Contact(c) PROVE TypeOK'
  BY <1>1 DEF Contact, TypeOK
<1>2. ASSUME NEW s \in Sims, EditSim(s) PROVE TypeOK'
  BY <1>2 DEF EditSim, TypeOK
<1>3. CASE Tick
  BY <1>3 DEF Tick, TypeOK
<1>4. QED
  BY <1>1, <1>2, <1>3

LEMMA StutterType == TypeOK /\ UNCHANGED vars => TypeOK'
BY DEF TypeOK, vars, world, rows, hist

\* Type correctness of the model of the SMS auto-reply job.
THEOREM TypeCorrect == Spec => []TypeOK
<1>1. TypeOK /\ [Next]_vars => TypeOK'
  BY RunType, WorldType, StutterType DEF Next
<1>2. QED
  BY InitType, <1>1, PTL DEF Spec

-----------------------------------------------------------------------------
(* A contact is answered at most once.                                      *)

Busy(p) == run[p].pc \in {"claimed", "sent", "failed"}

\* A run past its claim owns a row that is still "sending", and no two share one.
ClaimInv(p) ==
  Busy(p) => /\ run[p].on \in Contacts
             /\ reply[run[p].on] = "sending"
             /\ run[p].pc = "claimed" => texts[run[p].on] = 0
             /\ run[p].pc = "sent" => texts[run[p].on] = 1

OnceInv ==
  /\ \A c \in Contacts : /\ texts[c] <= 1
                         /\ reply[c] \in {"none", "skipped"} => texts[c] = 0
                         /\ reply[c] = "sent" => texts[c] = 1
  /\ \A p \in Processes : ClaimInv(p)
  /\ \A p, q \in Processes : Busy(p) /\ Busy(q) /\ p # q => run[p].on # run[q].on

\* A step of p outside its claim that leaves the rows and the texts alone.
LEMMA FreeStep ==
  ASSUME TypeOK, OnceInv, NEW p \in Processes, UNCHANGED <<reply, texts>>,
         \A q \in Processes \ {p} : run'[q] = run[q], ~Busy(p)'
  PROVE  OnceInv'
BY DEF OnceInv, ClaimInv, Busy

LEMMA OnceStore ==
  ASSUME TypeOK, OnceInv, NEW p \in Processes, NEW c \in Contacts, NEW status,
         status \in {"sending", "skipped"}, Store(c, status), UNCHANGED texts,
         \A q \in Processes \ {p} : run'[q] = run[q],
         Busy(p)' => run'[p].pc = "claimed" /\ run'[p].on = c /\ status = "sending"
  PROVE  OnceInv'
<1> USE DEF OnceInv, ClaimInv, Busy
<1>1. /\ reply[c] = "none" /\ reply'[c] = status
      /\ \A d \in Contacts \ {c} : reply'[d] = reply[d]
  BY DEF Store, TypeOK
<1>2. \A q \in Processes \ {p} : Busy(q)' => run'[q].on # c
  BY <1>1
<1>3. \A d \in Contacts : /\ texts'[d] <= 1
                          /\ reply'[d] \in {"none", "skipped"} => texts'[d] = 0
                          /\ reply'[d] = "sent" => texts'[d] = 1
  BY <1>1
<1>4. \A q \in Processes \ {p} : ClaimInv(q)'
  BY <1>1, <1>2
<1>5. ClaimInv(p)'
  BY <1>1
<1>6. \A q, r \in Processes : Busy(q)' /\ Busy(r)' /\ q # r => run'[q].on # run'[r].on
  BY <1>2
<1>7. QED
  BY <1>3, <1>4, <1>5, <1>6

LEMMA OnceRun == ASSUME TypeOK, OnceInv, NEW p \in Processes, RunNext(p) PROVE OnceInv'
<1> USE DEF world, rows, hist
<1>t. run \in [Processes -> Run] /\ run[p] \in Run
  BY DEF TypeOK
<1>1. CASE RunStart(p) \/ ListSims(p) \/ ListContacts(p) \/ ReadRefs(p) \/ ReadRecent(p)
           \/ RunEnds(p)
  <2>1. UNCHANGED <<reply, texts>> /\ \A q \in Processes \ {p} : run'[q] = run[q]
    BY <1>1, <1>t DEF RunStart, ListSims, ListContacts, ReadRefs, ReadRecent, RunEnds
  <2>2. ~Busy(p)'
    <3>1. CASE RunStart(p)
      <4>1. [NoRun EXCEPT !.pc = "sims", !.begin = now].pc = "sims"
        BY DEF NoRun
      <4>2. run'[p].pc = "sims"
        BY <3>1, <1>t, <4>1 DEF RunStart
      <4>3. QED
        BY <4>2 DEF Busy
    <3>7. CASE RunEnds(p)
      <4>1. run'[p] = NoRun
        BY <3>7, <1>t DEF RunEnds
      <4>2. QED
        BY <4>1 DEF Busy, NoRun
    <3>2. CASE ListSims(p)
      BY <3>2, <1>t DEF ListSims, Busy, Run
    <3>3. CASE ListContacts(p)
      BY <3>3, <1>t DEF ListContacts, Busy, Run
    <3>4. CASE ReadRefs(p)
      BY <3>4, <1>t DEF ReadRefs, Busy, Run
    <3>5. CASE ReadRecent(p)
      BY <3>5, <1>t DEF ReadRecent, Busy, Run
    <3>6. QED
      BY <1>1, <3>1, <3>2, <3>3, <3>4, <3>5, <3>7
  <2>3. QED
    BY <2>1, <2>2, FreeStep
<1>2. ASSUME NEW c \in Contacts, Skip(p, c) PROVE OnceInv'
  <2>1. run[p].pc = "loop" /\ run' = [run EXCEPT ![p].todo = @ \ {c}]
    BY <1>2 DEF Skip, Reaches
  <2>2. run'[p].pc = "loop" /\ \A q \in Processes \ {p} : run'[q] = run[q]
    BY <2>1, <1>t DEF Run
  <2>3. Store(c, "skipped") /\ UNCHANGED texts
    BY <1>2 DEF Skip
  <2>4. QED
    BY <2>2, <2>3, OnceStore DEF Busy
<1>3. ASSUME NEW c \in Contacts, Claim(p, c) PROVE OnceInv'
  <2>1. run' = [run EXCEPT ![p].pc = "claimed", ![p].todo = @ \ {c}, ![p].on = c]
    BY <1>3 DEF Claim
  <2>2. /\ run'[p].pc = "claimed" /\ run'[p].on = c
        /\ \A q \in Processes \ {p} : run'[q] = run[q]
    BY <2>1, <1>t DEF Run
  <2>3. Store(c, "sending") /\ UNCHANGED texts
    BY <1>3 DEF Claim
  <2>4. QED
    BY <2>2, <2>3, OnceStore
<1>4. ASSUME NEW c \in Contacts, StoreFails(p, c) PROVE OnceInv'
  <2>1. run[p].pc = "loop" /\ run' = [run EXCEPT ![p].todo = @ \ {c}, ![p].config = FALSE]
    BY <1>4 DEF StoreFails, Reaches
  <2>2. run'[p].pc = "loop" /\ \A q \in Processes \ {p} : run'[q] = run[q]
    BY <2>1, <1>t DEF Run
  <2>3. UNCHANGED texts /\ ~Busy(p)'
    BY <1>4, <2>2 DEF StoreFails, Busy
  <2>4. CASE UNCHANGED rows
    BY <2>2, <2>3, <2>4, FreeStep
  <2>5. CASE Store(c, IF c \in run[p].reach THEN "sending" ELSE "skipped")
    BY <2>2, <2>3, <2>5, OnceStore
  <2>6. QED
    BY <1>4, <2>4, <2>5 DEF StoreFails
<1>5. CASE Send(p)
  <2>1. PICK left \in 0..1, outcome \in {"sent", "failed"} :
          /\ outcome = "sent" => left = 1
          /\ texts' = [texts EXCEPT ![run[p].on] = @ + left]
          /\ run' = [run EXCEPT ![p].pc = outcome]
    BY <1>5 DEF Send
  <2> DEFINE c == run[p].on
  <2>2. /\ run[p].pc = "claimed" /\ reply' = reply
        /\ c \in Contacts /\ reply[c] = "sending" /\ texts[c] = 0
    BY <1>5 DEF Send, OnceInv, ClaimInv, Busy
  <2>3. /\ run'[p].pc = outcome /\ run'[p].on = c
        /\ \A q \in Processes \ {p} : run'[q] = run[q]
    BY <2>1, <1>t DEF Run
  <2>4. texts'[c] = left /\ \A d \in Contacts \ {c} : texts'[d] = texts[d]
    BY <2>1, <2>2 DEF TypeOK
  <2>5. \A q \in Processes \ {p} : Busy(q)' => run'[q].on \in Contacts \ {c}
    BY <2>2, <2>3 DEF OnceInv, ClaimInv, Busy
  <2> HIDE DEF c
  <2>6. \A d \in Contacts : /\ texts'[d] <= 1
                            /\ reply'[d] \in {"none", "skipped"} => texts'[d] = 0
                            /\ reply'[d] = "sent" => texts'[d] = 1
    BY <2>2, <2>4 DEF OnceInv
  <2>7. ClaimInv(p)'
    BY <2>1, <2>2, <2>3, <2>4 DEF ClaimInv, Busy
  <2>8. \A q \in Processes \ {p} : ClaimInv(q)'
    BY <2>2, <2>3, <2>4, <2>5 DEF OnceInv, ClaimInv, Busy
  <2>9. \A q, r \in Processes : Busy(q)' /\ Busy(r)' /\ q # r => run'[q].on # run'[r].on
    BY <2>2, <2>3, <2>5 DEF OnceInv, Busy, c
  <2>10. QED
    BY <2>6, <2>7, <2>8, <2>9 DEF OnceInv
<1>6. CASE RecordOutcome(p)
  <2> DEFINE c == run[p].on
  <2>r. PICK raised \in BOOLEAN :
          /\ reply' = [reply EXCEPT ![run[p].on] = run[p].pc] \/ UNCHANGED reply
          /\ run' = [run EXCEPT ![p].pc = "loop", ![p].on = Never, ![p].config = ~raised]
    BY <1>6 DEF RecordOutcome
  <2>1. Busy(p) /\ run[p].pc \in {"sent", "failed"} /\ texts' = texts
    BY <1>6 DEF RecordOutcome, Busy
  <2>2. c \in Contacts /\ reply[c] = "sending" /\ (run[p].pc = "sent" => texts[c] = 1)
    BY <2>1 DEF OnceInv, ClaimInv
  <2>3. run'[p].pc = "loop" /\ \A q \in Processes \ {p} : run'[q] = run[q]
    BY <2>r, <1>t DEF Run
  <2>4. ~Busy(p)'
    BY <2>3 DEF Busy
  <2>5. CASE UNCHANGED reply
    BY <2>1, <2>3, <2>4, <2>5, FreeStep
  <2>6. CASE reply' = [reply EXCEPT ![c] = run[p].pc]
    <3>1. reply'[c] = run[p].pc /\ \A d \in Contacts \ {c} : reply'[d] = reply[d]
      BY <2>2, <2>6 DEF TypeOK
    <3>2. \A q \in Processes \ {p} : Busy(q)' => run'[q].on \in Contacts \ {c}
      BY <2>1, <2>3 DEF OnceInv, ClaimInv, Busy
    <3> HIDE DEF c
    <3>3. \A d \in Contacts : /\ texts'[d] <= 1
                              /\ reply'[d] \in {"none", "skipped"} => texts'[d] = 0
                              /\ reply'[d] = "sent" => texts'[d] = 1
      BY <2>1, <2>2, <3>1 DEF OnceInv
    <3>q. \A q \in Processes : Busy(q)' => q # p /\ Busy(q) /\ run'[q] = run[q]
      BY <2>3, <2>4 DEF Busy
    <3>4. \A q \in Processes : ClaimInv(q)'
      <4>1. SUFFICES ASSUME NEW q \in Processes, Busy(q)' PROVE ClaimInv(q)'
        BY DEF ClaimInv
      <4>2. q # p /\ run'[q] = run[q] /\ run'[q].on \in Contacts \ {c} /\ ClaimInv(q)
        BY <4>1, <3>q, <3>2 DEF OnceInv
      <4>3. reply'[run'[q].on] = reply[run[q].on]
        BY <3>1, <4>2
      <4>4. QED
        BY <2>1, <3>q, <4>2, <4>3 DEF ClaimInv, Busy
    <3>5. \A q, r \in Processes : Busy(q)' /\ Busy(r)' /\ q # r => run'[q].on # run'[r].on
      BY <3>q DEF OnceInv
    <3>6. QED
      BY <3>3, <3>4, <3>5 DEF OnceInv
  <2>7. QED
    BY <2>r, <2>5, <2>6
<1>7. QED
  BY <1>1, <1>2, <1>3, <1>4, <1>5, <1>6 DEF RunNext

LEMMA OnceStep == TypeOK /\ OnceInv /\ [Next]_vars => OnceInv'
<1>1. ASSUME TypeOK, OnceInv, UNCHANGED <<reply, run, texts>> PROVE OnceInv'
  BY <1>1 DEF OnceInv, ClaimInv, Busy
<1>2. (\E c \in Contacts : Contact(c)) \/ (\E s \in Sims : EditSim(s)) \/ Tick \/ UNCHANGED vars
        => UNCHANGED <<reply, run, texts>>
  BY DEF Contact, EditSim, Tick, vars, rows, hist
<1>3. QED
  BY <1>1, <1>2, OnceRun DEF Next

\* However many processes run and wherever they are lost, no contact is answered twice
\* (the claim of _store under the unique trigger_ref, before send_sms).
THEOREM NeverAnsweredTwice == Spec => []AnsweredOnce
<1>1. Init => OnceInv
  BY DEF Init, OnceInv, ClaimInv, Busy, NoRun
<1>2. TypeOK /\ OnceInv => AnsweredOnce
  BY DEF TypeOK, OnceInv, AnsweredOnce, Replies
<1>3. QED
  BY <1>1, <1>2, OnceStep, TypeCorrect, PTL DEF Spec

-----------------------------------------------------------------------------
(* The fleet is not answered by a run that has read it.                     *)

\* The contact's person is a SIM only if p has not read that SIM.
Known(p, c) == Person[c] \in Sims => Person[c] \in run[p].unread

\* What a run knows of the fleet, from the moment it has listed it.
FleetKnown(p) ==
  /\ run[p].pc = "sims" => run[p].todo = {}
  /\ run[p].pc = "contacts" => run[p].fleet = {SimNumber[s] : s \in Sims \ run[p].unread}
  /\ \A c \in run[p].todo : Known(p, c)
  /\ run[p].pc = "claimed" => run[p].on \in Contacts /\ Known(p, run[p].on)

FleetInv == FleetNeverAnswered /\ \A p \in Processes : FleetKnown(p)

\* A step of p that sends nothing, with fewer contacts to do.
LEMMA FleetShrink ==
  ASSUME FleetInv, NEW p \in Processes, UNCHANGED hist,
         \A q \in Processes \ {p} : run'[q] = run[q],
         run'[p].todo \subseteq run[p].todo, run'[p].pc \notin {"contacts", "claimed"},
         \/ run'[p].todo = {}
         \/ run'[p].pc # "sims" /\ run'[p].unread = run[p].unread
  PROVE  FleetInv'
BY DEF FleetInv, FleetNeverAnswered, FleetKnown, Known, hist

LEMMA FleetRun == ASSUME TypeOK, FleetInv, NEW p \in Processes, RunNext(p) PROVE FleetInv'
<1> USE DEF world, rows, Known
<1>t. run \in [Processes -> Run] /\ run[p] \in Run
  BY DEF TypeOK
<1>h. ASSUME UNCHANGED hist, \A q \in Processes : FleetKnown(q)' PROVE FleetInv'
  BY <1>h DEF FleetInv, FleetNeverAnswered, hist
<1>1. CASE RunStart(p) \/ RunEnds(p)
  <2>1. [NoRun EXCEPT !.pc = "sims", !.begin = now].todo = {} /\ NoRun.todo = {}
    BY DEF NoRun
  <2>2. [NoRun EXCEPT !.pc = "sims", !.begin = now].pc = "sims" /\ NoRun.pc = "idle"
    BY DEF NoRun
  <2>3. /\ \/ run' = [run EXCEPT ![p] = [NoRun EXCEPT !.pc = "sims", !.begin = now]]
           \/ run' = [run EXCEPT ![p] = NoRun]
        /\ UNCHANGED hist
    BY <1>1 DEF RunStart, RunEnds
  <2>4. /\ run'[p].todo = {} /\ run'[p].pc \in {"sims", "idle"}
        /\ \A q \in Processes \ {p} : run'[q] = run[q]
    BY <1>t, <2>1, <2>2, <2>3
  <2>5. QED
    BY <2>3, <2>4, FleetShrink
<1>2. CASE ListSims(p)
  <2>1. PICK part \in SUBSET Sims :
          /\ \A s \in part : listed[s]
          /\ run' = [run EXCEPT ![p].pc = "contacts", ![p].fleet = FleetNumbers(part),
                                ![p].unread = Sims \ part]
    BY <1>2, Inventory
  <2>2. FleetNumbers(part) = {SimNumber[s] : s \in Sims \ (Sims \ part)}
    BY <2>1 DEF FleetNumbers
  <2>3. /\ run'[p].pc = "contacts" /\ run'[p].todo = run[p].todo
        /\ run'[p].fleet = FleetNumbers(part) /\ run'[p].unread = Sims \ part
        /\ \A q \in Processes \ {p} : run'[q] = run[q]
    BY <1>t, <2>1 DEF Run
  <2>4. run[p].todo = {}
    BY <1>2 DEF ListSims, FleetInv, FleetKnown
  <2>5. \A q \in Processes : FleetKnown(q)'
    BY <2>2, <2>3, <2>4 DEF FleetInv, FleetKnown
  <2>6. QED
    BY <1>2, <1>h, <2>5 DEF ListSims
<1>3. CASE ListContacts(p)
  <2>1. run[p].fleet = {SimNumber[s] : s \in Sims \ run[p].unread}
    BY <1>3 DEF ListContacts, FleetInv, FleetKnown
  <2>2. PICK todo \in SUBSET Contacts, reach \in SUBSET Contacts :
          /\ run' = [run EXCEPT ![p].pc = "refs", ![p].todo = todo, ![p].reach = reach]
          /\ \A c \in todo : Outside(p, c)
    BY <1>3, Triggers
  <2>3. \A c \in todo : Known(p, c)
    BY <2>1, <2>2, FleetAssumption DEF Outside, IsFleetNumber
  <2>4. /\ run'[p].pc = "refs" /\ run'[p].todo = todo /\ run'[p].unread = run[p].unread
        /\ \A q \in Processes \ {p} : run'[q] = run[q]
    BY <1>t, <2>2 DEF Run
  <2>5. \A q \in Processes : FleetKnown(q)'
    BY <2>3, <2>4 DEF FleetInv, FleetKnown
  <2>6. QED
    BY <1>3, <1>h, <2>5 DEF ListContacts
<1>4. CASE ReadRefs(p) \/ ReadRecent(p)
  <2>1. PICK todo \in SUBSET run[p].todo, pc \in {"recent", "loop"} :
          run' = [run EXCEPT ![p].pc = pc, ![p].todo = todo]
    BY <1>4 DEF ReadRefs, ReadRecent
  <2>2. /\ run'[p].pc = pc /\ run'[p].todo = todo /\ run'[p].unread = run[p].unread
        /\ \A q \in Processes \ {p} : run'[q] = run[q]
    BY <1>t, <2>1 DEF Run
  <2>3. QED
    BY <1>4, <2>2, FleetShrink DEF ReadRefs, ReadRecent
<1>5. ASSUME NEW c \in Contacts, Skip(p, c) \/ StoreFails(p, c) PROVE FleetInv'
  <2>1. /\ run[p].pc = "loop" /\ UNCHANGED hist
        /\ \/ run' = [run EXCEPT ![p].todo = @ \ {c}]
           \/ run' = [run EXCEPT ![p].todo = @ \ {c}, ![p].config = FALSE]
    BY <1>5 DEF Skip, StoreFails, Reaches
  <2>2. /\ run'[p].pc = "loop" /\ run'[p].todo \subseteq run[p].todo
        /\ run'[p].unread = run[p].unread
        /\ \A q \in Processes \ {p} : run'[q] = run[q]
    BY <1>t, <2>1 DEF Run
  <2>3. QED
    BY <2>1, <2>2, FleetShrink
<1>6. ASSUME NEW c \in Contacts, Claim(p, c) PROVE FleetInv'
  <2>1. /\ c \in run[p].todo
        /\ run' = [run EXCEPT ![p].pc = "claimed", ![p].todo = @ \ {c}, ![p].on = c]
    BY <1>6 DEF Claim, Reaches
  <2>2. /\ run'[p].pc = "claimed" /\ run'[p].on = c /\ run'[p].todo \subseteq run[p].todo
        /\ run'[p].unread = run[p].unread
        /\ \A q \in Processes \ {p} : run'[q] = run[q]
    BY <1>t, <2>1 DEF Run
  <2>3. FleetKnown(p)'
    <3>1. c \in Contacts /\ Known(p, c) /\ \A d \in run[p].todo : Known(p, d)
      BY <2>1 DEF FleetInv, FleetKnown
    <3>2. QED
      BY <2>2, <3>1 DEF FleetKnown
  <2>4. \A q \in Processes \ {p} : FleetKnown(q)'
    BY <2>2 DEF FleetInv, FleetKnown
  <2>5. QED
    BY <1>6, <1>h, <2>3, <2>4 DEF Claim
<1>7. CASE Send(p)
  <2>1. PICK left \in 0..1, outcome \in {"sent", "failed"} :
          /\ texts' = [texts EXCEPT ![run[p].on] = @ + left]
          /\ unseen' = unseen \cup {c \in Contacts : /\ left = 1 /\ c = run[p].on
                                                   /\ Person[c] \in run[p].unread}
          /\ run' = [run EXCEPT ![p].pc = outcome]
    BY <1>7 DEF Send
  <2>2. /\ run'[p].pc = outcome /\ run'[p].todo = run[p].todo
        /\ run'[p].unread = run[p].unread
        /\ \A q \in Processes \ {p} : run'[q] = run[q]
    BY <1>t, <2>1 DEF Run
  <2>3. run[p].on \in Contacts /\ Known(p, run[p].on)
    BY <1>7 DEF Send, FleetInv, FleetKnown
  <2>4. ASSUME NEW c \in Contacts, texts'[c] > 0, Person[c] \in Sims PROVE c \in unseen'
    <3>1. CASE c = run[p].on /\ left = 1
      BY <2>1, <2>3, <2>4, <3>1
    <3>2. CASE ~(c = run[p].on /\ left = 1)
      <4>1. texts'[c] = texts[c]
        BY <2>1, <3>2 DEF TypeOK
      <4>2. QED
        BY <2>1, <2>4, <4>1 DEF FleetInv, FleetNeverAnswered
    <3>3. QED
      BY <3>1, <3>2
  <2>5. \A q \in Processes : FleetKnown(q)'
    BY <2>2 DEF FleetInv, FleetKnown
  <2>6. QED
    BY <2>4, <2>5 DEF FleetInv, FleetNeverAnswered
<1>8. CASE RecordOutcome(p)
  <2>1. PICK raised \in BOOLEAN :
          run' = [run EXCEPT ![p].pc = "loop", ![p].on = Never, ![p].config = ~raised]
    BY <1>8 DEF RecordOutcome
  <2>2. /\ run'[p].pc = "loop" /\ run'[p].todo = run[p].todo /\ run'[p].unread = run[p].unread
        /\ \A q \in Processes \ {p} : run'[q] = run[q]
    BY <1>t, <2>1 DEF Run
  <2>3. QED
    BY <1>8, <2>2, FleetShrink DEF RecordOutcome
<1>9. QED
  BY <1>1, <1>2, <1>3, <1>4, <1>5, <1>6, <1>7, <1>8 DEF RunNext

LEMMA FleetStep == TypeOK /\ FleetInv /\ [Next]_vars => FleetInv'
<1>1. ASSUME FleetInv, UNCHANGED <<run, hist>> PROVE FleetInv'
  BY <1>1 DEF FleetInv, FleetNeverAnswered, FleetKnown, Known, hist
<1>2. (\E c \in Contacts : Contact(c)) \/ (\E s \in Sims : EditSim(s)) \/ Tick \/ UNCHANGED vars
        => UNCHANGED <<run, hist>>
  BY DEF Contact, EditSim, Tick, vars, rows
<1>3. QED
  BY <1>1, <1>2, FleetRun DEF Next

\* A SIM of the fleet is answered only by a run whose reading of the inventory ended before
\* that SIM, whatever is damaged in TmLite meanwhile: a run that goes on has a usable number
\* of every SIM it has read (the three stops of _run).
THEOREM NeverAnswersFleet == Spec => []FleetNeverAnswered
<1>1. Init => FleetInv
  BY DEF Init, FleetInv, FleetNeverAnswered, FleetKnown, NoRun
<1>2. FleetInv => FleetNeverAnswered
  BY DEF FleetInv
<1>3. QED
  BY <1>1, <1>2, FleetStep, TypeCorrect, PTL DEF Spec

-----------------------------------------------------------------------------
(* One text per person and cooldown, for one process.                       *)

\* The formats TmLite uses for one person are all found to be the same number.
OneForm == \A c, d \in Contacts : Person[c] = Person[d] => SameNumber(Number[c], Number[d])
OneProcess == \A p, q \in Processes : p = q

Apart(c, d) == made[c] + Cooldown < made[d] \/ made[d] + Cooldown < made[c]

\* Two rows of one person, answered or not, are a cooldown apart.
RowsApart ==
  \A c, d \in Contacts :
    c # d /\ Person[c] = Person[d] /\ reply[c] # "none" /\ reply[d] # "none" => Apart(c, d)

\* What the loop has left to do: contacts of different people, each of them without
\* a row in the last cooldown.
TodoApart(p) ==
  run[p].pc \in {"loop", "claimed", "sent", "failed"} =>
    \A c \in run[p].todo :
      /\ \A d \in run[p].todo : c # d => Person[c] # Person[d]
      /\ \A d \in Contacts : Person[c] = Person[d] /\ reply[d] # "none"
                               => made[d] + Cooldown < now

\* What is read from TmLite has a time, and is an SMS or an unanswered call.
TodoDated(p) ==
  \A c \in run[p].todo : c \in Contacts /\ at[c] \in Nat /\ Kind[c] \in {"sms", "missed"}

CooldownInv == RowsApart /\ \A p \in Processes : TodoApart(p) /\ TodoDated(p)

LEMMA Ordered ==
  ASSUME NEW c \in Contacts, NEW d \in Contacts, c # d, at[c] \in Nat, at[d] \in Nat,
         Kind[c] \in {"sms", "missed"}, Kind[d] \in {"sms", "missed"}
  PROVE  Before(c, d) \/ Before(d, c)
BY ContactsAssumption DEF Before, Newer

\* Of the triggers that are kept, no two are for one person.
LEMMA KeptApart ==
  ASSUME OneForm, NEW todo \in SUBSET Contacts, NEW kept \in SUBSET todo, NEW recent,
         IsKept(kept, todo, recent),
         \A c \in todo : at[c] \in Nat /\ Kind[c] \in {"sms", "missed"},
         NEW c \in kept, NEW d \in kept, c # d
  PROVE  Person[c] # Person[d]
<1>1. ASSUME NEW e \in kept, NEW f \in kept, Before(e, f) PROVE Person[e] # Person[f]
  BY <1>1 DEF IsKept, OneRecipient, OneForm
<1>2. Before(c, d) \/ Before(d, c)
  BY Ordered
<1>3. QED
  BY <1>1, <1>2

\* A step of p that changes no row and has less to do, with no run entering its loop.
LEMMA CooldownShrink ==
  ASSUME TypeOK, CooldownInv, NEW p \in Processes, UNCHANGED <<rows, world>>,
         \A q \in Processes \ {p} : run'[q] = run[q],
         run'[p].todo \subseteq run[p].todo,
         run'[p].pc \in {"loop", "claimed", "sent", "failed"}
           => run[p].pc \in {"loop", "claimed", "sent", "failed"}
  PROVE  CooldownInv'
<1> USE DEF rows, world
<1>1. RowsApart'
  BY DEF CooldownInv, RowsApart, Apart
<1>2. ASSUME NEW q \in Processes PROVE TodoApart(q)'
  BY DEF CooldownInv, TodoApart
<1>3. ASSUME NEW q \in Processes PROVE TodoDated(q)'
  BY DEF CooldownInv, TodoDated
<1>4. QED
  BY <1>1, <1>2, <1>3 DEF CooldownInv

\* The loop stores the row of the contact it has come to.
LEMMA CooldownStore ==
  ASSUME TypeOK, CooldownInv, OneProcess, NEW p \in Processes, NEW c \in run[p].todo,
         NEW status \in Replies, Store(c, status), run[p].pc = "loop", UNCHANGED world,
         run'[p].todo = run[p].todo \ {c}
  PROVE  CooldownInv'
<1> USE DEF world
<1>1. /\ c \in Contacts /\ reply[c] = "none" /\ made'[c] = now
      /\ \A d \in Contacts \ {c} : reply'[d] = reply[d] /\ made'[d] = made[d]
      /\ now \in Nat /\ Cooldown \in Nat
  BY TimesAssumption DEF Store, TypeOK, CooldownInv, TodoDated
<1>2. \A d \in Contacts \ {c} :
        Person[c] = Person[d] /\ reply[d] # "none" => made[d] + Cooldown < now
  BY DEF CooldownInv, TodoApart
<1>3. RowsApart'
  <2>1. SUFFICES ASSUME NEW d \in Contacts, NEW e \in Contacts, d # e, Person[d] = Person[e],
                        reply'[d] # "none", reply'[e] # "none"
                 PROVE  Apart(d, e)'
    BY DEF RowsApart
  <2>2. CASE d = c
    BY <2>1, <2>2, <1>1, <1>2 DEF Apart
  <2>3. CASE e = c
    BY <2>1, <2>3, <1>1, <1>2 DEF Apart
  <2>4. CASE d # c /\ e # c
    BY <2>1, <2>4, <1>1 DEF CooldownInv, RowsApart, Apart
  <2>5. QED
    BY <2>2, <2>3, <2>4
<1>4. TodoApart(p)'
  <2>1. SUFFICES ASSUME NEW d \in run[p].todo \ {c}
                 PROVE  /\ \A e \in run[p].todo \ {c} : d # e => Person[d] # Person[e]
                        /\ \A e \in Contacts : Person[d] = Person[e] /\ reply'[e] # "none"
                                                 => made'[e] + Cooldown < now
    BY DEF TodoApart
  <2>2. Person[d] # Person[c]
    BY DEF CooldownInv, TodoApart
  <2>3. QED
    BY <2>2, <1>1 DEF CooldownInv, TodoApart
<1>5. TodoDated(p)'
  BY DEF CooldownInv, TodoDated
<1>6. \A q \in Processes : q = p
  BY DEF OneProcess
<1>7. QED
  BY <1>3, <1>4, <1>5, <1>6 DEF CooldownInv

LEMMA CooldownRun ==
  ASSUME TypeOK, OnceInv, CooldownInv, OneForm, OneProcess, NEW p \in Processes, RunNext(p)
  PROVE  CooldownInv'
<1>t. run \in [Processes -> Run] /\ run[p] \in Run
  BY DEF TypeOK
<1>1. CASE RunStart(p) \/ RunEnds(p)
  <2>1. /\ [NoRun EXCEPT !.pc = "sims", !.begin = now].pc = "sims" /\ NoRun.pc = "idle"
        /\ [NoRun EXCEPT !.pc = "sims", !.begin = now].todo = {} /\ NoRun.todo = {}
    BY DEF NoRun
  <2>2. /\ \/ run' = [run EXCEPT ![p] = [NoRun EXCEPT !.pc = "sims", !.begin = now]]
           \/ run' = [run EXCEPT ![p] = NoRun]
        /\ UNCHANGED <<rows, world>>
    BY <1>1 DEF RunStart, RunEnds
  <2>3. /\ run'[p].todo = {} /\ run'[p].pc \in {"sims", "idle"}
        /\ \A q \in Processes \ {p} : run'[q] = run[q]
    BY <1>t, <2>1, <2>2
  <2>4. QED
    BY <2>2, <2>3, CooldownShrink
<1>2. CASE ListSims(p) \/ ReadRefs(p)
  <2>1. /\ run'[p].pc \in {"contacts", "recent"} /\ run'[p].todo \subseteq run[p].todo
        /\ \A q \in Processes \ {p} : run'[q] = run[q]
    <3>1. CASE ListSims(p)
      <4>1. PICK part \in SUBSET Sims :
              run' = [run EXCEPT ![p].pc = "contacts", ![p].fleet = FleetNumbers(part),
                                 ![p].unread = Sims \ part]
        BY <3>1, Inventory
      <4>2. QED
        BY <1>t, <4>1 DEF Run
    <3>2. CASE ReadRefs(p)
      <4>1. PICK todo \in SUBSET run[p].todo :
              run' = [run EXCEPT ![p].pc = "recent", ![p].todo = todo]
        BY <3>2 DEF ReadRefs
      <4>2. QED
        BY <1>t, <4>1 DEF Run
    <3>3. QED
      BY <1>2, <3>1, <3>2
  <2>2. UNCHANGED <<rows, world>>
    BY <1>2 DEF ListSims, ReadRefs
  <2>3. QED
    BY <2>1, <2>2, CooldownShrink
<1>3. CASE ListContacts(p)
  <2>1. PICK todo \in SUBSET Contacts, reach \in SUBSET Contacts :
          /\ run' = [run EXCEPT ![p].pc = "refs", ![p].todo = todo, ![p].reach = reach]
          /\ \A c \in todo : /\ at[c] \in Nat /\ Kind[c] \in {"sms", "missed"}
                             /\ Outside(p, c) /\ ~IsOlder(p, c)
    BY <1>3, Triggers
  <2>3. /\ run'[p].pc = "refs" /\ run'[p].todo = todo
        /\ \A q \in Processes \ {p} : run'[q] = run[q]
    BY <1>t, <2>1 DEF Run
  <2>4. UNCHANGED <<rows, world>>
    BY <1>3 DEF ListContacts
  <2>5. RowsApart' /\ \A q \in Processes : TodoApart(q)'
    BY <2>3, <2>4 DEF CooldownInv, RowsApart, Apart, TodoApart, rows, world
  <2>6. \A q \in Processes : TodoDated(q)'
    BY <2>1, <2>3, <2>4 DEF CooldownInv, TodoDated, world
  <2>7. QED
    BY <2>5, <2>6 DEF CooldownInv
<1>4. CASE ReadRecent(p)
  <2>1. PICK kept \in SUBSET run[p].todo :
          /\ IsKept(kept, run[p].todo, RecentRecipients)
          /\ run' = [run EXCEPT ![p].pc = "loop",
                                ![p].todo = {c \in kept : Cardinality({d \in kept : Before(d, c)})
                                                            < MaxPerRun}]
    BY <1>4 DEF ReadRecent
  <2> DEFINE todo == {c \in kept : Cardinality({d \in kept : Before(d, c)}) < MaxPerRun}
  <2>2. todo \subseteq kept /\ kept \subseteq run[p].todo /\ run[p].todo \subseteq Contacts
    BY <1>t DEF Run
  <2>3. run' = [run EXCEPT ![p].pc = "loop", ![p].todo = todo]
    BY <2>1
  <2> HIDE DEF todo
  <2>4. /\ run'[p].pc = "loop" /\ run'[p].todo = todo
        /\ \A q \in Processes \ {p} : run'[q] = run[q]
    BY <1>t, <2>3 DEF Run
  <2>5. UNCHANGED <<rows, world>>
    BY <1>4 DEF ReadRecent
  <2>6. \A c \in run[p].todo : at[c] \in Nat /\ Kind[c] \in {"sms", "missed"}
    BY DEF CooldownInv, TodoDated
  <2>7. \A c, d \in kept : c # d => Person[c] # Person[d]
    BY <2>1, <2>2, <2>6, KeptApart
  <2>8. ASSUME NEW c \in kept, NEW d \in Contacts, Person[c] = Person[d], reply[d] # "none"
        PROVE  made[d] + Cooldown < now
    <3>1. ~ \E n \in RecentRecipients : SameNumber(Number[c], n)
      BY <2>1 DEF IsKept, MessagedRecently
    <3>2. SameNumber(Number[c], Number[d])
      BY <2>8, <2>2 DEF OneForm
    <3>3. ~(made[d] + Cooldown >= now)
      BY <2>8, <3>1, <3>2 DEF RecentRecipients
    <3>4. QED
      BY <3>3, TimesAssumption DEF TypeOK
  <2>9. RowsApart'
    BY <2>5 DEF CooldownInv, RowsApart, Apart, rows
  <2>10. \A q \in Processes : TodoApart(q)'
    BY <2>2, <2>4, <2>5, <2>7, <2>8 DEF CooldownInv, TodoApart, rows, world
  <2>11. \A q \in Processes : TodoDated(q)'
    BY <2>2, <2>4, <2>5 DEF CooldownInv, TodoDated, world
  <2>12. QED
    BY <2>9, <2>10, <2>11 DEF CooldownInv
<1>5. ASSUME NEW c \in Contacts, Skip(p, c) \/ Claim(p, c) \/ StoreFails(p, c) PROVE CooldownInv'
  <2>1. /\ c \in run[p].todo /\ run[p].pc = "loop" /\ UNCHANGED world
        /\ \/ run' = [run EXCEPT ![p].todo = @ \ {c}]
           \/ run' = [run EXCEPT ![p].todo = @ \ {c}, ![p].config = FALSE]
           \/ run' = [run EXCEPT ![p].pc = "claimed", ![p].todo = @ \ {c}, ![p].on = c]
    BY <1>5 DEF Skip, Claim, StoreFails, Reaches
  <2>2. /\ run'[p].todo = run[p].todo \ {c}
        /\ \A q \in Processes \ {p} : run'[q] = run[q]
    BY <1>t, <2>1 DEF Run
  <2>3. CASE UNCHANGED rows
    BY <2>1, <2>2, <2>3, CooldownShrink
  <2>4. ASSUME NEW status \in Replies, Store(c, status) PROVE CooldownInv'
    BY <2>1, <2>2, <2>4, CooldownStore
  <2>5. QED
    BY <1>5, <2>3, <2>4 DEF Skip, Claim, StoreFails, Replies
<1>6. CASE Send(p)
  <2>1. PICK outcome \in {"sent", "failed"} : run' = [run EXCEPT ![p].pc = outcome]
    BY <1>6 DEF Send
  <2>2. /\ run[p].pc = "claimed" /\ run'[p].todo = run[p].todo
        /\ \A q \in Processes \ {p} : run'[q] = run[q]
    BY <1>6, <1>t, <2>1 DEF Send, Run
  <2>3. QED
    BY <1>6, <2>2, CooldownShrink DEF Send
<1>7. CASE RecordOutcome(p)
  <2>1. PICK raised \in BOOLEAN :
          /\ reply' = [reply EXCEPT ![run[p].on] = run[p].pc] \/ UNCHANGED reply
          /\ run' = [run EXCEPT ![p].pc = "loop", ![p].on = Never, ![p].config = ~raised]
    BY <1>7 DEF RecordOutcome
  <2>p. \A q \in Processes : q = p
    BY DEF OneProcess
  <2>2. run[p].pc \in {"sent", "failed"} /\ run'[p].todo = run[p].todo
    BY <1>7, <1>t, <2>1 DEF RecordOutcome, Run
  <2>3. run[p].on \in Contacts /\ reply[run[p].on] = "sending"
    BY <2>2 DEF OnceInv, ClaimInv, Busy
  <2>4. \A d \in Contacts : reply'[d] # "none" => reply[d] # "none"
    BY <2>1, <2>3 DEF TypeOK
  <2>5. UNCHANGED <<made, now, at>>
    BY <1>7 DEF RecordOutcome, world
  <2>6. RowsApart'
    BY <2>4, <2>5 DEF CooldownInv, RowsApart, Apart
  <2>7. TodoApart(p)'
    BY <2>2, <2>4, <2>5 DEF CooldownInv, TodoApart
  <2>8. TodoDated(p)'
    BY <2>2, <2>5 DEF CooldownInv, TodoDated
  <2>9. QED
    BY <2>p, <2>6, <2>7, <2>8 DEF CooldownInv
<1>8. QED
  BY <1>1, <1>2, <1>3, <1>4, <1>5, <1>6, <1>7 DEF RunNext

LEMMA CooldownStep ==
  ASSUME TypeOK, OnceInv, CooldownInv, OneForm, OneProcess, [Next]_vars
  PROVE  CooldownInv'
<1>1. ASSUME \A c \in Contacts : at[c] \in Nat => at'[c] = at[c], now' \in Nat, now <= now',
             UNCHANGED <<rows, run>>
      PROVE  CooldownInv'
  <2>1. RowsApart'
    BY <1>1 DEF CooldownInv, RowsApart, Apart, rows
  <2>2. ASSUME NEW p \in Processes PROVE TodoApart(p)'
    <3>1. SUFFICES ASSUME run[p].pc \in {"loop", "claimed", "sent", "failed"},
                          NEW c \in run[p].todo, NEW d \in Contacts,
                          Person[c] = Person[d], reply[d] # "none"
                   PROVE  made[d] + Cooldown < now'
      BY <1>1 DEF CooldownInv, TodoApart, rows
    <3>2. made[d] + Cooldown < now
      BY <3>1 DEF CooldownInv, TodoApart
    <3>3. QED
      BY <3>2, <1>1, TimesAssumption DEF TypeOK
  <2>3. ASSUME NEW p \in Processes PROVE TodoDated(p)'
    BY <1>1 DEF CooldownInv, TodoDated
  <2>4. QED
    BY <2>1, <2>2, <2>3 DEF CooldownInv
<1>2. CASE \E c \in Contacts : Contact(c)
  BY <1>1, <1>2, NeverAssumption DEF Contact, TypeOK
<1>3. CASE (\E s \in Sims : EditSim(s)) \/ UNCHANGED vars
  BY <1>1, <1>3 DEF EditSim, vars, world, TypeOK
<1>4. CASE Tick
  BY <1>1, <1>4 DEF Tick, TypeOK
<1>5. QED
  BY <1>2, <1>3, <1>4, CooldownRun DEF Next

\* With one process, and numbers whose formats same_number tells are one person's, two
\* texts to a person are more than a cooldown apart, lost and failed ones included.
THEOREM CooldownIsKept ==
  ASSUME OneForm, OneProcess
  PROVE  Spec => []CooldownKept
<1>1. Init => CooldownInv
  BY DEF Init, CooldownInv, RowsApart, TodoApart, TodoDated, NoRun
<1>2. TypeOK /\ OnceInv /\ CooldownInv => CooldownKept
  BY DEF TypeOK, Replies, OnceInv, CooldownInv, RowsApart, Apart, CooldownKept
<1>3. TypeOK /\ OnceInv /\ CooldownInv /\ [Next]_vars => CooldownInv'
  BY CooldownStep
<1>4. Init => OnceInv
  BY DEF Init, OnceInv, ClaimInv, Busy, NoRun
<1>5. QED
  BY <1>1, <1>2, <1>3, <1>4, OnceStep, TypeCorrect, PTL DEF Spec

-----------------------------------------------------------------------------
(* A burst costs its sender one reply.                                      *)

Looping == {"loop", "claimed", "sent", "failed"}

\* The row of c has left the cooldown that a run sees which has d in its window.
Fresh(c, d) == made[c] + Cooldown < at[d] + Lookback + MaxReading

\* Rows of one person: what the later one answers came after the earlier one, or not
\* much earlier.
RowsFresh ==
  \A c, d \in Contacts :
    /\ Person[c] = Person[d] /\ reply[c] # "none" /\ reply[d] # "none"
    /\ made[c] < made[d] /\ d \notin undated
    => at[d] \in Nat /\ Fresh(c, d)

\* A run reads within its bound; what it has listed is of its window, and what it
\* still loops over came after every row of the same person.
TodoFresh(p) ==
  /\ run[p].pc \in Reading => now <= run[p].begin + MaxReading
  /\ run[p].pc \in {"refs", "recent"} =>
       \A c \in run[p].todo \ undated : run[p].begin <= at[c] + Lookback
  /\ run[p].pc \in Looping =>
       \A c \in run[p].todo \ undated, d \in Contacts :
         Person[c] = Person[d] /\ reply[d] # "none" => Fresh(d, c)

BurstInv == RowsFresh /\ \A p \in Processes : TodoFresh(p)

\* A step of p that changes no row and reads nothing new.
LEMMA BurstShrink ==
  ASSUME TypeOK, BurstInv, NEW p \in Processes, UNCHANGED <<rows, world>>,
         \A q \in Processes \ {p} : run'[q] = run[q],
         run'[p].todo \subseteq run[p].todo,
         run'[p].pc \in Reading => run[p].pc \in Reading /\ run'[p].begin = run[p].begin,
         run'[p].pc \in {"refs", "recent"} => run[p].pc \in {"refs", "recent"},
         run'[p].pc \in Looping => run[p].pc \in Looping
  PROVE  BurstInv'
<1> USE DEF rows, world
<1>1. RowsFresh'
  BY DEF BurstInv, RowsFresh, Fresh
<1>2. ASSUME NEW q \in Processes PROVE TodoFresh(q)'
  <2>1. CASE q = p
    BY <2>1 DEF BurstInv, TodoFresh, Reading, Fresh
  <2>2. CASE q # p
    BY <2>2 DEF BurstInv, TodoFresh, Fresh
  <2>3. QED
    BY <2>1, <2>2
<1>3. QED
  BY <1>1, <1>2 DEF BurstInv

\* The loop stores the row of the contact it has come to: it is fresh, and the rows of
\* the same person are all a cooldown older than it.
LEMMA BurstStore ==
  ASSUME TypeOK, CooldownInv, BurstInv, OneProcess, NEW p \in Processes, NEW c \in run[p].todo,
         NEW status \in Replies, Store(c, status), run[p].pc = "loop", UNCHANGED world,
         run'[p].todo = run[p].todo \ {c}, run'[p].pc \in Looping
  PROVE  BurstInv'
<1> USE DEF world
<1>1. /\ c \in Contacts /\ at[c] \in Nat /\ made'[c] = now
      /\ \A d \in Contacts \ {c} : reply'[d] = reply[d] /\ made'[d] = made[d]
      /\ now \in Nat /\ Cooldown \in Nat /\ made \in [Contacts -> Nat]
  BY TimesAssumption DEF Store, TypeOK, CooldownInv, TodoDated
<1>2. \A d \in Contacts \ {c} : Person[c] = Person[d] /\ reply[d] # "none" =>
        /\ c \notin undated => Fresh(d, c)
        /\ made[d] + Cooldown < now
  BY DEF CooldownInv, TodoApart, BurstInv, TodoFresh, Looping
<1>3. RowsFresh'
  <2>1. SUFFICES ASSUME NEW d \in Contacts, NEW e \in Contacts, Person[d] = Person[e],
                        reply'[d] # "none", reply'[e] # "none", made'[d] < made'[e],
                        e \notin undated
                 PROVE  at[e] \in Nat /\ Fresh(d, e)'
    BY DEF RowsFresh
  <2>2. CASE e = c
    <3>1. d # c
      BY <2>1, <2>2, <1>1
    <3>2. QED
      BY <2>1, <2>2, <3>1, <1>1, <1>2 DEF Fresh
  <2>3. CASE d = c /\ e # c
    <3>1. made[e] + Cooldown < now /\ now < made[e] /\ made[e] \in Nat
      BY <2>1, <2>3, <1>1, <1>2
    <3>2. QED
      BY <3>1, <1>1
  <2>4. CASE d # c /\ e # c
    BY <2>1, <2>4, <1>1 DEF BurstInv, RowsFresh, Fresh
  <2>5. QED
    BY <2>2, <2>3, <2>4
<1>4. TodoFresh(p)'
  <2>1. SUFFICES ASSUME NEW d \in run[p].todo \ {c}, d \notin undated, NEW e \in Contacts,
                        Person[d] = Person[e], reply'[e] # "none"
                 PROVE  Fresh(e, d)'
    BY DEF TodoFresh, Looping, Reading
  <2>2. Person[d] # Person[c]
    BY DEF CooldownInv, TodoApart
  <2>3. QED
    BY <2>1, <2>2, <1>1 DEF BurstInv, TodoFresh, Looping, Fresh
<1>5. \A q \in Processes : q = p
  BY DEF OneProcess
<1>6. QED
  BY <1>3, <1>4, <1>5 DEF BurstInv

LEMMA BurstRun ==
  ASSUME TypeOK, TypeOK', OnceInv, CooldownInv, CooldownInv', BurstInv, OneProcess,
         NEW p \in Processes, RunNext(p)
  PROVE  BurstInv'
<1>t. /\ run \in [Processes -> Run] /\ run[p] \in Run /\ run[p].begin \in Nat /\ now \in Nat
      /\ {Lookback, Cooldown, MaxReading} \subseteq Nat
  BY TimesAssumption DEF TypeOK, Run
<1>p. \A q \in Processes : q = p
  BY DEF OneProcess
<1>1. CASE RunStart(p) \/ RunEnds(p)
  <2>1. \/ run'[p] = [NoRun EXCEPT !.pc = "sims", !.begin = now]
        \/ run'[p] = NoRun
    BY <1>1, <1>t DEF RunStart, RunEnds
  <2>2. \/ run'[p].pc = "sims" /\ run'[p].begin = now
        \/ run'[p].pc = "idle"
    <3>1. /\ NoRun.pc = "idle"
          /\ LET started == [NoRun EXCEPT !.pc = "sims", !.begin = now]
             IN  started.pc = "sims" /\ started.begin = now
      BY DEF NoRun
    <3>2. QED
      BY <2>1, <3>1
  <2>3. UNCHANGED <<rows, world>>
    BY <1>1 DEF RunStart, RunEnds
  <2>4. TodoFresh(p)'
    BY <1>t, <2>2, <2>3 DEF TodoFresh, Reading, Looping, world
  <2>5. RowsFresh'
    BY <2>3 DEF BurstInv, RowsFresh, Fresh, rows, world
  <2>6. QED
    BY <1>p, <2>4, <2>5 DEF BurstInv
<1>2. CASE ListSims(p) \/ ReadRefs(p)
  <2>1. /\ run'[p].todo \subseteq run[p].todo /\ run'[p].begin = run[p].begin
        /\ \/ run[p].pc = "sims" /\ run'[p].pc = "contacts"
           \/ run[p].pc = "refs" /\ run'[p].pc = "recent"
        /\ \A q \in Processes \ {p} : run'[q] = run[q]
    <3>1. CASE ListSims(p)
      <4>1. PICK part \in SUBSET Sims :
              run' = [run EXCEPT ![p].pc = "contacts", ![p].fleet = FleetNumbers(part),
                                 ![p].unread = Sims \ part]
        BY <3>1, Inventory
      <4>2. QED
        BY <1>t, <3>1, <4>1 DEF Run, ListSims
    <3>2. CASE ReadRefs(p)
      <4>1. PICK todo \in SUBSET run[p].todo :
              run' = [run EXCEPT ![p].pc = "recent", ![p].todo = todo]
        BY <3>2 DEF ReadRefs
      <4>2. QED
        BY <1>t, <3>2, <4>1 DEF Run, ReadRefs
    <3>3. QED
      BY <1>2, <3>1, <3>2
  <2>2. UNCHANGED <<rows, world>>
    BY <1>2 DEF ListSims, ReadRefs
  <2>3. QED
    BY <2>1, <2>2, BurstShrink DEF Reading, Looping
<1>3. CASE ListContacts(p)
  <2>1. PICK todo \in SUBSET Contacts, reach \in SUBSET Contacts :
          /\ run' = [run EXCEPT ![p].pc = "refs", ![p].todo = todo, ![p].reach = reach]
          /\ \A c \in todo : at[c] \in Nat /\ ~IsOlder(p, c)
    BY <1>3, Triggers
  <2>2. \A c \in todo \ undated : run[p].begin <= at[c] + Lookback
    BY <1>t, <2>1 DEF IsOlder
  <2>3. run'[p].pc = "refs" /\ run'[p].todo = todo /\ run'[p].begin = run[p].begin
    BY <1>t, <2>1 DEF Run
  <2>w. run[p].pc = "contacts" /\ UNCHANGED <<rows, world>>
    BY <1>3 DEF ListContacts
  <2>4. TodoFresh(p)'
    BY <2>2, <2>3, <2>w DEF BurstInv, TodoFresh, Reading, Looping, world
  <2>5. RowsFresh'
    BY <2>w DEF BurstInv, RowsFresh, Fresh, rows, world
  <2>6. QED
    BY <1>p, <2>4, <2>5 DEF BurstInv
<1>4. CASE ReadRecent(p)
  <2>1. PICK kept \in SUBSET run[p].todo :
          run' = [run EXCEPT ![p].pc = "loop",
                             ![p].todo = {c \in kept : Cardinality({d \in kept : Before(d, c)})
                                                         < MaxPerRun}]
    BY <1>4 DEF ReadRecent
  <2> DEFINE todo == {c \in kept : Cardinality({d \in kept : Before(d, c)}) < MaxPerRun}
  <2>2. todo \subseteq run[p].todo /\ run' = [run EXCEPT ![p].pc = "loop", ![p].todo = todo]
    BY <2>1
  <2> HIDE DEF todo
  <2>3. run'[p].pc = "loop" /\ run'[p].todo = todo
    BY <1>t, <2>2 DEF Run
  <2>4. run[p].pc = "recent" /\ UNCHANGED <<rows, world>>
    BY <1>4 DEF ReadRecent
  <2>5. ASSUME NEW c \in todo \ undated, NEW d \in Contacts, Person[c] = Person[d],
               reply[d] # "none"
        PROVE  Fresh(d, c)
    <3>1. made[d] + Cooldown < now
      BY <2>3, <2>4, <2>5 DEF CooldownInv, TodoApart, rows, world
    <3>2. now <= run[p].begin + MaxReading /\ run[p].begin <= at[c] + Lookback
      BY <2>2, <2>4, <2>5 DEF BurstInv, TodoFresh, Reading
    <3>3. made[d] \in Nat /\ at[c] \in Nat
      BY <2>2, <2>5 DEF TypeOK, CooldownInv, TodoDated
    <3>4. QED
      BY <1>t, <3>1, <3>2, <3>3 DEF Fresh
  <2>6. TodoFresh(p)'
    BY <2>3, <2>4, <2>5 DEF TodoFresh, Reading, Looping, Fresh, rows, world
  <2>7. RowsFresh'
    BY <2>4 DEF BurstInv, RowsFresh, Fresh, rows, world
  <2>8. QED
    BY <1>p, <2>6, <2>7 DEF BurstInv
<1>5. ASSUME NEW c \in Contacts, Skip(p, c) \/ Claim(p, c) \/ StoreFails(p, c) PROVE BurstInv'
  <2>1. /\ c \in run[p].todo /\ run[p].pc = "loop" /\ UNCHANGED world
        /\ \/ run' = [run EXCEPT ![p].todo = @ \ {c}]
           \/ run' = [run EXCEPT ![p].todo = @ \ {c}, ![p].config = FALSE]
           \/ run' = [run EXCEPT ![p].pc = "claimed", ![p].todo = @ \ {c}, ![p].on = c]
    BY <1>5 DEF Skip, Claim, StoreFails, Reaches
  <2>2. /\ run'[p].todo = run[p].todo \ {c} /\ run'[p].pc \in {"loop", "claimed"}
        /\ \A q \in Processes \ {p} : run'[q] = run[q]
    BY <1>t, <2>1 DEF Run
  <2>3. CASE UNCHANGED rows
    BY <2>1, <2>2, <2>3, BurstShrink DEF Reading, Looping
  <2>4. ASSUME NEW status \in Replies, Store(c, status) PROVE BurstInv'
    BY <2>1, <2>2, <2>4, BurstStore DEF Looping
  <2>5. QED
    BY <1>5, <2>3, <2>4 DEF Skip, Claim, StoreFails, Replies
<1>6. CASE Send(p)
  <2>1. PICK outcome \in {"sent", "failed"} : run' = [run EXCEPT ![p].pc = outcome]
    BY <1>6 DEF Send
  <2>2. /\ run[p].pc = "claimed" /\ run'[p].pc = outcome /\ run'[p].todo = run[p].todo
        /\ \A q \in Processes \ {p} : run'[q] = run[q]
    BY <1>6, <1>t, <2>1 DEF Send, Run
  <2>3. QED
    BY <1>6, <2>2, BurstShrink DEF Send, Reading, Looping
<1>7. CASE RecordOutcome(p)
  <2>1. PICK raised \in BOOLEAN :
          /\ reply' = [reply EXCEPT ![run[p].on] = run[p].pc] \/ UNCHANGED reply
          /\ run' = [run EXCEPT ![p].pc = "loop", ![p].on = Never, ![p].config = ~raised]
    BY <1>7 DEF RecordOutcome
  <2>2. run[p].pc \in {"sent", "failed"} /\ run'[p].todo = run[p].todo /\ run'[p].pc = "loop"
    BY <1>7, <1>t, <2>1 DEF RecordOutcome, Run
  <2>3. run[p].on \in Contacts /\ reply[run[p].on] = "sending"
    BY <2>2 DEF OnceInv, ClaimInv, Busy
  <2>4. \A d \in Contacts : reply'[d] # "none" => reply[d] # "none"
    BY <2>1, <2>3 DEF TypeOK
  <2>5. UNCHANGED <<made, now, at, undated>>
    BY <1>7 DEF RecordOutcome, world
  <2>6. RowsFresh'
    BY <2>4, <2>5 DEF BurstInv, RowsFresh, Fresh
  <2>7. TodoFresh(p)'
    BY <2>2, <2>4, <2>5 DEF BurstInv, TodoFresh, Reading, Looping, Fresh
  <2>8. QED
    BY <1>p, <2>6, <2>7 DEF BurstInv
<1>8. QED
  BY <1>1, <1>2, <1>3, <1>4, <1>5, <1>6, <1>7 DEF RunNext

LEMMA BurstStep ==
  ASSUME TypeOK, TypeOK', OnceInv, CooldownInv, CooldownInv', BurstInv, OneProcess,
         [Next]_vars
  PROVE  BurstInv'
<1>1. ASSUME \A c \in Contacts : at[c] \in Nat => at'[c] = at[c], undated \subseteq undated',
             UNCHANGED <<rows, run>>,
             \A p \in Processes : run[p].pc \in Reading => now' <= run[p].begin + MaxReading
      PROVE  BurstInv'
  <2>1. RowsFresh'
    BY <1>1 DEF BurstInv, RowsFresh, Fresh, rows
  <2>2. ASSUME NEW p \in Processes PROVE TodoFresh(p)'
    <3>1. \A c \in run[p].todo : c \in Contacts /\ at'[c] = at[c]
      BY <1>1 DEF CooldownInv, TodoDated
    <3>2. QED
      BY <1>1, <3>1 DEF BurstInv, TodoFresh, Fresh, rows
  <2>3. QED
    BY <2>1, <2>2 DEF BurstInv
<1>2. CASE \E c \in Contacts : Contact(c)
  BY <1>1, <1>2, NeverAssumption DEF Contact, BurstInv, TodoFresh
<1>3. CASE (\E s \in Sims : EditSim(s)) \/ UNCHANGED vars
  BY <1>1, <1>3 DEF EditSim, vars, world, BurstInv, TodoFresh
<1>4. CASE Tick
  <2>1. \A p \in Processes : run[p].pc \in Reading => now + 1 <= run[p].begin + MaxReading
    <3>1. \A p \in Processes : run[p].begin \in Nat
      BY DEF TypeOK, Run
    <3>2. QED
      BY <1>4, <3>1, TimesAssumption DEF Tick, TypeOK
  <2>2. QED
    BY <1>1, <1>4, <2>1 DEF Tick
<1>5. QED
  BY <1>2, <1>3, <1>4, BurstRun DEF Next

\* With one process, what a later reply to a person answers was received at the earliest
\* MaxReading + Lookback - Cooldown before the reply that went before, for every window
\* that update_config accepts.
THEOREM BurstCostsOneReply ==
  ASSUME OneForm, OneProcess
  PROVE  Spec => []BurstAnsweredOnce
<1>1. Init => CooldownInv /\ OnceInv
  BY DEF Init, CooldownInv, RowsApart, TodoApart, TodoDated, OnceInv, ClaimInv, Busy, NoRun
<1>2. Init => BurstInv
  BY DEF Init, BurstInv, RowsFresh, TodoFresh, Reading, Looping, NoRun
<1>3. TypeOK /\ OnceInv /\ CooldownInv /\ [Next]_vars => CooldownInv'
  BY CooldownStep
<1>4. /\ TypeOK /\ TypeOK' /\ OnceInv /\ CooldownInv /\ CooldownInv' /\ BurstInv /\ [Next]_vars
      => BurstInv'
  BY BurstStep
<1>5. TypeOK /\ OnceInv /\ BurstInv => BurstAnsweredOnce
  <2>1. SUFFICES ASSUME TypeOK, OnceInv, BurstInv, NEW c \in Contacts, NEW d \in Contacts,
                        Person[c] = Person[d], made[c] < made[d], d \notin undated,
                        texts[c] > 0, texts[d] > 0
                 PROVE  at[d] + Lookback + MaxReading > made[c] + Cooldown
    BY DEF BurstAnsweredOnce
  <2>2. reply[c] # "none" /\ reply[d] # "none" /\ made[c] \in Nat
    BY <2>1 DEF OnceInv, TypeOK
  <2>3. at[d] \in Nat /\ Fresh(c, d)
    BY <2>1, <2>2 DEF BurstInv, RowsFresh
  <2>4. QED
    BY <2>2, <2>3, TimesAssumption DEF Fresh
<1>6. QED
  BY <1>1, <1>2, <1>3, <1>4, <1>5, OnceStep, TypeCorrect, PTL DEF Spec

=============================================================================
