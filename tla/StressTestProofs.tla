-------------------------- MODULE StressTestProofs --------------------------
(***************************************************************************)
(* Theorems of StressTest, for every set of tests and of requests and every *)
(* number of calls.                                                         *)
(***************************************************************************)
EXTENDS StressTest, TLAPS

-----------------------------------------------------------------------------
(* The course of a test.  A launch is the only one to start a generator, once, *)
(* before anything watches it or may stop it; and whoever has learnt that a     *)
(* generator ended is not mistaken later.                                     *)

Launched ==
  \A t \in Tests :
    /\ row[t].status = "none" => launch[t] = "idle" /\ uac[t] = "none" /\ poll[t].pc = "none"
    /\ launch[t] = "calling" => uac[t] = "none"
    /\ launch[t] \in {"calling", "started"} => row[t].status \in {"pending", "deleted"}
    /\ launch[t] # "idle" => poll[t].pc = "none"
    /\ uac[t] = "running" => entry[t] = "running"
    /\ entry[t] = "completed" => uac[t] = "succeeded"

Learnt ==
  \A t \in Tests : poll[t].pc \in {"fetching", "storing", "ending"} =>
    /\ poll[t].status # "unknown"
    /\ poll[t].pc = "ending" => poll[t].status # "running"
    /\ poll[t].status # "running" => uac[t] # "running"
    /\ poll[t].status = "completed" => uac[t] = "succeeded"

\* A request that has stopped the generator, or is about to.
Stopping == {"stopping", "fetching", "storing", "ending", "cancelling"}
Stopped  == Stopping \ {"stopping"}

Stops ==
  \A r \in Requests :
    /\ req[r].pc # "idle" => row[req[r].test].status # "none"
    /\ req[r].pc \in Stopping => launch[req[r].test] \notin {"calling", "started"}
    /\ req[r].pc \in Stopped => uac[req[r].test] # "running"
    /\ req[r].pc = "cancelling" => row[req[r].test].status # "running"

Course == TypeOK /\ Launched /\ Learnt /\ Stops

-----------------------------------------------------------------------------
(* Who answers for a generator.  Every way to lose one is in lost.             *)

Kept ==
  \A t \in Tests : "loose" \notin lost[t] =>
    /\ uac[t] = "running" =>
         \/ row[t].status = "running"
         \/ launch[t] = "started" /\ row[t].status = "pending"
    /\ launch[t] = "calling" => row[t].status = "pending"
    /\ \A r \in Requests : req[r].pc = "deleting" /\ req[r].test = t =>
         uac[t] # "running" /\ launch[t] \notin {"calling", "started"}

\* The count that follows a completion is the last.
Counted ==
  \A t \in Tests :
    /\ uac[t] = "none" => made[t] = 0
    /\ row[t].status = "completed" => poll[t].pc = "none" /\ launch[t] = "idle"
    /\ "server" \notin lost[t] =>
         /\ uac[t] # "none" => entry[t] # "unknown"
         /\ poll[t].pc \in {"storing", "ending"} /\ poll[t].status = "completed" => poll[t].n = made[t]
         /\ poll[t].pc = "ending" /\ poll[t].status = "completed" /\ row[t].status # "deleted"
              => row[t].snap = made[t]
         /\ \A r \in Requests : req[r].pc = "storing" /\ req[r].test = t => req[r].n = made[t]
         /\ row[t].status = "completed" => row[t].snap = made[t]

Answers == Kept /\ RowHasPoller /\ EndIsTrue /\ Counted

LEMMA InitAnswers == Init => Answers
BY DEF Init, Answers, Kept, RowHasPoller, EndIsTrue, Counted, NoPoll, NoReq

LEMMA InitCourse == Init => Course
BY DEF Init, Course, TypeOK, Launched, Learnt, Stops, TestRow, Poller, Request, NoPoll, NoReq,
   Over, Faults, Stopping, Stopped

-----------------------------------------------------------------------------
(* Updates of the records keep their types. *)

RowStatus    == Over \cup {"none", "pending", "running", "not_found", "deleted"}
PollerPc     == {"none", "sleeping", "asking", "fetching", "storing", "ending"}
PollerStatus == Over \cup {"running", "unknown", "not_found"}
RequestPc    == {"idle", "stopping", "fetching", "storing", "ending", "cancelling", "deleting"}

LEMMA RowUpdate ==
  ASSUME NEW x \in TestRow
  PROVE  /\ \A s \in RowStatus : [x EXCEPT !.status = s] \in TestRow
         /\ \A n \in Nat : [x EXCEPT !.snap = n] \in TestRow
         /\ \A s \in Over \cup {"running", "pending"} : s \in RowStatus
BY DEF TestRow, RowStatus

LEMMA PollerUpdate ==
  /\ NoPoll \in Poller /\ Asleep \in Poller /\ [Asleep EXCEPT !.pc = "asking"] \in Poller
  /\ \A x \in Poller :
       /\ x.n \in Nat /\ x.status \in PollerStatus
       /\ \A pc \in PollerPc : [x EXCEPT !.pc = pc] \in Poller
       /\ \A s \in PollerStatus : [x EXCEPT !.pc = "fetching", !.status = s] \in Poller
       /\ \A n \in Nat : [x EXCEPT !.pc = "storing", !.n = n] \in Poller
BY DEF Poller, PollerPc, PollerStatus, Asleep, NoPoll, Over

LEMMA RequestUpdate ==
  ASSUME NEW x \in Request
  PROVE  /\ \A pc \in RequestPc : [x EXCEPT !.pc = pc] \in Request
         /\ \A n \in Nat : [x EXCEPT !.pc = "storing", !.n = n] \in Request
BY DEF Request, RequestPc

-----------------------------------------------------------------------------
(* What the steps with several outcomes change, field by field. *)

LEMMA Fields ==
  ASSUME TypeOK
  PROVE  /\ \A r \in Requests : req[r].test \in Tests
         /\ \A t \in Tests : poll[t].status \in Over \cup {"running", "unknown", "not_found"}
         /\ "none" \notin Over \cup {"running", "unknown", "not_found"}
BY DEF TypeOK, Request, Poller, Over

LEMMA CreateEffect ==
  ASSUME TypeOK, NEW t \in Tests, Create(t)
  PROVE  /\ UNCHANGED <<poll, req, entry, uac, made, lost>>
         /\ \A u \in Tests \ {t} : row'[u] = row[u] /\ launch'[u] = launch[u]
         /\ row[t].status = "none" /\ row'[t].status = "pending"
         /\ launch'[t] = "calling"
BY DEF Create, TypeOK, TestRow

LEMMA LaunchCommitEffect ==
  ASSUME TypeOK, NEW t \in Tests, LaunchCommit(t)
  PROVE  /\ UNCHANGED <<poll, req, entry, uac, made, lost>>
         /\ \A u \in Tests \ {t} : row'[u] = row[u] /\ launch'[u] = launch[u]
         /\ launch[t] = "started" /\ row'[t].snap = row[t].snap
         /\ \/ row[t].status = "deleted" /\ row' = row /\ launch'[t] = "idle"
            \/ row[t].status # "deleted" /\ row'[t].status = "running" /\ launch'[t] = "refreshing"
<1>1. CASE row[t].status = "deleted"
  BY <1>1 DEF LaunchCommit, TypeOK
<1>2. CASE row[t].status # "deleted"
  BY <1>2 DEF LaunchCommit, TypeOK, TestRow
<1>3. QED
  BY <1>1, <1>2

LEMMA PollStoreEffect ==
  ASSUME TypeOK, NEW t \in Tests, PollStore(t)
  PROVE  /\ UNCHANGED <<launch, req, entry, uac, made, lost>>
         /\ \A u \in Tests \ {t} : row'[u] = row[u] /\ poll'[u] = poll[u]
         /\ poll[t].pc = "storing" /\ row'[t].status = row[t].status
         /\ \/ row[t].status = "deleted" /\ row' = row /\ poll'[t].pc = "sleeping"
            \/ /\ row[t].status # "deleted" /\ row'[t].snap = poll[t].n
               /\ \/ poll[t].status = "running" /\ poll'[t].pc = "sleeping"
                  \/ /\ poll[t].status # "running" /\ poll'[t].pc = "ending"
                     /\ poll'[t].status = poll[t].status /\ poll'[t].n = poll[t].n
<1>1. CASE row[t].status = "deleted"
  BY <1>1 DEF PollStore, TypeOK, Asleep, NoPoll
<1>2. CASE row[t].status # "deleted" /\ poll[t].status = "running"
  BY <1>2 DEF PollStore, TypeOK, TestRow, Asleep, NoPoll
<1>3. CASE row[t].status # "deleted" /\ poll[t].status # "running"
  BY <1>3 DEF PollStore, TypeOK, TestRow, Poller
<1>4. QED
  BY <1>1, <1>2, <1>3

LEMMA PollEndEffect ==
  ASSUME TypeOK, NEW t \in Tests, PollEnd(t)
  PROVE  /\ UNCHANGED <<launch, req, entry, uac, made, lost>>
         /\ \A u \in Tests \ {t} : row'[u] = row[u] /\ poll'[u] = poll[u]
         /\ poll[t].pc = "ending" /\ row'[t].snap = row[t].snap
         /\ \/ row[t].status = "deleted" /\ row' = row /\ poll'[t].pc = "sleeping"
            \/ row[t].status # "deleted" /\ row'[t].status = poll[t].status /\ poll'[t].pc = "none"
<1>1. CASE row[t].status = "deleted"
  BY <1>1 DEF PollEnd, TypeOK, Asleep, NoPoll
<1>2. CASE row[t].status # "deleted"
  BY <1>2 DEF PollEnd, TypeOK, TestRow, NoPoll
<1>3. QED
  BY <1>1, <1>2

LEMMA PollFailEffect ==
  ASSUME TypeOK, NEW t \in Tests, PollFail(t)
  PROVE  /\ UNCHANGED <<row, launch, req, entry, uac, made>>
         /\ \A u \in Tests \ {t} : poll'[u] = poll[u] /\ lost'[u] = lost[u]
         /\ poll[t].pc # "none" /\ lost' \in [Tests -> SUBSET Faults]
         /\ "loose" \in lost'[t] <=> "loose" \in lost[t]
         /\ "server" \in lost'[t] <=> "server" \in lost[t]
         /\ \/ poll'[t].pc = "sleeping" /\ lost' = lost
            \/ poll'[t].pc = "none" /\ "unwatched" \in lost'[t]
<1>1. CASE poll[t].pc = "sleeping"
  BY <1>1 DEF PollFail, TypeOK, Faults, NoPoll
<1>2. CASE poll[t].pc # "sleeping"
  BY <1>2 DEF PollFail, TypeOK, Asleep, NoPoll
<1>3. QED
  BY <1>1, <1>2

LEMMA AskEffect ==
  ASSUME TypeOK, NEW r \in Requests, NEW t \in Tests, Ask(r, t)
  PROVE  /\ UNCHANGED <<row, launch, poll, entry, uac, made>>
         /\ \A q \in Requests \ {r} : req'[q] = req[q]
         /\ \A u \in Tests \ {t} : lost'[u] = lost[u]
         /\ lost' \in [Tests -> SUBSET Faults]
         /\ "server" \in lost'[t] <=> "server" \in lost[t]
         /\ "unwatched" \in lost'[t] <=> "unwatched" \in lost[t]
         /\ "loose" \in lost[t] => "loose" \in lost'[t]
         /\ req'[r].test = t
         /\ \/ row[t].status = "running" /\ req'[r].pc = "stopping" /\ lost' = lost
            \/ /\ row[t].status \notin {"none", "deleted", "running"} /\ req'[r].pc = "deleting"
               /\ row[t].status = "pending" => "loose" \in lost'[t]
<1>1. CASE row[t].status = "running"
  BY <1>1 DEF Ask, TypeOK, NoReq
<1>2. CASE row[t].status # "running"
  <2>1. lost' = IF row[t].status = "pending" THEN [lost EXCEPT ![t] = @ \cup {"loose"}] ELSE lost
    BY <1>2 DEF Ask
  <2>2. /\ \A u \in Tests \ {t} : lost'[u] = lost[u]
        /\ lost' \in [Tests -> SUBSET Faults]
        /\ "server" \in lost'[t] <=> "server" \in lost[t]
        /\ "unwatched" \in lost'[t] <=> "unwatched" \in lost[t]
        /\ "loose" \in lost[t] => "loose" \in lost'[t]
        /\ row[t].status = "pending" => "loose" \in lost'[t]
    BY <2>1 DEF TypeOK, Faults
  <2>3. QED
    BY <1>2, <2>2 DEF Ask, TypeOK, NoReq
<1>3. QED
  BY <1>1, <1>2

LEMMA LaunchFailEffect ==
  ASSUME TypeOK, NEW t \in Tests, LaunchFail(t)
  PROVE  /\ UNCHANGED <<poll, req, entry, uac, made>>
         /\ \A u \in Tests \ {t} : /\ launch'[u] = launch[u] /\ row'[u] = row[u]
                                   /\ lost'[u] = lost[u]
         /\ launch[t] # "idle" /\ launch'[t] = "idle" /\ row'[t].snap = row[t].snap
         /\ "loose" \in lost'[t]
         /\ "server" \in lost'[t] <=> "server" \in lost[t]
         /\ \/ /\ row[t].status # "deleted" /\ row'[t].status = "failed"
               /\ "unwatched" \in lost'[t] <=> "unwatched" \in lost[t]
            \/ row' = row /\ "unwatched" \in lost'[t]
<1>1. UNCHANGED <<poll, req, entry, uac, made>> /\ launch[t] # "idle"
      /\ launch' = [launch EXCEPT ![t] = "idle"]
  BY DEF LaunchFail
<1>2. CASE row' = row /\ lost' = [lost EXCEPT ![t] = @ \cup {"loose", "unwatched"}]
  BY <1>1, <1>2 DEF TypeOK
<1>3. CASE /\ row[t].status # "deleted" /\ row' = [row EXCEPT ![t].status = "failed"]
           /\ lost' = [lost EXCEPT ![t] = @ \cup {"loose"}]
  <2>1. row'[t].snap = row[t].snap /\ row'[t].status = "failed"
        /\ \A u \in Tests \ {t} : row'[u] = row[u]
    BY <1>3 DEF TypeOK, TestRow
  <2>2. QED
    BY <1>1, <1>3, <2>1 DEF TypeOK
<1>4. QED
  BY <1>2, <1>3 DEF LaunchFail

LEMMA LaunchCourse ==
  ASSUME Course, NEW t \in Tests,
         Create(t) \/ LaunchStart(t) \/ LaunchCommit(t) \/ LaunchPoll(t) \/ LaunchFail(t)
  PROVE  Course'
<1> USE DEF Course
<1>1. TypeOK'
  <2> USE DEF TypeOK
  <2>1. CASE Create(t)
    <3>1. [row[t] EXCEPT !.status = "pending"] \in TestRow
      BY RowUpdate DEF RowStatus, Over
    <3>2. QED
      BY <2>1, <3>1 DEF Create
  <2>2. CASE LaunchStart(t)
    BY <2>2 DEF LaunchStart
  <2>3. CASE LaunchCommit(t)
    <3>1. [row[t] EXCEPT !.status = "running"] \in TestRow
      BY RowUpdate DEF RowStatus, Over
    <3>2. QED
      BY <2>3, <3>1 DEF LaunchCommit
  <2>4. CASE LaunchPoll(t)
    BY <2>4, PollerUpdate DEF LaunchPoll
  <2>5. CASE LaunchFail(t)
    <3>1. [row[t] EXCEPT !.status = "failed"] \in TestRow
      BY RowUpdate DEF RowStatus, Over
    <3>2. QED
      BY <2>5, <3>1 DEF LaunchFail, Faults
  <2>6. QED
    BY <2>1, <2>2, <2>3, <2>4, <2>5
<1>2. Launched' /\ Learnt' /\ Stops'
  <2> USE DEF TypeOK, Launched, Learnt, Stops, Stopping, Stopped
  <2>1. CASE Create(t)
    BY <2>1, CreateEffect, Fields
  <2>2. CASE LaunchStart(t)
    <3>1. /\ UNCHANGED <<row, poll, req, lost>> /\ launch[t] = "calling"
          /\ launch'[t] = "started" /\ entry'[t] = "running" /\ uac'[t] = "running"
          /\ \A u \in Tests \ {t} : /\ launch'[u] = launch[u] /\ entry'[u] = entry[u]
                                    /\ uac'[u] = uac[u]
      BY <2>2 DEF LaunchStart
    <3>2. Launched'
      BY <3>1
    <3>3. Learnt'
      BY <3>1 DEF Poller
    <3>4. Stops'
      BY <3>1 DEF Request
    <3>5. QED
      BY <3>2, <3>3, <3>4
  <2>3. CASE LaunchCommit(t)
    BY <2>3, LaunchCommitEffect, Fields
  <2>4. CASE LaunchPoll(t)
    BY <2>4 DEF LaunchPoll, Asleep, NoPoll, TestRow, Poller, Request, Over, Faults
  <2>5. CASE LaunchFail(t)
    BY <2>5 DEF LaunchFail, TestRow, Poller, Request, Over, Faults
  <2>6. QED
    BY <2>1, <2>2, <2>3, <2>4, <2>5
<1>3. QED
  BY <1>1, <1>2

LEMMA LaunchAnswers ==
  ASSUME Course, Answers, NEW t \in Tests,
         Create(t) \/ LaunchStart(t) \/ LaunchCommit(t) \/ LaunchPoll(t) \/ LaunchFail(t)
  PROVE  Answers'
<1> USE DEF Course, TypeOK, Launched, Learnt, Stops, Stopping, Stopped
<1>1. Kept'
  <2> USE DEF Answers, Kept
  <2>1. CASE Create(t)
    BY <2>1, CreateEffect
  <2>2. CASE LaunchStart(t)
    BY <2>2 DEF LaunchStart, TestRow, Poller, Request, Over, Faults
  <2>3. CASE LaunchCommit(t)
    BY <2>3, LaunchCommitEffect
  <2>4. CASE LaunchPoll(t)
    BY <2>4 DEF LaunchPoll, Asleep, NoPoll, TestRow, Poller, Request, Over, Faults
  <2>5. CASE LaunchFail(t)
    BY <2>5, LaunchFailEffect
  <2>6. QED
    BY <2>1, <2>2, <2>3, <2>4, <2>5
<1>2. RowHasPoller'
  <2> USE DEF Answers, RowHasPoller
  <2>1. CASE Create(t)
    BY <2>1, CreateEffect
  <2>2. CASE LaunchStart(t)
    BY <2>2 DEF LaunchStart, TestRow, Poller, Request, Over, Faults
  <2>3. CASE LaunchCommit(t)
    BY <2>3, LaunchCommitEffect
  <2>4. CASE LaunchPoll(t)
    BY <2>4 DEF LaunchPoll, Asleep, NoPoll, TestRow, Poller, Request, Over, Faults
  <2>5. CASE LaunchFail(t)
    BY <2>5, LaunchFailEffect
  <2>6. QED
    BY <2>1, <2>2, <2>3, <2>4, <2>5
<1>3. (EndIsTrue /\ Counted)'
  <2> USE DEF Answers, EndIsTrue, Counted
  <2>1. CASE Create(t)
    BY <2>1, CreateEffect
  <2>2. CASE LaunchStart(t)
    BY <2>2 DEF LaunchStart, TestRow, Poller, Request, Over, Faults
  <2>3. CASE LaunchCommit(t)
    BY <2>3, LaunchCommitEffect
  <2>4. CASE LaunchPoll(t)
    BY <2>4 DEF LaunchPoll, Asleep, NoPoll, TestRow, Poller, Request, Over, Faults
  <2>5. CASE LaunchFail(t)
    BY <2>5, LaunchFailEffect
  <2>6. QED
    BY <2>1, <2>2, <2>3, <2>4, <2>5
<1>4. QED
  BY <1>1, <1>2, <1>3 DEF Answers

LEMMA PollCourse ==
  ASSUME Course, NEW t \in Tests,
         PollWake(t) \/ PollAsk(t) \/ PollFetch(t) \/ PollStore(t) \/ PollEnd(t) \/
         PollFail(t)
  PROVE  Course'
<1> USE DEF Course
<1>1. TypeOK'
  <2> USE DEF TypeOK
  <2>1. CASE PollWake(t)
    BY <2>1, PollerUpdate DEF PollWake
  <2>2. CASE PollAsk(t)
    <3>1. Status(t) \in PollerStatus
      BY DEF Status, PollerStatus
    <3>2. [poll[t] EXCEPT !.pc = "fetching", !.status = Status(t)] \in Poller
      BY <3>1, PollerUpdate
    <3>3. QED
      BY <2>2, <3>2 DEF PollAsk
  <2>3. CASE PollFetch(t)
    <3>1. Metrics(t) \in Nat
      BY DEF Metrics
    <3>2. [poll[t] EXCEPT !.pc = "storing", !.n = Metrics(t)] \in Poller
      BY <3>1, PollerUpdate
    <3>3. QED
      BY <2>3, <3>2 DEF PollFetch
  <2>4. CASE PollStore(t)
    <3>1. [row[t] EXCEPT !.snap = poll[t].n] \in TestRow /\ [poll[t] EXCEPT !.pc = "ending"] \in Poller
      BY PollerUpdate, RowUpdate DEF PollerPc
    <3>2. Asleep \in Poller
      BY PollerUpdate
    <3>3. QED
      BY <2>4, <3>1, <3>2 DEF PollStore
  <2>5. CASE PollEnd(t)
    <3>1. poll[t].status \in PollerStatus \ {"unknown"}
      BY <2>5, PollerUpdate DEF PollEnd, Learnt
    <3>2. [row[t] EXCEPT !.status = poll[t].status] \in TestRow
      BY <3>1, RowUpdate DEF PollerStatus, RowStatus
    <3>3. QED
      BY <2>5, <3>2, PollerUpdate DEF PollEnd
  <2>6. CASE PollFail(t)
    <3>1. lost' \in [Tests -> SUBSET Faults]
      BY <2>6, PollFailEffect
    <3>2. poll' \in [Tests -> Poller]
      BY <2>6, PollerUpdate DEF PollFail
    <3>3. QED
      BY <2>6, <3>1, <3>2 DEF PollFail
  <2>7. QED
    BY <2>1, <2>2, <2>3, <2>4, <2>5, <2>6
<1>2. Launched' /\ Learnt' /\ Stops'
  <2> USE DEF TypeOK, Launched, Learnt, Stops, Stopping, Stopped
  <2>1. CASE PollWake(t)
    BY <2>1 DEF PollWake, Asleep, NoPoll, TestRow, Poller, Request, Over, Faults
  <2>2. CASE PollAsk(t)
    BY <2>2 DEF PollAsk, Status, TestRow, Poller, Request, Over, Faults
  <2>3. CASE PollFetch(t)
    BY <2>3 DEF PollFetch, Metrics, TestRow, Poller, Request, Over, Faults
  <2>4. CASE PollStore(t)
    BY <2>4, PollStoreEffect, Fields
  <2>5. CASE PollEnd(t)
    <3>1. launch[t] = "idle" /\ row[t].status # "none"
      BY <2>5, PollEndEffect
    <3>2. \/ row'[t].status = row[t].status
          \/ row'[t].status \notin {"none", "running"}
      BY <2>5, PollEndEffect, Fields
    <3>3. poll'[t].pc \in {"none", "sleeping"}
      BY <2>5, PollEndEffect
    <3>4. Launched'
      BY <2>5, <3>1, <3>2, <3>3, PollEndEffect
    <3>5. Learnt'
      BY <2>5, <3>3, PollEndEffect
    <3>6. Stops'
      BY <2>5, <3>1, <3>2, PollEndEffect, Fields
    <3>7. QED
      BY <3>4, <3>5, <3>6
  <2>6. CASE PollFail(t)
    BY <2>6, PollFailEffect, Fields
  <2>7. QED
    BY <2>1, <2>2, <2>3, <2>4, <2>5, <2>6
<1>3. QED
  BY <1>1, <1>2

LEMMA PollAnswers ==
  ASSUME Course, Answers, NEW t \in Tests,
         PollWake(t) \/ PollAsk(t) \/ PollFetch(t) \/ PollStore(t) \/ PollEnd(t) \/
         PollFail(t)
  PROVE  Answers'
<1> USE DEF Course, TypeOK, Launched, Learnt, Stops, Stopping, Stopped
<1>1. Kept'
  <2> USE DEF Answers, Kept
  <2>1. CASE PollWake(t)
    BY <2>1 DEF PollWake, Asleep, NoPoll, TestRow, Poller, Request, Over, Faults
  <2>2. CASE PollAsk(t)
    BY <2>2 DEF PollAsk, Status, TestRow, Poller, Request, Over, Faults
  <2>3. CASE PollFetch(t)
    BY <2>3 DEF PollFetch, Metrics, TestRow, Poller, Request, Over, Faults
  <2>4. CASE PollStore(t)
    BY <2>4, PollStoreEffect
  <2>5. CASE PollEnd(t)
    BY <2>5, PollEndEffect
  <2>6. CASE PollFail(t)
    BY <2>6, PollFailEffect
  <2>7. QED
    BY <2>1, <2>2, <2>3, <2>4, <2>5, <2>6
<1>2. RowHasPoller'
  <2> USE DEF Answers, RowHasPoller
  <2>1. CASE PollWake(t)
    BY <2>1 DEF PollWake, Asleep, NoPoll, TestRow, Poller, Request, Over, Faults
  <2>2. CASE PollAsk(t)
    BY <2>2 DEF PollAsk, Status, TestRow, Poller, Request, Over, Faults
  <2>3. CASE PollFetch(t)
    BY <2>3 DEF PollFetch, Metrics, TestRow, Poller, Request, Over, Faults
  <2>4. CASE PollStore(t)
    BY <2>4, PollStoreEffect
  <2>5. CASE PollEnd(t)
    BY <2>5, PollEndEffect, Fields DEF Over
  <2>6. CASE PollFail(t)
    BY <2>6, PollFailEffect
  <2>7. QED
    BY <2>1, <2>2, <2>3, <2>4, <2>5, <2>6
<1>3. (EndIsTrue /\ Counted)'
  <2> USE DEF Answers, EndIsTrue, Counted
  <2>1. CASE PollWake(t)
    BY <2>1 DEF PollWake, Asleep, NoPoll, TestRow, Poller, Request, Over, Faults
  <2>2. CASE PollAsk(t)
    BY <2>2 DEF PollAsk, Status, TestRow, Poller, Request, Over, Faults
  <2>3. CASE PollFetch(t)
    BY <2>3 DEF PollFetch, Metrics, TestRow, Poller, Request, Over, Faults
  <2>4. CASE PollStore(t)
    BY <2>4, PollStoreEffect
  <2>5. CASE PollEnd(t)
    BY <2>5, PollEndEffect
  <2>6. CASE PollFail(t)
    BY <2>6, PollFailEffect
  <2>7. QED
    BY <2>1, <2>2, <2>3, <2>4, <2>5, <2>6
<1>4. QED
  BY <1>1, <1>2, <1>3 DEF Answers

LEMMA StopCourse ==
  ASSUME Course, NEW r \in Requests,
         (\E t \in Tests : Ask(r, t)) \/ StopRemote(r) \/ StopFetch(r) \/ StopStore(r) \/ StopCommit(r) \/
         StopCancel(r) \/ StopFail(r) \/ Delete(r)
  PROVE  Course'
<1> USE DEF Course
<1>1. TypeOK'
  <2> USE DEF TypeOK
  <2>1. CASE \E t \in Tests : Ask(r, t)
    <3>1. PICK t \in Tests : Ask(r, t)
      BY <2>1
    <3>2. \A kind \in {"stop", "delete"}, pc \in {"stopping", "deleting"} :
            [NoReq(t) EXCEPT !.pc = pc, !.kind = kind] \in Request
      BY DEF NoReq, Request
    <3>3. lost' \in [Tests -> SUBSET Faults]
      BY <3>1, AskEffect
    <3>4. req' \in [Requests -> Request]
      BY <3>1, <3>2 DEF Ask
    <3>5. QED
      BY <3>1, <3>3, <3>4 DEF Ask
  <2>2. CASE StopRemote(r)
    <3>1. [req[r] EXCEPT !.pc = "fetching"] \in Request
      BY RequestUpdate DEF RequestPc
    <3>2. req[r].test \in Tests
      BY DEF Request
    <3>3. QED
      BY <2>2, <3>1, <3>2 DEF StopRemote, Over
  <2>3. CASE StopFetch(r)
    <3>1. Metrics(req[r].test) \in Nat
      BY DEF Metrics, Request
    <3>2. [req[r] EXCEPT !.pc = "storing", !.n = Metrics(req[r].test)] \in Request
      BY <3>1, RequestUpdate
    <3>3. QED
      BY <2>3, <3>2 DEF StopFetch
  <2>4. CASE StopStore(r)
    <3>1. req[r].test \in Tests /\ req[r].n \in Nat
      BY DEF Request
    <3>2. [req[r] EXCEPT !.pc = "ending"] \in Request
      BY RequestUpdate DEF RequestPc
    <3>3. [row[req[r].test] EXCEPT !.snap = req[r].n] \in TestRow
      BY <3>1, RowUpdate DEF RowStatus, Over
    <3>4. QED
      BY <2>4, <3>1, <3>2, <3>3 DEF StopStore
  <2>5. CASE StopCommit(r)
    <3>1. req[r].test \in Tests
      BY DEF Request
    <3>2. [req[r] EXCEPT !.pc = "cancelling"] \in Request
      BY RequestUpdate DEF RequestPc
    <3>3. [row[req[r].test] EXCEPT !.status = "stopped"] \in TestRow
      BY <3>1, RowUpdate DEF RowStatus, Over
    <3>4. QED
      BY <2>5, <3>1, <3>2, <3>3 DEF StopCommit
  <2>6. CASE StopCancel(r)
    <3>1. req[r].test \in Tests
      BY DEF Request
    <3>2. [req[r] EXCEPT !.pc = "deleting"] \in Request /\ [req[r] EXCEPT !.pc = "idle"] \in Request
      BY RequestUpdate DEF RequestPc
    <3>3. Onward(r) \in [Requests -> Request]
      BY <3>2 DEF Onward
    <3>4. QED
      BY <2>6, <3>1, <3>3, PollerUpdate DEF StopCancel
  <2>7. CASE StopFail(r)
    <3>1. req[r].test \in Tests
      BY DEF Request
    <3>2. [req[r] EXCEPT !.pc = "deleting"] \in Request /\ [req[r] EXCEPT !.pc = "idle"] \in Request
      BY RequestUpdate DEF RequestPc
    <3>3. Onward(r) \in [Requests -> Request]
      BY <3>2 DEF Onward
    <3>4. lost' \in [Tests -> SUBSET Faults]
      BY <2>7, <3>1 DEF StopFail, Faults
    <3>5. QED
      BY <2>7, <3>3, <3>4 DEF StopFail
  <2>8. CASE Delete(r)
    <3>1. [req[r] EXCEPT !.pc = "idle"] \in Request
      BY RequestUpdate DEF RequestPc
    <3>2. [status |-> "deleted", snap |-> 0] \in TestRow /\ req[r].test \in Tests
      BY DEF TestRow, Request
    <3>3. QED
      BY <2>8, <3>1, <3>2 DEF Delete
  <2>9. QED
    BY <2>1, <2>2, <2>3, <2>4, <2>5, <2>6, <2>7, <2>8
<1>2. Launched' /\ Learnt' /\ Stops'
  <2> USE DEF TypeOK, Launched, Learnt, Stops, Stopping, Stopped
  <2>1. CASE \E t \in Tests : Ask(r, t)
    <3>1. PICK t \in Tests : Ask(r, t)
      BY <2>1
    <3>2. QED
      BY <3>1, AskEffect
  <2>2. CASE StopRemote(r)
    BY <2>2 DEF StopRemote, TestRow, Poller, Request, Over, Faults
  <2>3. CASE StopFetch(r)
    BY <2>3 DEF StopFetch, Metrics, TestRow, Poller, Request, Over, Faults
  <2>4. CASE StopStore(r)
    BY <2>4 DEF StopStore, TestRow, Poller, Request, Over, Faults
  <2>5. CASE StopCommit(r)
    BY <2>5 DEF StopCommit, TestRow, Poller, Request, Over, Faults
  <2>6. CASE StopCancel(r)
    BY <2>6 DEF StopCancel, Onward, NoPoll, TestRow, Poller, Request, Over, Faults
  <2>7. CASE StopFail(r)
    BY <2>7 DEF StopFail, Onward, TestRow, Poller, Request, Over, Faults
  <2>8. CASE Delete(r)
    BY <2>8 DEF Delete, TestRow, Poller, Request, Over, Faults
  <2>9. QED
    BY <2>1, <2>2, <2>3, <2>4, <2>5, <2>6, <2>7, <2>8
<1>3. QED
  BY <1>1, <1>2

LEMMA StopAnswers ==
  ASSUME Course, Answers, NEW r \in Requests,
         (\E t \in Tests : Ask(r, t)) \/ StopRemote(r) \/ StopFetch(r) \/ StopStore(r) \/ StopCommit(r) \/
         StopCancel(r) \/ StopFail(r) \/ Delete(r)
  PROVE  Answers'
<1> USE DEF Course, TypeOK, Launched, Learnt, Stops, Stopping, Stopped
<1>1. Kept'
  <2> USE DEF Answers, Kept
  <2>1. CASE \E t \in Tests : Ask(r, t)
    <3>1. PICK t \in Tests : Ask(r, t)
      BY <2>1
    <3>2. QED
      BY <3>1, AskEffect
  <2>2. CASE StopRemote(r)
    BY <2>2 DEF StopRemote, TestRow, Poller, Request, Over, Faults
  <2>3. CASE StopFetch(r)
    BY <2>3 DEF StopFetch, Metrics, TestRow, Poller, Request, Over, Faults
  <2>4. CASE StopStore(r)
    BY <2>4 DEF StopStore, TestRow, Poller, Request, Over, Faults
  <2>5. CASE StopCommit(r)
    BY <2>5 DEF StopCommit, TestRow, Poller, Request, Over, Faults
  <2>6. CASE StopCancel(r)
    BY <2>6 DEF StopCancel, Onward, NoPoll, TestRow, Poller, Request, Over, Faults
  <2>7. CASE StopFail(r)
    BY <2>7 DEF StopFail, Onward, TestRow, Poller, Request, Over, Faults
  <2>8. CASE Delete(r)
    BY <2>8 DEF Delete, TestRow, Poller, Request, Over, Faults
  <2>9. QED
    BY <2>1, <2>2, <2>3, <2>4, <2>5, <2>6, <2>7, <2>8
<1>2. RowHasPoller'
  <2> USE DEF Answers, RowHasPoller
  <2>1. CASE \E t \in Tests : Ask(r, t)
    <3>1. PICK t \in Tests : Ask(r, t)
      BY <2>1
    <3>2. QED
      BY <3>1, AskEffect
  <2>2. CASE StopRemote(r)
    BY <2>2 DEF StopRemote, TestRow, Poller, Request, Over, Faults
  <2>3. CASE StopFetch(r)
    BY <2>3 DEF StopFetch, Metrics, TestRow, Poller, Request, Over, Faults
  <2>4. CASE StopStore(r)
    BY <2>4 DEF StopStore, TestRow, Poller, Request, Over, Faults
  <2>5. CASE StopCommit(r)
    BY <2>5 DEF StopCommit, TestRow, Poller, Request, Over, Faults
  <2>6. CASE StopCancel(r)
    BY <2>6 DEF StopCancel, Onward, NoPoll, TestRow, Poller, Request, Over, Faults
  <2>7. CASE StopFail(r)
    BY <2>7 DEF StopFail, Onward, TestRow, Poller, Request, Over, Faults
  <2>8. CASE Delete(r)
    BY <2>8 DEF Delete, TestRow, Poller, Request, Over, Faults
  <2>9. QED
    BY <2>1, <2>2, <2>3, <2>4, <2>5, <2>6, <2>7, <2>8
<1>3. (EndIsTrue /\ Counted)'
  <2> USE DEF Answers, EndIsTrue, Counted
  <2>1. CASE \E t \in Tests : Ask(r, t)
    <3>1. PICK t \in Tests : Ask(r, t)
      BY <2>1
    <3>2. QED
      BY <3>1, AskEffect
  <2>2. CASE StopRemote(r)
    BY <2>2 DEF StopRemote, TestRow, Poller, Request, Over, Faults
  <2>3. CASE StopFetch(r)
    BY <2>3 DEF StopFetch, Metrics, TestRow, Poller, Request, Over, Faults
  <2>4. CASE StopStore(r)
    BY <2>4 DEF StopStore, TestRow, Poller, Request, Over, Faults
  <2>5. CASE StopCommit(r)
    BY <2>5 DEF StopCommit, TestRow, Poller, Request, Over, Faults
  <2>6. CASE StopCancel(r)
    BY <2>6 DEF StopCancel, Onward, NoPoll, TestRow, Poller, Request, Over, Faults
  <2>7. CASE StopFail(r)
    BY <2>7 DEF StopFail, Onward, TestRow, Poller, Request, Over, Faults
  <2>8. CASE Delete(r)
    BY <2>8 DEF Delete, TestRow, Poller, Request, Over, Faults
  <2>9. QED
    BY <2>1, <2>2, <2>3, <2>4, <2>5, <2>6, <2>7, <2>8
<1>4. QED
  BY <1>1, <1>2, <1>3 DEF Answers

LEMMA ProcessCourse ==
  ASSUME Course, NEW t \in Tests,
         Call(t) \/ Exit(t) \/ Monitor(t)
  PROVE  Course'
<1> USE DEF Course
<1>1. TypeOK'
  <2> USE DEF TypeOK
  <2>1. CASE Call(t)
    BY <2>1 DEF Call
  <2>2. CASE Exit(t)
    BY <2>2 DEF Exit
  <2>3. CASE Monitor(t)
    BY <2>3 DEF Monitor, Over
  <2>4. QED
    BY <2>1, <2>2, <2>3
<1>2. Launched' /\ Learnt' /\ Stops'
  <2> USE DEF TypeOK, Launched, Learnt, Stops, Stopping, Stopped
  <2>1. CASE Call(t)
    BY <2>1 DEF Call, TestRow, Poller, Request, Over, Faults
  <2>2. CASE Exit(t)
    BY <2>2 DEF Exit, TestRow, Poller, Request, Over, Faults
  <2>3. CASE Monitor(t)
    BY <2>3 DEF Monitor, TestRow, Poller, Request, Over, Faults
  <2>4. QED
    BY <2>1, <2>2, <2>3
<1>3. QED
  BY <1>1, <1>2

LEMMA ProcessAnswers ==
  ASSUME Course, Answers, NEW t \in Tests,
         Call(t) \/ Exit(t) \/ Monitor(t)
  PROVE  Answers'
<1> USE DEF Course, TypeOK, Launched, Learnt, Stops, Stopping, Stopped
<1>1. Kept'
  <2> USE DEF Answers, Kept
  <2>1. CASE Call(t)
    BY <2>1 DEF Call, TestRow, Poller, Request, Over, Faults
  <2>2. CASE Exit(t)
    BY <2>2 DEF Exit, TestRow, Poller, Request, Over, Faults
  <2>3. CASE Monitor(t)
    BY <2>3 DEF Monitor, TestRow, Poller, Request, Over, Faults
  <2>4. QED
    BY <2>1, <2>2, <2>3
<1>2. RowHasPoller'
  <2> USE DEF Answers, RowHasPoller
  <2>1. CASE Call(t)
    BY <2>1 DEF Call, TestRow, Poller, Request, Over, Faults
  <2>2. CASE Exit(t)
    BY <2>2 DEF Exit, TestRow, Poller, Request, Over, Faults
  <2>3. CASE Monitor(t)
    BY <2>3 DEF Monitor, TestRow, Poller, Request, Over, Faults
  <2>4. QED
    BY <2>1, <2>2, <2>3
<1>3. (EndIsTrue /\ Counted)'
  <2> USE DEF Answers, EndIsTrue, Counted
  <2>1. CASE Call(t)
    BY <2>1 DEF Call, TestRow, Poller, Request, Over, Faults
  <2>2. CASE Exit(t)
    BY <2>2 DEF Exit, TestRow, Poller, Request, Over, Faults
  <2>3. CASE Monitor(t)
    BY <2>3 DEF Monitor, TestRow, Poller, Request, Over, Faults
  <2>4. QED
    BY <2>1, <2>2, <2>3
<1>4. QED
  BY <1>1, <1>2, <1>3 DEF Answers

LEMMA RestartCourse ==
  ASSUME Course, ServerRestart \/ BackendRestart
  PROVE  Course'
<1> USE DEF Course
<1>1. TypeOK'
  <2> USE DEF TypeOK
  <2>1. CASE ServerRestart
    BY <2>1 DEF ServerRestart, Faults
  <2>2. CASE BackendRestart
    BY <2>2, PollerUpdate DEF BackendRestart, NoReq, Request, Faults
  <2>3. QED
    BY <2>1, <2>2
<1>2. Launched' /\ Learnt' /\ Stops'
  <2> USE DEF TypeOK, Launched, Learnt, Stops, Stopping, Stopped
  <2>1. CASE ServerRestart
    BY <2>1 DEF ServerRestart, TestRow, Poller, Request, Over, Faults
  <2>2. CASE BackendRestart
    BY <2>2 DEF BackendRestart, NoPoll, NoReq, TestRow, Poller, Request, Over, Faults
  <2>3. QED
    BY <2>1, <2>2
<1>3. QED
  BY <1>1, <1>2

LEMMA RestartAnswers ==
  ASSUME Course, Answers, ServerRestart \/ BackendRestart
  PROVE  Answers'
<1> USE DEF Course, TypeOK, Launched, Learnt, Stops, Stopping, Stopped
<1>1. Kept'
  <2> USE DEF Answers, Kept
  <2>1. CASE ServerRestart
    BY <2>1 DEF ServerRestart, TestRow, Poller, Request, Over, Faults
  <2>2. CASE BackendRestart
    BY <2>2 DEF BackendRestart, NoPoll, NoReq, TestRow, Poller, Request, Over, Faults
  <2>3. QED
    BY <2>1, <2>2
<1>2. RowHasPoller'
  <2> USE DEF Answers, RowHasPoller
  <2>1. CASE ServerRestart
    BY <2>1 DEF ServerRestart, TestRow, Poller, Request, Over, Faults
  <2>2. CASE BackendRestart
    BY <2>2 DEF BackendRestart, NoPoll, NoReq, TestRow, Poller, Request, Over, Faults
  <2>3. QED
    BY <2>1, <2>2
<1>3. (EndIsTrue /\ Counted)'
  <2> USE DEF Answers, EndIsTrue, Counted
  <2>1. CASE ServerRestart
    BY <2>1 DEF ServerRestart, TestRow, Poller, Request, Over, Faults
  <2>2. CASE BackendRestart
    BY <2>2 DEF BackendRestart, NoPoll, NoReq, TestRow, Poller, Request, Over, Faults
  <2>3. QED
    BY <2>1, <2>2
<1>4. QED
  BY <1>1, <1>2, <1>3 DEF Answers

-----------------------------------------------------------------------------
(* The invariant, and what follows from it. *)

Inv == Course /\ Answers

LEMMA InitInv == Init => Inv
BY InitCourse, InitAnswers DEF Inv

LEMMA NextInv == Inv /\ [Next]_vars => Inv'
<1> SUFFICES ASSUME Inv, [Next]_vars
            PROVE  Inv'
  OBVIOUS
<1>i. Course /\ Answers
  BY DEF Inv
<1>1. CASE \E t \in Tests : TestNext(t)
  <2>1. PICK t \in Tests : TestNext(t)
    BY <1>1
  <2>2. CASE Create(t) \/ LaunchStart(t) \/ LaunchCommit(t) \/ LaunchPoll(t) \/ LaunchFail(t)
    BY <1>i, <2>2, LaunchCourse, LaunchAnswers DEF Inv
  <2>3. CASE PollWake(t) \/ PollAsk(t) \/ PollFetch(t) \/ PollStore(t) \/ PollEnd(t) \/ PollFail(t)
    BY <1>i, <2>3, PollCourse, PollAnswers DEF Inv
  <2>4. CASE Call(t) \/ Exit(t) \/ Monitor(t)
    BY <1>i, <2>4, ProcessCourse, ProcessAnswers DEF Inv
  <2>5. QED
    BY <2>1, <2>2, <2>3, <2>4 DEF TestNext
<1>2. CASE \E r \in Requests : RequestNext(r)
  <2>1. PICK r \in Requests : RequestNext(r)
    BY <1>2
  <2>2. QED
    BY <1>i, <2>1, StopCourse, StopAnswers DEF RequestNext, Inv
<1>3. CASE ServerRestart \/ BackendRestart
  BY <1>i, <1>3, RestartCourse, RestartAnswers DEF Inv
<1>4. CASE UNCHANGED vars
  <2>1. Course'
    BY <1>i, <1>4 DEF vars, Course, TypeOK, Launched, Learnt, Stops
  <2>2. Answers'
    BY <1>i, <1>4 DEF vars, Answers, Kept, RowHasPoller, EndIsTrue, Counted
  <2>3. QED
    BY <2>1, <2>2 DEF Inv
<1>5. QED
  BY <1>1, <1>2, <1>3, <1>4 DEF Next

LEMMA InvAlways == Spec => []Inv
BY InitInv, NextInv, PTL DEF Spec

\* Every variable keeps its type: in particular no row gets the status of a server
\* that is unknown to the table of the rows.
THEOREM TypeCorrect == Spec => []TypeOK
<1>1. Inv => TypeOK
  BY DEF Inv, Course
<1>2. QED
  BY <1>1, InvAlways, PTL

\* A generator that runs has a row that says so or a launch in progress, whatever
\* the order of launches, polls, stops, deletes and restarts: what may lose it is
\* a failed launch or stop, a delete during the launch and a restart of the backend.
THEOREM GeneratorHasRow == Spec => []NoOrphan
<1>1. Inv => NoOrphan
  BY DEF Inv, Answers, Kept, NoOrphan
<1>2. QED
  BY <1>1, InvAlways, PTL

\* A row that says running is watched by a poller and one that says pending is being
\* launched, unless a restart, a poll without its row or a launch whose failure could
\* not be stored is on record.
THEOREM RunningIsWatched == Spec => []RowHasPoller
<1>1. Inv => RowHasPoller
  BY DEF Inv, Answers
<1>2. QED
  BY <1>1, InvAlways, PTL

\* A completed test exited with code 0 and a stopped one runs no more, also when a
\* stop request and the poller write the end of the same test in either order.
THEOREM EndOfRowIsTrue == Spec => []EndIsTrue
<1>1. Inv => EndIsTrue
  BY DEF Inv, Answers
<1>2. QED
  BY <1>1, InvAlways, PTL

\* The latest snapshot of a completed test counts all of its calls.
THEOREM SnapshotIsFinal == Spec => []FinalSnapshot
<1>1. Inv => FinalSnapshot
  BY DEF Inv, Answers, Counted, FinalSnapshot
<1>2. QED
  BY <1>1, InvAlways, PTL

=============================================================================
