----------------------------- MODULE StressTest -----------------------------
(***************************************************************************)
(* SIPp stress tests: the backend's rows, launches, pollers and stop or      *)
(* delete requests (services/stress_test_service.py, routers/stress_tests.py) *)
(* and the sipp-stress server that runs the call generators                  *)
(* (sipp_runner.py, mcp_server.py).  A generator is the UAC process; the      *)
(* receiver, the metrics other than the number of calls and the listings     *)
(* are left out.                                                             *)
(***************************************************************************)
EXTENDS Integers

CONSTANTS
  Tests,         \* rows of stress_test, each launched once
  Requests,      \* requests that stop or delete a test
  MaxCalls       \* calls of a test, the option -m of SIPp

ASSUME StressAssumption == MaxCalls \in Nat

VARIABLES
  row,           \* stress_test, with the count of the latest snapshot
  launch,        \* the POST that creates and launches a test
  poll,          \* _poll_metrics of each test
  req,           \* the stop and delete requests
  entry,         \* SippRunner.tests: the status of a RunningTest, or unknown
  uac,           \* the generator itself
  made,          \* the calls it has made
  lost           \* history: a launch or stop that may leave the generator loose, a
                 \* poller that died or a failed launch that could not be stored, a
                 \* restart of the server

vars == <<row, launch, poll, req, entry, uac, made, lost>>

Over == {"completed", "failed", "stopped"}

NoPoll == [pc |-> "none", status |-> "unknown", n |-> 0]
Asleep == [NoPoll EXCEPT !.pc = "sleeping"]
NoReq(t) == [pc |-> "idle", kind |-> "stop", test |-> t, n |-> 0]

\* get_status and get_metrics of the server.
Status(t)  == IF entry[t] = "unknown" THEN "not_found" ELSE entry[t]
Metrics(t) == IF entry[t] = "unknown" THEN 0 ELSE made[t]

-----------------------------------------------------------------------------
(* POST /stress-tests *)

Create(t) ==
  /\ row[t].status = "none"
  /\ row' = [row EXCEPT ![t].status = "pending"]
  /\ launch' = [launch EXCEPT ![t] = "calling"]
  /\ UNCHANGED <<poll, req, entry, uac, made, lost>>

\* start() on the server.
LaunchStart(t) ==
  /\ launch[t] = "calling"
  /\ launch' = [launch EXCEPT ![t] = "started"]
  /\ entry' = [entry EXCEPT ![t] = "running"]
  /\ uac' = [uac EXCEPT ![t] = "running"]
  /\ UNCHANGED <<row, poll, req, made, lost>>

\* The answer is stored, if the row is still there.
LaunchCommit(t) ==
  /\ launch[t] = "started"
  /\ IF row[t].status = "deleted"
     THEN launch' = [launch EXCEPT ![t] = "idle"] /\ UNCHANGED row
     ELSE /\ launch' = [launch EXCEPT ![t] = "refreshing"]
          /\ row' = [row EXCEPT ![t].status = "running"]
  /\ UNCHANGED <<poll, req, entry, uac, made, lost>>

\* After the refresh, the poller.
LaunchPoll(t) ==
  /\ launch[t] = "refreshing"
  /\ launch' = [launch EXCEPT ![t] = "idle"]
  /\ poll' = [poll EXCEPT ![t] = Asleep]
  /\ UNCHANGED <<row, req, entry, uac, made, lost>>

\* An exception on the way, whether or not the server has started the test and the
\* row says so.  The commit that stores the failure may fail as well, and does when
\* the row is gone: then the row stays as it is.
LaunchFail(t) ==
  /\ launch[t] # "idle"
  /\ launch' = [launch EXCEPT ![t] = "idle"]
  /\ \/ /\ row[t].status # "deleted"
        /\ row' = [row EXCEPT ![t].status = "failed"]
        /\ lost' = [lost EXCEPT ![t] = @ \cup {"loose"}]
     \/ /\ lost' = [lost EXCEPT ![t] = @ \cup {"loose", "unwatched"}]
        /\ UNCHANGED row
  /\ UNCHANGED <<poll, req, entry, uac, made>>

-----------------------------------------------------------------------------
(* _poll_metrics *)

\* The five seconds are over; the row decides whether to go on.
PollWake(t) ==
  /\ poll[t].pc = "sleeping"
  /\ poll' = [poll EXCEPT ![t] = IF row[t].status \in {"running", "pending"}
                                 THEN [Asleep EXCEPT !.pc = "asking"] ELSE NoPoll]
  /\ UNCHANGED <<row, launch, req, entry, uac, made, lost>>

PollAsk(t) ==
  /\ poll[t].pc = "asking"
  /\ poll' = [poll EXCEPT ![t].pc = "fetching", ![t].status = Status(t)]
  /\ UNCHANGED <<row, launch, req, entry, uac, made, lost>>

PollFetch(t) ==
  /\ poll[t].pc = "fetching"
  /\ poll' = [poll EXCEPT ![t].pc = "storing", ![t].n = Metrics(t)]
  /\ UNCHANGED <<row, launch, req, entry, uac, made, lost>>

\* Mutant of PollStore: only a completed test ends the loop.
PollStoreCompleted(t) ==
  /\ poll[t].pc = "storing"
  /\ IF row[t].status = "deleted"
     THEN poll' = [poll EXCEPT ![t] = Asleep] /\ UNCHANGED row
     ELSE /\ row' = [row EXCEPT ![t].snap = poll[t].n]
          /\ poll' = [poll EXCEPT ![t] = IF poll[t].status # "completed" THEN Asleep
                                         ELSE [@ EXCEPT !.pc = "ending"]]
  /\ UNCHANGED <<launch, req, entry, uac, made, lost>>

\* Mutant of PollStore: the loop is left before the snapshot.
PollStoreEndFirst(t) ==
  /\ poll[t].pc = "storing"
  /\ IF poll[t].status # "running"
     THEN poll' = [poll EXCEPT ![t].pc = "ending"] /\ UNCHANGED row
     ELSE /\ row' = IF row[t].status = "deleted" THEN row ELSE [row EXCEPT ![t].snap = poll[t].n]
          /\ poll' = [poll EXCEPT ![t] = Asleep]
  /\ UNCHANGED <<launch, req, entry, uac, made, lost>>

\* The snapshot is committed; a row that is gone refuses it.
PollStore(t) ==
  /\ poll[t].pc = "storing"
  /\ IF row[t].status = "deleted"
     THEN poll' = [poll EXCEPT ![t] = Asleep] /\ UNCHANGED row
     ELSE /\ row' = [row EXCEPT ![t].snap = poll[t].n]
          /\ poll' = [poll EXCEPT ![t] = IF poll[t].status = "running" THEN Asleep
                                         ELSE [@ EXCEPT !.pc = "ending"]]
  /\ UNCHANGED <<launch, req, entry, uac, made, lost>>

\* The status the server gave becomes that of the row.
PollEnd(t) ==
  /\ poll[t].pc = "ending"
  /\ IF row[t].status = "deleted"
     THEN poll' = [poll EXCEPT ![t] = Asleep] /\ UNCHANGED row
     ELSE /\ row' = [row EXCEPT ![t].status = poll[t].status]
          /\ poll' = [poll EXCEPT ![t] = NoPoll]
  /\ UNCHANGED <<launch, req, entry, uac, made, lost>>

\* Mutant of PollFail: any exception ends the poller.
PollFailForGood(t) ==
  /\ poll[t].pc \notin {"none", "sleeping"}
  /\ poll' = [poll EXCEPT ![t] = NoPoll]
  /\ UNCHANGED <<row, launch, req, entry, uac, made, lost>>

\* An exception in the body is logged; one in the read of the row ends the poller.
PollFail(t) ==
  /\ \/ /\ poll[t].pc \in {"asking", "fetching", "storing", "ending"}
        /\ poll' = [poll EXCEPT ![t] = Asleep]
        /\ UNCHANGED lost
     \/ /\ poll[t].pc = "sleeping"
        /\ poll' = [poll EXCEPT ![t] = NoPoll]
        /\ lost' = [lost EXCEPT ![t] = @ \cup {"unwatched"}]
  /\ UNCHANGED <<row, launch, req, entry, uac, made>>

-----------------------------------------------------------------------------
(* POST /stop and DELETE, with stop_test *)

\* Mutant of Ask: a running test is deleted without being stopped.
AskOnly(r, t) ==
  /\ req[r].pc = "idle"
  /\ row[t].status \notin {"none", "deleted", "pending"}
  /\ req' = [req EXCEPT ![r] = [NoReq(t) EXCEPT !.pc = "deleting", !.kind = "delete"]]
  /\ UNCHANGED <<row, launch, poll, entry, uac, made, lost>>

\* Only a running test is stopped; any is deleted, a running one stopped before.
Ask(r, t) ==
  /\ req[r].pc = "idle"
  /\ \/ /\ row[t].status = "running"
        /\ \E kind \in {"stop", "delete"} :
             req' = [req EXCEPT ![r] = [NoReq(t) EXCEPT !.pc = "stopping", !.kind = kind]]
        /\ UNCHANGED lost
     \/ /\ row[t].status \notin {"none", "deleted", "running"}
        /\ req' = [req EXCEPT ![r] = [NoReq(t) EXCEPT !.pc = "deleting", !.kind = "delete"]]
        /\ lost' = IF row[t].status = "pending" THEN [lost EXCEPT ![t] = @ \cup {"loose"}]
                                                ELSE lost
  /\ UNCHANGED <<row, launch, poll, entry, uac, made>>

\* Mutant of StopRemote: a generator that does not heed the signal goes on.
StopRemoteMildly(r) ==
  LET t == req[r].test IN
  /\ req[r].pc = "stopping"
  /\ entry' = IF entry[t] = "unknown" THEN entry ELSE [entry EXCEPT ![t] = "stopped"]
  /\ req' = [req EXCEPT ![r].pc = "fetching"]
  /\ UNCHANGED <<row, launch, poll, uac, made, lost>>

\* stop() on the server: a generator that has not ended five seconds after the
\* signal is killed.
StopRemote(r) ==
  LET t == req[r].test IN
  /\ req[r].pc = "stopping"
  /\ IF entry[t] = "unknown" THEN UNCHANGED <<entry, uac>>
     ELSE /\ entry' = [entry EXCEPT ![t] = "stopped"]
          /\ uac' = IF uac[t] = "running" THEN [uac EXCEPT ![t] = "killed"] ELSE uac
  /\ req' = [req EXCEPT ![r].pc = "fetching"]
  /\ UNCHANGED <<row, launch, poll, made, lost>>

StopFetch(r) ==
  /\ req[r].pc = "fetching"
  /\ req' = [req EXCEPT ![r].pc = "storing", ![r].n = Metrics(req[r].test)]
  /\ UNCHANGED <<row, launch, poll, entry, uac, made, lost>>

StopStore(r) ==
  LET t == req[r].test IN
  /\ req[r].pc = "storing" /\ row[t].status # "deleted"
  /\ row' = [row EXCEPT ![t].snap = req[r].n]
  /\ req' = [req EXCEPT ![r].pc = "ending"]
  /\ UNCHANGED <<launch, poll, entry, uac, made, lost>>

StopCommit(r) ==
  LET t == req[r].test IN
  /\ req[r].pc = "ending" /\ row[t].status # "deleted"
  /\ row' = [row EXCEPT ![t].status = "stopped"]
  /\ req' = [req EXCEPT ![r].pc = "cancelling"]
  /\ UNCHANGED <<launch, poll, entry, uac, made, lost>>

\* stop_test is over: a DELETE goes on, whatever has become of it.
Onward(r) == [req EXCEPT ![r].pc = IF req[r].kind = "delete" THEN "deleting" ELSE "idle"]

StopCancel(r) ==
  /\ req[r].pc = "cancelling"
  /\ poll' = [poll EXCEPT ![req[r].test] = NoPoll]
  /\ req' = Onward(r)
  /\ UNCHANGED <<row, launch, entry, uac, made, lost>>

\* Any exception in stop_test is logged and forgotten.
StopFail(r) ==
  /\ req[r].pc \in {"stopping", "fetching", "storing", "ending"}
  /\ lost' = IF req[r].kind = "stop" THEN lost
             ELSE [lost EXCEPT ![req[r].test] = @ \cup {"loose"}]
  /\ req' = Onward(r)
  /\ UNCHANGED <<row, launch, poll, entry, uac, made>>

\* The row, with its snapshots.  A launch may still be waiting for its answer.
Delete(r) ==
  /\ req[r].pc = "deleting"
  /\ req' = [req EXCEPT ![r].pc = "idle"]
  /\ row' = [row EXCEPT ![req[r].test] = [status |-> "deleted", snap |-> 0]]
  /\ UNCHANGED <<launch, poll, entry, uac, made, lost>>

-----------------------------------------------------------------------------
(* The server and its processes. *)

Call(t) ==
  /\ uac[t] = "running" /\ made[t] < MaxCalls
  /\ made' = [made EXCEPT ![t] = @ + 1]
  /\ UNCHANGED <<row, launch, poll, req, entry, uac, lost>>

\* SIPp exits, with code 0 or another.
Exit(t) ==
  /\ uac[t] = "running"
  /\ \E how \in {"succeeded", "failed"} : uac' = [uac EXCEPT ![t] = how]
  /\ UNCHANGED <<row, launch, poll, req, entry, made, lost>>

\* _monitor learns of the exit, before or after a stop() that waits for it.
Monitor(t) ==
  /\ uac[t] \in {"succeeded", "failed", "killed"}
  /\ entry[t] \in {"running", "stopped"}
  /\ entry' = [entry EXCEPT ![t] = IF uac[t] = "succeeded" THEN "completed" ELSE "failed"]
  /\ UNCHANGED <<row, launch, poll, req, uac, made, lost>>

\* The container restarts: the table is gone, and the generators with it.
ServerRestart ==
  /\ \E t \in Tests : entry[t] # "unknown"
  /\ entry' = [t \in Tests |-> "unknown"]
  /\ uac' = [t \in Tests |-> IF uac[t] = "running" THEN "killed" ELSE uac[t]]
  /\ lost' = [t \in Tests |-> lost[t] \cup {"server"}]
  /\ UNCHANGED <<row, launch, poll, req, made>>

\* The backend restarts: requests, launches and pollers are gone.
BackendRestart ==
  /\ launch' = [t \in Tests |-> "idle"]
  /\ poll' = [t \in Tests |-> NoPoll]
  /\ req' = [r \in Requests |-> NoReq(req[r].test)]
  /\ lost' = [t \in Tests |-> lost[t] \cup {"loose", "unwatched"}]
  /\ UNCHANGED <<row, entry, uac, made>>

Init ==
  /\ row = [t \in Tests |-> [status |-> "none", snap |-> 0]]
  /\ launch = [t \in Tests |-> "idle"]
  /\ poll = [t \in Tests |-> NoPoll]
  /\ req \in [Requests -> {NoReq(t) : t \in Tests}]
  /\ entry = [t \in Tests |-> "unknown"]
  /\ uac = [t \in Tests |-> "none"]
  /\ made = [t \in Tests |-> 0]
  /\ lost = [t \in Tests |-> {}]

TestNext(t) ==
  \/ Create(t) \/ LaunchStart(t) \/ LaunchCommit(t) \/ LaunchPoll(t) \/ LaunchFail(t)
  \/ PollWake(t) \/ PollAsk(t) \/ PollFetch(t) \/ PollStore(t) \/ PollEnd(t) \/ PollFail(t)
  \/ Call(t) \/ Exit(t) \/ Monitor(t)

RequestNext(r) ==
  \/ \E t \in Tests : Ask(r, t)
  \/ StopRemote(r) \/ StopFetch(r) \/ StopStore(r) \/ StopCommit(r) \/ StopCancel(r)
  \/ StopFail(r) \/ Delete(r)

Next ==
  \/ \E t \in Tests : TestNext(t)
  \/ \E r \in Requests : RequestNext(r)
  \/ ServerRestart \/ BackendRestart

Spec == Init /\ [][Next]_vars

\* SIPp ends by its number of calls, asyncio runs what is due, and of the calls to
\* the server and the database not all fail.
Fairness ==
  \A t \in Tests :
    /\ WF_vars(Exit(t)) /\ WF_vars(Monitor(t)) /\ WF_vars(PollWake(t))
    /\ SF_vars(PollAsk(t)) /\ SF_vars(PollFetch(t)) /\ SF_vars(PollStore(t)) /\ SF_vars(PollEnd(t))

FairSpec == Spec /\ Fairness

-----------------------------------------------------------------------------
(* Properties. *)

Faults == {"loose", "unwatched", "server"}

TestRow == [status : Over \cup {"none", "pending", "running", "not_found", "deleted"}, snap : Nat]
Poller  == [pc : {"none", "sleeping", "asking", "fetching", "storing", "ending"},
            status : Over \cup {"running", "unknown", "not_found"}, n : Nat]
Request == [pc : {"idle", "stopping", "fetching", "storing", "ending", "cancelling", "deleting"},
            kind : {"stop", "delete"}, test : Tests, n : Nat]

TypeOK ==
  /\ row \in [Tests -> TestRow]
  /\ launch \in [Tests -> {"idle", "calling", "started", "refreshing"}]
  /\ poll \in [Tests -> Poller]
  /\ req \in [Requests -> Request]
  /\ entry \in [Tests -> Over \cup {"running", "unknown"}]
  /\ uac \in [Tests -> {"none", "running", "succeeded", "failed", "killed"}]
  /\ made \in [Tests -> Nat]
  /\ lost \in [Tests -> SUBSET Faults]

\* A generator that runs belongs to a row that says so, and can be stopped from
\* there.  Only a launch whose answer is lost, a stop that failed before a delete,
\* a delete during the launch or a lost backend leaves calls nobody answers for.
NoOrphan ==
  \A t \in Tests : uac[t] = "running" =>
    \/ row[t].status = "running" \/ launch[t] # "idle"
    \/ "loose" \in lost[t]

\* A pending test is being launched and a running one is watched.  Only a restart of
\* the backend, a poll that could not read its row and a launch that failed twice,
\* on its way and storing that, leave one that nobody will end.
RowHasPoller ==
  \A t \in Tests : "unwatched" \notin lost[t] =>
    /\ row[t].status = "pending" => launch[t] \in {"calling", "started"}
    /\ row[t].status = "running" => poll[t].pc # "none" \/ launch[t] = "refreshing"

\* What a row tells of the end of its test is true: the generator of a test said to
\* be completed exited with code 0, and that of a stopped one makes no more calls.
EndIsTrue ==
  \A t \in Tests : /\ row[t].status = "completed" => uac[t] = "succeeded"
                   /\ row[t].status = "stopped"   => uac[t] # "running"

\* The latest snapshot of a completed test holds all its calls, whichever of the
\* poller and a stop request came last, unless the server was restarted.
FinalSnapshot ==
  \A t \in Tests : row[t].status = "completed" /\ "server" \notin lost[t]
                     => row[t].snap = made[t]

\* A watched test ends in its row when it has ended.
RunningEnds ==
  \A t \in Tests : row[t].status = "running" /\ poll[t].pc # "none"
                     ~> row[t].status # "running" \/ poll[t].pc = "none"

=============================================================================
