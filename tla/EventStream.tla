---------------------------- MODULE EventStream -----------------------------
(***************************************************************************)
(* A task page that follows its task: the server's event stream             *)
(* (routers/agent_tasks.py, woken by the NOTIFY of agent_task_service.py),      *)
(* the connection, and the page's hook (useAgentTaskStream.ts), which lays      *)
(* the streamed steps and status over the task it fetches.                    *)
(***************************************************************************)
EXTENDS Integers, Sequences

CONSTANTS
  MaxSteps,     \* bound: steps of the journal
  MaxChanges,   \* bound: changes of the task's status
  MaxFaults     \* bound: reloads, lost connections, failed reads and requests

ASSUME StreamAssumption == MaxSteps \in Nat /\ MaxChanges \in Nat /\ MaxFaults \in Nat

VARIABLES
  task,      \* the row: status, steps recorded, changes; due: steps when it became final
  srv,       \* the stream's generator: last_seq, last_status, its queue of wake-ups
  wire,      \* frames on their way to the page
  page,      \* the hook: connection, live flag, streamed steps and status, fetched base
  fetch,     \* the page's request for the task
  faults

vars == <<task, srv, wire, page, fetch, faults>>

OpenStatuses  == {"queued", "running", "waiting_approval"}
FinalStatuses == {"completed"}                \* one of them stands for all
Statuses      == OpenStatuses \cup FinalStatuses \cup {"gone"}

NoStream == [pc |-> "end", seq |-> 0, last |-> "none", wakes |-> 0, deaf |-> FALSE]
NewPage  == [conn |-> "none", sawDone |-> FALSE, live |-> FALSE, steps |-> {}, status |-> "none",
             base |-> "none", baseSteps |-> 0, missing |-> FALSE]
NoFetch  == [pc |-> "none", status |-> "none"]
Asked    == [NoFetch EXCEPT !.pc = "asked"]

Frame(kind, arg) == [kind |-> kind, arg |-> arg]
Closed == Frame("closed", 0)
Frames == {Frame("step", n) : n \in 1..MaxSteps} \cup {Frame("status", s) : s \in Statuses}
            \cup {Frame("done", 0), Frame("error", 0), Closed}

Fault == faults < MaxFaults /\ faults' = faults + 1

-----------------------------------------------------------------------------
(* The task.  Its notification reaches whoever listens at the commit. *)

Listening == srv.pc \in {"wait", "steps", "task"} /\ ~srv.deaf
Notify    == srv' = IF Listening THEN [srv EXCEPT !.wakes = @ + 1] ELSE srv

\* record_step asks only for the row: the approvals and the reaper record on tasks
\* that wait, and the run of a task that was given up may still record some.
RecordStep ==
  /\ task.status # "gone"
  /\ task.steps < MaxSteps
  /\ task' = [task EXCEPT !.steps = @ + 1]
  /\ Notify
  /\ UNCHANGED <<wire, page, fetch, faults>>

\* claim, park, resume, finish
Goes(from) == CASE from = "queued"           -> {"running"} \cup FinalStatuses
                [] from = "running"          -> {"waiting_approval"} \cup FinalStatuses
                [] from = "waiting_approval" -> {"queued"} \cup FinalStatuses
                [] OTHER                     -> {}

ChangeStatus ==
  /\ task.changes < MaxChanges
  /\ \E to \in Goes(task.status) :
       task' = [task EXCEPT !.status = to, !.changes = @ + 1, !.due = task.steps]
  /\ Notify
  /\ UNCHANGED <<wire, page, fetch, faults>>

\* The agent is deleted, with its tasks; nothing is notified.
Delete ==
  /\ task.status \in FinalStatuses
  /\ task' = [task EXCEPT !.status = "gone"]
  /\ UNCHANGED <<srv, wire, page, fetch, faults>>

-----------------------------------------------------------------------------
(* The stream. *)

\* task_events: 404 for a task that is gone.
SrvCheck ==
  /\ srv.pc = "asked"
  /\ IF task.status = "gone"
     THEN srv' = NoStream /\ wire' = Append(wire, Closed)
     ELSE srv' = [srv EXCEPT !.pc = "backlog"] /\ UNCHANGED wire
  /\ UNCHANGED <<task, page, fetch, faults>>

\* Bug: the notified step, whatever came before it.
UnsentLast == IF task.status = "gone" \/ task.steps = srv.seq THEN <<>>
              ELSE <<Frame("step", task.steps)>>

\* _steps_after: the steps of a deleted task are deleted with it.
Unsent == IF task.status = "gone" THEN <<>>
          ELSE [i \in 1..(task.steps - srv.seq) |-> Frame("step", srv.seq + i)]

SrvSteps ==
  /\ srv.pc \in {"backlog", "steps"}
  /\ srv' = [srv EXCEPT !.pc = IF @ = "backlog" THEN "snapshot" ELSE "task",
                        !.seq = @ + Len(Unsent)]
  /\ wire' = wire \o Unsent
  /\ UNCHANGED <<task, page, fetch, faults>>

\* Bug: the generator goes on after the end of the task.
SrvTaskOn ==
  /\ srv.pc \in {"snapshot", "task"}
  /\ srv' = [srv EXCEPT !.pc = IF @ = "snapshot" THEN "listen" ELSE "wait", !.last = task.status]
  /\ wire' = IF task.status # srv.last THEN Append(wire, Frame("status", task.status)) ELSE wire
  /\ UNCHANGED <<task, page, fetch, faults>>

\* _task_snapshot, in a session of its own: the task may have moved since the steps
\* were read.
SrvTask ==
  /\ srv.pc \in {"snapshot", "task"}
  /\ IF task.status \notin OpenStatuses
     THEN /\ srv' = [NoStream EXCEPT !.seq = srv.seq, !.last = task.status]
          /\ wire' = wire \o <<Frame("status", task.status), Frame("done", 0), Closed>>
     ELSE /\ srv' = [srv EXCEPT !.pc = IF @ = "snapshot" THEN "listen" ELSE "wait",
                                !.last = task.status]
          /\ wire' = IF task.status # srv.last
                     THEN Append(wire, Frame("status", task.status)) ELSE wire
  /\ UNCHANGED <<task, page, fetch, faults>>

\* Bug: nothing is read between the backlog and the first notification.
SrvListenOnly ==
  /\ srv.pc = "listen"
  /\ srv' = [srv EXCEPT !.pc = "wait"]
  /\ UNCHANGED <<task, wire, page, fetch, faults>>

\* add_listener, and a wake-up for what was written since the backlog was read.
SrvListen ==
  /\ srv.pc = "listen"
  /\ srv' = [srv EXCEPT !.pc = "wait", !.wakes = 1]
  /\ UNCHANGED <<task, wire, page, fetch, faults>>

\* queue.get.  Its timeout sends a comment and reads nothing.
SrvGet ==
  /\ srv.pc = "wait" /\ srv.wakes > 0
  /\ srv' = [srv EXCEPT !.pc = "steps", !.wakes = @ - 1]
  /\ UNCHANGED <<task, wire, page, fetch, faults>>

\* A read fails, or the connection for LISTEN.
SrvFail ==
  /\ srv.pc \notin {"end", "asked", "wait"}
  /\ Fault
  /\ srv' = NoStream
  /\ wire' = wire \o <<Frame("error", 0), Closed>>
  /\ UNCHANGED <<task, page, fetch>>

\* The connection for LISTEN is lost while nothing is asked of it.
Deafen ==
  /\ Listening
  /\ Fault
  /\ srv' = [srv EXCEPT !.deaf = TRUE]
  /\ UNCHANGED <<task, wire, page, fetch>>

\* The page's connection is lost, with some of the frames on it.
Break ==
  /\ page.conn = "open" /\ srv.pc # "end"
  /\ Fault
  /\ \E k \in 0..Len(wire) : wire' = Append(SubSeq(wire, 1, k), Closed)
  /\ srv' = NoStream
  /\ UNCHANGED <<task, page, fetch>>

-----------------------------------------------------------------------------
(* The page's request for the task: the row, then its steps, then the answer. *)

\* Bug: no polling once there has been a stream.
PollBefore ==
  /\ fetch.pc = "none" /\ ~page.live /\ page.base \notin FinalStatuses /\ page.conn = "none"
  /\ fetch' = Asked
  /\ UNCHANGED <<task, srv, wire, page, faults>>

\* refetchInterval, while nothing streams and the fetched status is not final.
Poll ==
  /\ fetch.pc = "none" /\ ~page.live /\ page.base \notin FinalStatuses
  /\ fetch' = Asked
  /\ UNCHANGED <<task, srv, wire, page, faults>>

\* The window gets the focus, or another component invalidates the query.
Focus ==
  /\ fetch.pc = "none"
  /\ fetch' = Asked
  /\ UNCHANGED <<task, srv, wire, page, faults>>

FetchTask ==
  /\ fetch.pc = "asked"
  /\ fetch' = [pc |-> "task", status |-> task.status]
  /\ UNCHANGED <<task, srv, wire, page, faults>>

\* Bug: the streamed steps are taken for all of them.
FetchStatusOnly ==
  /\ fetch.pc = "task"
  /\ fetch' = NoFetch
  /\ page' = IF fetch.status = "gone" THEN [page EXCEPT !.missing = TRUE]
             ELSE [page EXCEPT !.base = fetch.status, !.missing = FALSE,
                               !.baseSteps = IF page.steps # {} THEN @ ELSE task.steps]
  /\ UNCHANGED <<task, srv, wire, faults>>

\* The steps, if there is a row, and the answer: until it is here, what is read
\* later only lags what the stream may tell.
FetchSteps ==
  /\ fetch.pc = "task"
  /\ fetch' = NoFetch
  /\ page' = IF fetch.status = "gone" THEN [page EXCEPT !.missing = TRUE]
             ELSE [page EXCEPT !.base = fetch.status, !.missing = FALSE,
                               !.baseSteps = IF task.status = "gone" THEN 0 ELSE task.steps]
  /\ UNCHANGED <<task, srv, wire, faults>>

FetchFail ==
  /\ fetch.pc # "none"
  /\ Fault
  /\ fetch' = NoFetch
  /\ UNCHANGED <<task, srv, wire, page>>

-----------------------------------------------------------------------------
(* The hook. *)

\* The effect: a stream for a task that is not final.
OpenStream ==
  /\ page.conn = "none" /\ page.base \in OpenStatuses
  /\ page' = [page EXCEPT !.conn = "open", !.live = TRUE]
  /\ srv' = [NoStream EXCEPT !.pc = "asked"]
  /\ wire' = <<>>
  /\ UNCHANGED <<task, fetch, faults>>

\* Its cleanup, when a fetch has brought a final status; the flag stays as it is.
Abort ==
  /\ page.conn = "open" /\ page.base \in FinalStatuses
  /\ page' = [page EXCEPT !.conn = "aborted"]
  /\ srv' = NoStream
  /\ wire' = <<>>
  /\ UNCHANGED <<task, fetch, faults>>

\* Bug: only the end of the task ends the live mode.
ReceiveLive ==
  /\ page.conn = "open" /\ wire # <<>>
  /\ wire' = Tail(wire)
  /\ LET f == Head(wire)
     IN /\ page' = CASE f.kind = "step"   -> [page EXCEPT !.steps = @ \cup {f.arg}]
                     [] f.kind = "status" -> [page EXCEPT !.status = f.arg]
                     [] f.kind = "done"   -> [page EXCEPT !.sawDone = TRUE, !.live = FALSE]
                     [] f.kind = "closed" -> [page EXCEPT !.conn = "ended"]
                     [] f.kind = "error"  -> page
        /\ fetch' = IF f.kind \in {"status", "done"} THEN Asked ELSE fetch
  /\ UNCHANGED <<task, srv, faults>>

\* A frame.  Each status, the end and a close without an end fetch the task again,
\* in place of a request under way.
Receive ==
  /\ page.conn = "open" /\ wire # <<>>
  /\ wire' = Tail(wire)
  /\ LET f == Head(wire)
         resync == f.kind \in {"status", "done"} \/ (f.kind = "closed" /\ ~page.sawDone)
     IN /\ page' = CASE f.kind = "step"   -> [page EXCEPT !.steps = @ \cup {f.arg}]
                     [] f.kind = "status" -> [page EXCEPT !.status = f.arg]
                     [] f.kind = "done"   -> [page EXCEPT !.sawDone = TRUE, !.live = FALSE]
                     [] f.kind = "closed" -> [page EXCEPT !.conn = "ended", !.live = FALSE]
                     [] f.kind = "error"  -> page
        /\ fetch' = IF resync THEN Asked ELSE fetch
  /\ UNCHANGED <<task, srv, faults>>

Reload ==
  /\ Fault
  /\ page' = NewPage /\ fetch' = Asked
  /\ srv' = NoStream /\ wire' = <<>>
  /\ UNCHANGED task

-----------------------------------------------------------------------------

Init ==
  /\ task \in [status : {"queued", "running"}, steps : {0}, due : {0}, changes : {0}]
  /\ srv = NoStream /\ wire = <<>>
  /\ page = NewPage /\ fetch = Asked
  /\ faults = 0

TaskNext   == RecordStep \/ ChangeStatus \/ Delete
SrvNext    == SrvCheck \/ SrvSteps \/ SrvTask \/ SrvListen \/ SrvGet
FetchNext  == FetchTask \/ FetchSteps
FaultNext  == SrvFail \/ Deafen \/ Break \/ FetchFail \/ Reload

Next == TaskNext \/ SrvNext \/ FetchNext \/ FaultNext \/ Poll \/ Focus \/ OpenStream \/ Abort \/ Receive

Spec == Init /\ [][Next]_vars

\* The event loops of server and browser go on, and the timer of the polls; what
\* the task does, and the user, is up to them.
Fairness ==
  /\ WF_vars(SrvNext) /\ WF_vars(FetchNext)
  /\ WF_vars(Poll) /\ WF_vars(OpenStream) /\ WF_vars(Abort) /\ WF_vars(Receive)

FairSpec == Spec /\ Fairness

-----------------------------------------------------------------------------
(* What the page shows: the fetched task, the stream laid over it. *)

ShownSteps  == page.steps \cup 1..page.baseSteps
ShownStatus == IF page.status \in {"none", "gone"} THEN page.base ELSE page.status

(* Properties. *)

TaskRow == [status : Statuses, steps : 0..MaxSteps, due : 0..MaxSteps, changes : 0..MaxChanges]
Stream  == [pc : {"end", "asked", "backlog", "snapshot", "listen", "wait", "steps", "task"},
            seq : 0..MaxSteps, last : Statuses \cup {"none"}, wakes : Nat, deaf : BOOLEAN]
Page    == [conn : {"none", "open", "aborted", "ended"}, sawDone : BOOLEAN, live : BOOLEAN,
            steps : SUBSET (1..MaxSteps), status : Statuses \cup {"none"},
            base : OpenStatuses \cup FinalStatuses \cup {"none"}, baseSteps : 0..MaxSteps,
            missing : BOOLEAN]
Request == [pc : {"none", "asked", "task"}, status : Statuses \cup {"none"}]

TypeOK ==
  /\ task \in TaskRow /\ srv \in Stream /\ wire \in Seq(Frames)
  /\ page \in Page /\ fetch \in Request /\ faults \in 0..MaxFaults

\* The timeline of the page has no hole, whatever was lost on the way and however
\* the fetched steps and the streamed ones overlap.
StepsWithoutGap == \E n \in 0..MaxSteps : ShownSteps = 1..n

\* A page that has fetched the final status has every step that was recorded before
\* it, the ones that the stream missed between its two reads included.
FinalHasAllSteps ==
  page.base \in FinalStatuses /\ task.status # "gone" => 1..task.due \subseteq ShownSteps

\* A page that trusts its stream and does not poll has a stream to wait for: it is
\* open, and its end is still to come.
NeverStranded ==
  page.live /\ page.base \notin FinalStatuses =>
    /\ page.conn = "open"
    /\ srv.pc # "end" \/ (\E i \in DOMAIN wire : wire[i].kind \in {"done", "closed"})

\* What is notified is read: a stream that is idle with nothing to wake it has told
\* every step and the current status, unless its connection for LISTEN is lost.
IdleIsUpToDate ==
  srv.pc = "wait" /\ srv.wakes = 0 /\ ~srv.deaf /\ task.status # "gone" =>
    srv.seq = task.steps /\ srv.last = task.status

\* The stream keeps the promise of TaskFeed.
Feed == INSTANCE TaskFeed WITH
  Open <- OpenStatuses, Final <- FinalStatuses, journal <- task.steps, status <- task.status,
  seen <- srv.seq, told <- srv.last, over <- srv.pc = "end"

FeedSpec == Feed!Spec

\* The end of a task reaches the page without a reload, through the stream or, once
\* that is lost, by polling; but for a stream that no longer hears.
BaseConverges ==
  task.status \notin OpenStatuses
    ~> \/ page.base \in FinalStatuses \/ page.missing \/ page.status = "gone"
       \/ (srv.deaf /\ page.live)

\* The comment at useAgentTaskStream.ts:15: a page whose connection was lost converges,
\* as the user sees it.
PageConverges ==
  task.status \notin OpenStatuses /\ page.conn = "ended"
    ~> ShownStatus \in FinalStatuses \/ page.missing \/ page.status = "gone" \/ page = NewPage

=============================================================================
