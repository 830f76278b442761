----------------------------- MODULE AgentTasks -----------------------------
(***************************************************************************)
(* The agent task queue of the backend: the rows of agent_task, of its     *)
(* step journal and of approval, and everything that writes them - the     *)
(* API handlers, the worker processes with their runners and stale sweep,  *)
(* and the scheduler's approval job.  One action is the code between two   *)
(* points where another process can act (a commit, or a wait on the model, *)
(* a tool or the database), so every multi-commit operation is several     *)
(* actions, with what it has read kept in its in-flight state.             *)
(***************************************************************************)
EXTENDS Naturals, Sequences, FiniteSets

CONSTANTS
  Agents,        \* ids of agents
  Tasks,         \* ids of agent_task rows, inserted or not
  AgentOf,       \* the agent each row belongs to
  Approvals,     \* ids of approval rows, inserted or not
  Workers,       \* worker processes
  Tools,         \* tools the agents can call
  GatedSets,     \* the sets of tools a run may find above its agent's ceiling
  Concurrency,   \* AGENT_WORKER_CONCURRENCY
  MaxSteps,      \* max_steps: tool rounds of a task
  MaxCalls,      \* bound: tool calls the model asks for in one turn
  None           \* no approval, no worker

ASSUME AgentOfAssumption == AgentOf \in [Tasks -> Agents]
ASSUME GatedAssumption   == GatedSets \subseteq SUBSET Tools
ASSUME BoundsAssumption  == /\ Concurrency \in Nat \ {0}
                            /\ MaxSteps \in Nat \ {0}
                            /\ MaxCalls \in Nat
ASSUME NoneAssumption    == None \notin Approvals

VARIABLES
  \* rows of the database
  active,      \* the agents whose status is "active"
  status,      \* status[t]: agent_task.status, "absent" before the insert
  cancel,      \* cancel[t]: agent_task.cancel_requested
  fresh,       \* fresh[t]: heartbeat_at is younger than the stale limit
  journal,     \* journal[t]: what the steps and output columns of t say
  appr,        \* appr[x]: a row of approval
  \* worker processes
  run,         \* run[t]: the runner that executes t, pc "off" when there is none
  held,        \* held[w]: Worker._running, the tasks w started and has not purged
  closing,     \* closing[w]: the tasks close() has yet to look at
  \* handlers between two commits
  inserting,   \* inserting[t]: enqueue has passed its pre-check and not inserted
  cancelling,  \* cancelling[t]: the status request_cancel has read
  deciding,    \* deciding[x]: how far decide has come after its first commit
  expiring,    \* expiring[t]: finish has committed, expire_for_task has not
  sweeping,    \* sweeping[t]: sweep_stale has selected t and not finished it
  job,         \* the scheduler's approval job
  \* history
  answered,    \* answered[t]: calls of the last turn that ran or were refused
  ran          \* ran[x]: how often the tool call approved by x was executed

rowVars     == <<active, status, cancel, fresh, journal, appr>>
workerVars  == <<run, held, closing>>
handlerVars == <<inserting, cancelling, deciding, expiring, sweeping, job>>
histVars    == <<answered, ran>>
vars        == <<rowVars, workerVars, handlerVars, histVars>>

OpenStatuses  == {"queued", "running", "waiting_approval"}
FinalStatuses == {"completed", "failed", "cancelled"}
Statuses      == {"absent"} \cup OpenStatuses \cup FinalStatuses

ApprovalStatuses == {"absent", "pending", "approved", "rejected", "expired"}
Decisions        == {"approved", "rejected"}

OpenTasks(a) == {t \in Tasks : AgentOf[t] = a /\ status[t] \in OpenStatuses}

ApprovalsOf(t) == {x \in Approvals : appr[x].status # "absent" /\ appr[x].task = t}
PendingOf(t)   == {x \in ApprovalsOf(t) : appr[x].status = "pending"}

\* Mutant of DecidedUnconsumed: consumed_at is not looked at.
DecidedEver(t) == {x \in ApprovalsOf(t) : appr[x].status \in Decisions}

\* At most one, see OneOutstanding: the oldest-first order of the query is moot.
DecidedUnconsumed(t) ==
  {x \in ApprovalsOf(t) : appr[x].status \in Decisions /\ ~appr[x].consumed}

NoJournal == [planned |-> FALSE, turns |-> 0, calls |-> <<>>, recorded |-> 0,
              reported |-> FALSE]
NoRun     == [pc |-> "off", on |-> None, at |-> 0, using |-> None,
              gated |-> {}, spent |-> FALSE]
Idle      == [pc |-> "idle", on |-> None]

Init ==
  /\ active \in SUBSET Agents
  /\ status = [t \in Tasks |-> "absent"]
  /\ cancel = [t \in Tasks |-> FALSE]
  /\ fresh = [t \in Tasks |-> FALSE]
  /\ journal = [t \in Tasks |-> NoJournal]
  /\ appr = [x \in Approvals |-> [status |-> "absent", task |-> None,
                                  tool |-> None, index |-> 0, consumed |-> FALSE]]
  /\ run = [t \in Tasks |-> NoRun]
  /\ held = [w \in Workers |-> {}]
  /\ closing = [w \in Workers |-> {}]
  /\ inserting = [t \in Tasks |-> FALSE]
  /\ cancelling = [t \in Tasks |-> "no"]
  /\ deciding = [x \in Approvals |-> "no"]
  /\ expiring = [t \in Tasks |-> FALSE]
  /\ sweeping = [t \in Tasks |-> FALSE]
  /\ job = Idle
  /\ answered = [t \in Tasks |-> 0]
  /\ ran = [x \in Approvals |-> 0]

-----------------------------------------------------------------------------
(* AgentTaskService: the guarded updates every writer goes through.         *)

\* Mutant of Finish: the update has no WHERE on the open statuses.
FinishAnyway(t, final) ==
  /\ status' = [status EXCEPT ![t] = final]
  /\ expiring' = [expiring EXCEPT ![t] = TRUE]

\* finish: only an open task; its expire_for_task is a commit of its own.
Finish(t, final) ==
  IF status[t] \in OpenStatuses
  THEN /\ status' = [status EXCEPT ![t] = final]
       /\ expiring' = [expiring EXCEPT ![t] = TRUE]
  ELSE UNCHANGED <<status, expiring>>

\* resume: waiting_approval -> queued, heartbeat_at cleared.
ResumeTask(t) ==
  IF status[t] = "waiting_approval"
  THEN /\ status' = [status EXCEPT ![t] = "queued"]
       /\ fresh' = [fresh EXCEPT ![t] = FALSE]
  ELSE UNCHANGED <<status, fresh>>

ExpirePending(t) ==
  appr' = [x \in Approvals |->
             IF x \in PendingOf(t) THEN [appr[x] EXCEPT !.status = "expired"]
             ELSE appr[x]]

\* The expire_for_task that follows a finish, or the loss of its process first.
ExpireForTask(t) ==
  /\ expiring[t]
  /\ expiring' = [expiring EXCEPT ![t] = FALSE]
  /\ ExpirePending(t)
  /\ UNCHANGED <<active, status, cancel, fresh, journal, workerVars, inserting,
                 cancelling, deciding, sweeping, job, histVars>>

LoseExpireForTask(t) ==
  /\ expiring[t]
  /\ expiring' = [expiring EXCEPT ![t] = FALSE]
  /\ UNCHANGED <<rowVars, workerVars, inserting, cancelling, deciding, sweeping,
                 job, histVars>>

-----------------------------------------------------------------------------
(* API handlers and cron ticks.                                             *)

\* change_status and restore, as far as tasks can tell: active or not.
ChangeAgentStatus(a) ==
  /\ active' = IF a \in active THEN active \ {a} ELSE active \cup {a}
  /\ UNCHANGED <<status, cancel, fresh, journal, appr, workerVars, handlerVars,
                 histVars>>

EnqueueCheck(t) ==
  /\ status[t] = "absent" /\ ~inserting[t]
  /\ AgentOf[t] \in active
  /\ OpenTasks(AgentOf[t]) = {}
  /\ inserting' = [inserting EXCEPT ![t] = TRUE]
  /\ UNCHANGED <<rowVars, workerVars, cancelling, deciding, expiring, sweeping,
                 job, histVars>>

\* The partial unique index lets the insert through, or the caller gets a 409.
EnqueueInsert(t) ==
  /\ inserting[t]
  /\ inserting' = [inserting EXCEPT ![t] = FALSE]
  /\ status' = IF OpenTasks(AgentOf[t]) = {}
               THEN [status EXCEPT ![t] = "queued"] ELSE status
  /\ UNCHANGED <<active, cancel, fresh, journal, appr, workerVars, cancelling,
                 deciding, expiring, sweeping, job, histVars>>

\* cancel_task loads the row; request_cancel then acts on what was loaded.
CancelRead(t) ==
  /\ cancelling[t] = "no"
  /\ status[t] \in OpenStatuses
  /\ cancelling' = [cancelling EXCEPT ![t] = status[t]]
  /\ UNCHANGED <<rowVars, workerVars, inserting, deciding, expiring, sweeping,
                 job, histVars>>

CancelFinish(t) ==
  /\ cancelling[t] \in {"queued", "waiting_approval"}
  /\ cancelling' = [cancelling EXCEPT ![t] = "no"]
  /\ Finish(t, "cancelled")
  /\ UNCHANGED <<active, cancel, fresh, journal, appr, workerVars, inserting,
                 deciding, sweeping, job, histVars>>

CancelFlag(t) ==
  /\ cancelling[t] = "running"
  /\ cancelling' = [cancelling EXCEPT ![t] = "no"]
  /\ cancel' = [cancel EXCEPT ![t] = TRUE]
  /\ UNCHANGED <<active, status, fresh, journal, appr, workerVars, inserting,
                 deciding, expiring, sweeping, job, histVars>>

\* Mutant of Decide: an approval already decided can be decided again.
DecideAgain(x) ==
  /\ appr[x].status \in {"pending"} \cup Decisions
  /\ \E d \in Decisions : appr' = [appr EXCEPT ![x].status = d]
  /\ deciding' = [deciding EXCEPT ![x] = "decided"]
  /\ UNCHANGED <<active, status, cancel, fresh, journal, workerVars, inserting,
                 cancelling, expiring, sweeping, job, histVars>>

\* decide, first commit: the conditional update of a pending approval.
Decide(x) ==
  /\ appr[x].status = "pending"
  /\ \E d \in Decisions : appr' = [appr EXCEPT ![x].status = d]
  /\ deciding' = [deciding EXCEPT ![x] = "decided"]
  /\ UNCHANGED <<active, status, cancel, fresh, journal, workerVars, inserting,
                 cancelling, expiring, sweeping, job, histVars>>

\* decide re-reads the task, and its agent when the task is waiting.
DecideRead(x) ==
  LET t == appr[x].task IN
  /\ deciding[x] = "decided"
  /\ deciding' = [deciding EXCEPT ![x] =
                    IF status[t] # "waiting_approval" THEN "no"
                    ELSE IF AgentOf[t] \in active THEN "resume" ELSE "fail"]
  /\ UNCHANGED <<rowVars, workerVars, inserting, cancelling, expiring, sweeping,
                 job, histVars>>

DecideResume(x) ==
  /\ deciding[x] = "resume"
  /\ deciding' = [deciding EXCEPT ![x] = "no"]
  /\ ResumeTask(appr[x].task)
  /\ UNCHANGED <<active, cancel, journal, appr, workerVars, inserting,
                 cancelling, expiring, sweeping, job, histVars>>

DecideFail(x) ==
  /\ deciding[x] = "fail"
  /\ deciding' = [deciding EXCEPT ![x] = "no"]
  /\ Finish(appr[x].task, "failed")
  /\ UNCHANGED <<active, cancel, fresh, journal, appr, workerVars, inserting,
                 cancelling, sweeping, job, histVars>>

-----------------------------------------------------------------------------
(* The scheduler's approval job: expire_due, then reap_orphaned_waiting.    *)
(* One instance at a time; the tasks it picks are in an arbitrary order.    *)

JobStep(from, to, t) ==
  /\ job.pc = from /\ (from # "idle" => job.on = t)
  /\ job' = IF to = "idle" THEN Idle ELSE [pc |-> to, on |-> t]

\* Mutant of ExpireDue: only the approvals of waiting tasks are looked at.
ExpireWaiting(x) ==
  /\ appr[x].status = "pending" /\ status[appr[x].task] = "waiting_approval"
  /\ appr' = [appr EXCEPT ![x].status = "expired"]
  /\ JobStep("idle", "expired", appr[x].task)
  /\ UNCHANGED <<active, status, cancel, fresh, journal, workerVars, inserting,
                 cancelling, deciding, expiring, sweeping, histVars>>

ExpireDue(x) ==
  /\ appr[x].status = "pending"
  /\ appr' = [appr EXCEPT ![x].status = "expired"]
  /\ JobStep("idle", "expired", appr[x].task)
  /\ UNCHANGED <<active, status, cancel, fresh, journal, workerVars, inserting,
                 cancelling, deciding, expiring, sweeping, histVars>>

ExpireReadTask(t) ==
  /\ JobStep("expired", IF status[t] = "waiting_approval" THEN "failing" ELSE "idle", t)
  /\ UNCHANGED <<rowVars, workerVars, inserting, cancelling, deciding, expiring,
                 sweeping, histVars>>

ReapPick(t) ==
  /\ status[t] = "waiting_approval"
  /\ JobStep("idle", "waiting", t)
  /\ UNCHANGED <<rowVars, workerVars, inserting, cancelling, deciding, expiring,
                 sweeping, histVars>>

ReapReadPending(t) ==
  /\ JobStep("waiting", IF PendingOf(t) = {} THEN "nopending" ELSE "idle", t)
  /\ UNCHANGED <<rowVars, workerVars, inserting, cancelling, deciding, expiring,
                 sweeping, histVars>>

\* Mutant of ReapReadDecided: a task with a decision is left to its decide().
ReapSkipDecided(t) ==
  /\ JobStep("nopending", IF DecidedUnconsumed(t) = {} THEN "failing" ELSE "idle", t)
  /\ UNCHANGED <<rowVars, workerVars, inserting, cancelling, deciding, expiring,
                 sweeping, histVars>>

ReapReadDecided(t) ==
  /\ JobStep("nopending", IF DecidedUnconsumed(t) = {} THEN "failing" ELSE "requeue", t)
  /\ UNCHANGED <<rowVars, workerVars, inserting, cancelling, deciding, expiring,
                 sweeping, histVars>>

ReapResume(t) ==
  /\ JobStep("requeue", "idle", t)
  /\ ResumeTask(t)
  /\ UNCHANGED <<active, cancel, journal, appr, workerVars, inserting,
                 cancelling, deciding, expiring, sweeping, histVars>>

\* "approval expired" or "approval lost": finish accepts any open status.
JobFail(t) ==
  /\ JobStep("failing", "idle", t)
  /\ Finish(t, "failed")
  /\ UNCHANGED <<active, cancel, fresh, journal, appr, workerVars, inserting,
                 cancelling, deciding, sweeping, histVars>>

\* The backend process dies: its handlers and its job are gone.
BackendCrash ==
  /\ inserting' = [t \in Tasks |-> FALSE]
  /\ cancelling' = [t \in Tasks |-> "no"]
  /\ deciding' = [x \in Approvals |-> "no"]
  /\ job' = Idle
  /\ UNCHANGED <<rowVars, workerVars, expiring, sweeping, histVars>>

-----------------------------------------------------------------------------
(* Worker processes.                                                        *)

Runners(w) == {t \in Tasks : run[t].pc # "off" /\ run[t].on = w}

StopRunners(w) == run' = [t \in Tasks |-> IF t \in Runners(w) THEN NoRun ELSE run[t]]

\* process_available: purge the finished runs, claim while a slot is free.
Claim(w, t) ==
  /\ closing[w] = {}
  /\ Cardinality(Runners(w)) < Concurrency
  /\ status[t] = "queued"
  /\ \A u \in Tasks : AgentOf[u] = AgentOf[t] => status[u] # "running"
  /\ status' = [status EXCEPT ![t] = "running"]
  /\ fresh' = [fresh EXCEPT ![t] = TRUE]
  /\ run' = [run EXCEPT ![t] = [NoRun EXCEPT !.pc = "start", !.on = w]]
  /\ held' = [held EXCEPT ![w] = Runners(w) \cup {t}]
  /\ UNCHANGED <<active, cancel, journal, appr, closing, handlerVars, histVars>>

\* process_available when nothing can be claimed.
Purge(w) ==
  /\ closing[w] = {}
  /\ held' = [held EXCEPT ![w] = Runners(w)]
  /\ UNCHANGED <<rowVars, run, closing, handlerVars, histVars>>

\* close: cancel the runs, then look at every task of the _running snapshot.
Close(w) ==
  /\ closing[w] = {}
  /\ StopRunners(w)
  /\ closing' = [closing EXCEPT ![w] = held[w]]
  /\ held' = [held EXCEPT ![w] = {}]
  /\ UNCHANGED <<rowVars, handlerVars, histVars>>

CloseTask(w, t) ==
  /\ t \in closing[w]
  /\ closing' = [closing EXCEPT ![w] = @ \ {t}]
  /\ IF status[t] = "running" THEN Finish(t, "failed") ELSE UNCHANGED <<status, expiring>>
  /\ UNCHANGED <<active, cancel, fresh, journal, appr, run, held, inserting,
                 cancelling, deciding, sweeping, job, histVars>>

\* kill -9, host loss: no finish at all.
WorkerCrash(w) ==
  /\ StopRunners(w)
  /\ held' = [held EXCEPT ![w] = {}]
  /\ closing' = [closing EXCEPT ![w] = {}]
  /\ UNCHANGED <<rowVars, handlerVars, histVars>>

\* Mutant of Beat: no hard_stop.
BeatForEver(t) ==
  /\ run[t].pc # "off"
  /\ fresh' = [fresh EXCEPT ![t] = TRUE]
  /\ UNCHANGED <<active, status, cancel, journal, appr, workerVars, handlerVars,
                 histVars>>

\* The beat loop, until hard_stop; the heartbeat ages when it is late or over.
Beat(t) ==
  /\ run[t].pc # "off" /\ ~run[t].spent
  /\ fresh' = [fresh EXCEPT ![t] = TRUE]
  /\ UNCHANGED <<active, status, cancel, journal, appr, workerVars, handlerVars,
                 histVars>>

HardStop(t) ==
  /\ run[t].pc # "off" /\ ~run[t].spent
  /\ run' = [run EXCEPT ![t].spent = TRUE]
  /\ UNCHANGED <<rowVars, held, closing, handlerVars, histVars>>

GoStale(t) ==
  /\ status[t] = "running" /\ fresh[t]
  /\ fresh' = [fresh EXCEPT ![t] = FALSE]
  /\ UNCHANGED <<active, status, cancel, journal, appr, workerVars, handlerVars,
                 histVars>>

\* sweep_stale: select the stale rows, then finish each in its own commits.
SweepSelect(t) ==
  /\ status[t] = "running" /\ ~fresh[t]
  /\ sweeping' = [sweeping EXCEPT ![t] = TRUE]
  /\ UNCHANGED <<rowVars, workerVars, inserting, cancelling, deciding, expiring,
                 job, histVars>>

\* Mutant of SweepFinish: a lost task is put back in the queue.
SweepRequeue(t) ==
  /\ sweeping[t]
  /\ sweeping' = [sweeping EXCEPT ![t] = FALSE]
  /\ status' = IF status[t] = "running" THEN [status EXCEPT ![t] = "queued"] ELSE status
  /\ UNCHANGED <<active, cancel, fresh, journal, appr, workerVars, inserting,
                 cancelling, deciding, expiring, job, histVars>>

SweepFinish(t) ==
  /\ sweeping[t]
  /\ sweeping' = [sweeping EXCEPT ![t] = FALSE]
  /\ Finish(t, "failed")
  /\ UNCHANGED <<active, cancel, fresh, journal, appr, workerVars, inserting,
                 cancelling, deciding, job, histVars>>

\* Its process dies, or finds the task no longer running before it begins.
SweepCrash(t) ==
  /\ sweeping[t]
  /\ sweeping' = [sweeping EXCEPT ![t] = FALSE]
  /\ UNCHANGED <<rowVars, workerVars, inserting, cancelling, deciding, expiring,
                 job, histVars>>

-----------------------------------------------------------------------------
(* The runner of one task.  Nothing here looks at the task's status except  *)
(* the guarded updates: a runner whose task was finished by another process *)
(* goes on until it ends by itself.                                         *)

At(t, pc) == run[t].pc = pc
Go(t, pc) == run' = [run EXCEPT ![t].pc = pc]

\* Mutant of RunStart: a resumed run starts the last turn over.
RunStartTurnOver(t) ==
  /\ At(t, "start")
  /\ \E gated \in GatedSets :
       \/ \E x \in DecidedUnconsumed(t) :
            run' = [run EXCEPT ![t].pc = "resume", ![t].using = x, ![t].gated = gated]
       \/ /\ DecidedUnconsumed(t) = {}
          /\ run' = [run EXCEPT ![t].pc = IF journal[t].planned THEN "fail" ELSE "plan",
                                ![t].gated = gated]
  /\ UNCHANGED <<rowVars, held, closing, handlerVars, histVars>>

\* run(): read the policies and the ceiling, then resume, refuse or plan.
RunStart(t) ==
  /\ At(t, "start")
  /\ \E gated \in GatedSets :
       \/ \E x \in DecidedUnconsumed(t) :
            run' = [run EXCEPT ![t].pc = "resume", ![t].using = x,
                               ![t].at = appr[x].index, ![t].gated = gated]
       \/ /\ DecidedUnconsumed(t) = {}
          /\ run' = [run EXCEPT ![t].pc = IF journal[t].planned THEN "fail" ELSE "plan",
                                ![t].gated = gated]
  /\ UNCHANGED <<rowVars, held, closing, handlerVars, histVars>>

Plan(t) ==
  /\ At(t, "plan")
  /\ Go(t, "loop")
  /\ journal' = [journal EXCEPT ![t].planned = TRUE]
  /\ UNCHANGED <<active, status, cancel, fresh, appr, held, closing, handlerVars,
                 histVars>>

\* _resume: the journal's last turn must hold the call the approval names.
MatchesJournal(t, x) ==
  /\ journal[t].planned /\ journal[t].turns > 0
  /\ appr[x].index < Len(journal[t].calls)
  /\ journal[t].calls[appr[x].index + 1] = appr[x].tool

Resume(t) ==
  LET x == run[t].using IN
  /\ At(t, "resume")
  /\ Go(t, IF cancel[t] THEN "cancelled"
           ELSE IF MatchesJournal(t, x) THEN "call" ELSE "fail")
  /\ fresh' = [fresh EXCEPT ![t] = @ \/ (~cancel[t] /\ MatchesJournal(t, x))]
  /\ UNCHANGED <<active, status, cancel, journal, appr, held, closing,
                 handlerVars, histVars>>

\* _loop, top of a round: budget, heartbeat, cancellation, deadline.
LoopTop(t) ==
  /\ At(t, "loop")
  /\ IF journal[t].turns >= MaxSteps
     THEN Go(t, "final") /\ UNCHANGED fresh
     ELSE /\ fresh' = [fresh EXCEPT ![t] = TRUE]
          /\ IF cancel[t] THEN Go(t, "cancelled") ELSE Go(t, "llm") \/ Go(t, "final")
  /\ UNCHANGED <<active, status, cancel, journal, appr, held, closing,
                 handlerVars, histVars>>

CallSeqs == UNION {[1..n -> Tools] : n \in 0..MaxCalls}

\* The model answers with a list of tool calls, recorded as a turn step.
Turn(t) ==
  /\ At(t, "llm")
  /\ \E calls \in CallSeqs :
       /\ journal' = [journal EXCEPT ![t].turns = @ + 1, ![t].calls = calls,
                                     ![t].recorded = 0]
       /\ run' = [run EXCEPT ![t].pc = IF calls = <<>> THEN "final" ELSE "call",
                             ![t].at = 0]
  /\ answered' = [answered EXCEPT ![t] = 0]
  /\ UNCHANGED <<active, status, cancel, fresh, appr, held, closing, handlerVars, ran>>

ToolAt(t) == journal[t].calls[run[t].at + 1]

\* _execute_call, unknown tool or rejected approval: an error result, no effect.
CallRefused(t) ==
  /\ At(t, "call")
  /\ Go(t, "record")
  /\ answered' = [answered EXCEPT ![t] = @ + 1]
  /\ UNCHANGED <<rowVars, held, closing, handlerVars, ran>>

\* Mutant of CallRequest: call_index counts from one.
RequestOneBased(t) ==
  /\ At(t, "call")
  /\ run[t].using = None /\ ToolAt(t) \in run[t].gated
  /\ \E x \in Approvals :
       /\ appr[x].status = "absent"
       /\ appr' = [appr EXCEPT ![x] = [status |-> "pending", task |-> t,
                                       tool |-> ToolAt(t), index |-> run[t].at + 1,
                                       consumed |-> FALSE]]
  /\ Go(t, "park")
  /\ UNCHANGED <<active, status, cancel, fresh, journal, held, closing,
                 handlerVars, histVars>>

\* _execute_call, above the ceiling: the approval row and its step, one commit.
CallRequest(t) ==
  /\ At(t, "call")
  /\ run[t].using = None /\ ToolAt(t) \in run[t].gated
  /\ \E x \in Approvals :
       /\ appr[x].status = "absent"
       /\ appr' = [appr EXCEPT ![x] = [status |-> "pending", task |-> t,
                                       tool |-> ToolAt(t), index |-> run[t].at,
                                       consumed |-> FALSE]]
  /\ Go(t, "park")
  /\ UNCHANGED <<active, status, cancel, fresh, journal, held, closing,
                 handlerVars, histVars>>

\* _execute_call, allowed: the tool runs.
CallExecute(t) ==
  LET x == run[t].using IN
  /\ At(t, "call")
  /\ IF x = None THEN ToolAt(t) \notin run[t].gated ELSE appr[x].status # "rejected"
  /\ Go(t, "record")
  /\ answered' = [answered EXCEPT ![t] = @ + 1]
  /\ ran' = IF x = None THEN ran ELSE [ran EXCEPT ![x] = @ + 1]
  /\ UNCHANGED <<rowVars, held, closing, handlerVars>>

\* The next call of the turn, or the next round.
NextCall(t) ==
  [run EXCEPT ![t].pc = IF run[t].at + 1 < Len(journal[t].calls) THEN "call" ELSE "loop",
              ![t].at = @ + 1, ![t].using = None]

\* The tool_call step; with an approval, mark_consumed is the next commit.
RecordCall(t) ==
  /\ At(t, "record")
  /\ journal' = [journal EXCEPT ![t].recorded = @ + 1]
  /\ IF run[t].using = None THEN run' = NextCall(t) ELSE Go(t, "consume")
  /\ UNCHANGED <<active, status, cancel, fresh, appr, held, closing, handlerVars,
                 histVars>>

\* Mutant of MarkConsumed: the approval stays unconsumed.
ConsumeNothing(t) ==
  /\ At(t, "consume")
  /\ run' = NextCall(t)
  /\ UNCHANGED <<rowVars, held, closing, handlerVars, histVars>>

MarkConsumed(t) ==
  /\ At(t, "consume")
  /\ appr' = [appr EXCEPT ![run[t].using].consumed = TRUE]
  /\ run' = NextCall(t)
  /\ UNCHANGED <<active, status, cancel, fresh, journal, held, closing,
                 handlerVars, histVars>>

\* park: running -> waiting_approval and the runner returns, or a conflict.
Park(t) ==
  /\ At(t, "park")
  /\ IF status[t] = "running"
     THEN /\ status' = [status EXCEPT ![t] = "waiting_approval"]
          /\ run' = [run EXCEPT ![t] = NoRun]
     ELSE Go(t, "unpark") /\ UNCHANGED status
  /\ UNCHANGED <<active, cancel, fresh, journal, appr, held, closing,
                 handlerVars, histVars>>

Unpark(t) ==
  /\ At(t, "unpark")
  /\ ExpirePending(t)
  /\ run' = [run EXCEPT ![t] = NoRun]
  /\ UNCHANGED <<active, status, cancel, fresh, journal, held, closing,
                 handlerVars, histVars>>

\* _finalize up to the critique call: cancellation, then the grace period.
FinalCheck(t) ==
  /\ At(t, "final")
  /\ Go(t, IF cancel[t] THEN "cancelled" ELSE "critique")
  /\ UNCHANGED <<rowVars, held, closing, handlerVars, histVars>>

\* Mutant of Critique: past the grace period the task completes without a report.
CritiqueLast(t) ==
  /\ At(t, "critique")
  /\ \E pc \in {"report", "complete"} : Go(t, IF cancel[t] THEN "cancelled" ELSE pc)
  /\ UNCHANGED <<rowVars, held, closing, handlerVars, histVars>>

Critique(t) ==
  /\ At(t, "critique")
  /\ Go(t, IF cancel[t] THEN "cancelled" ELSE "report")
  /\ UNCHANGED <<rowVars, held, closing, handlerVars, histVars>>

\* set_phase_output skips a task that is not open.
SetPhaseOutput(t) ==
  journal' = [journal EXCEPT ![t].reported = @ \/ status[t] \in OpenStatuses]

\* The report step and the report of the task row.
Report(t) ==
  /\ At(t, "report")
  /\ Go(t, "complete")
  /\ SetPhaseOutput(t)
  /\ UNCHANGED <<active, status, cancel, fresh, appr, held, closing, handlerVars,
                 histVars>>

\* run_task's endings: each a finish that only an open task accepts.
EndRun(t, pc, final) ==
  /\ At(t, pc)
  /\ run' = [run EXCEPT ![t] = NoRun]
  /\ Finish(t, final)
  /\ UNCHANGED <<active, cancel, fresh, journal, appr, held, closing, inserting,
                 cancelling, deciding, sweeping, job, histVars>>

Complete(t)     == EndRun(t, "complete", "completed")
EndCancelled(t) == EndRun(t, "cancelled", "cancelled")
EndFailed(t)    == EndRun(t, "fail", "failed")

\* RunFailed or any exception: a bad answer, a tool or database error, a limit.
RunError(t) ==
  /\ run[t].pc \notin {"off", "fail"}
  /\ Go(t, "fail")
  /\ UNCHANGED <<rowVars, held, closing, handlerVars, histVars>>

\* Marking the failure fails too: the run is over and its task still running.
RunLost(t) ==
  /\ At(t, "fail")
  /\ run' = [run EXCEPT ![t] = NoRun]
  /\ UNCHANGED <<rowVars, held, closing, handlerVars, histVars>>

-----------------------------------------------------------------------------
ApiNext ==
  \/ \E a \in Agents : ChangeAgentStatus(a)
  \/ \E t \in Tasks : \/ EnqueueCheck(t) \/ EnqueueInsert(t)
                      \/ CancelRead(t) \/ CancelFinish(t) \/ CancelFlag(t)
  \/ \E x \in Approvals : Decide(x) \/ DecideRead(x) \/ DecideResume(x) \/ DecideFail(x)
  \/ BackendCrash

JobNext ==
  \/ \E x \in Approvals : ExpireDue(x)
  \/ \E t \in Tasks : \/ ExpireReadTask(t) \/ ReapPick(t) \/ ReapReadPending(t)
                      \/ ReapReadDecided(t) \/ ReapResume(t) \/ JobFail(t)
                      \/ ExpireForTask(t) \/ LoseExpireForTask(t)

WorkerNext ==
  \/ \E w \in Workers : \/ Purge(w) \/ Close(w) \/ WorkerCrash(w)
                        \/ \E t \in Tasks : Claim(w, t) \/ CloseTask(w, t)
  \/ \E t \in Tasks : \/ Beat(t) \/ HardStop(t) \/ GoStale(t)
                      \/ SweepSelect(t) \/ SweepFinish(t) \/ SweepCrash(t)

RunnerStep(t) ==
  \/ RunStart(t) \/ Plan(t) \/ Resume(t) \/ LoopTop(t) \/ Turn(t)
  \/ CallRefused(t) \/ CallRequest(t) \/ CallExecute(t) \/ RecordCall(t)
  \/ MarkConsumed(t) \/ Park(t) \/ Unpark(t) \/ FinalCheck(t) \/ Critique(t)
  \/ Report(t) \/ Complete(t) \/ EndCancelled(t) \/ EndFailed(t) \/ RunError(t)
  \/ RunLost(t)

RunnerNext ==
  \E t \in Tasks : RunnerStep(t)

Next == ApiNext \/ JobNext \/ WorkerNext \/ RunnerNext

Spec == Init /\ [][Next]_vars

-----------------------------------------------------------------------------
(* Safety.                                                                  *)

RunnerPcs == {"off", "start", "plan", "resume", "loop", "llm", "call", "record",
              "consume", "park", "unpark", "final", "critique", "report",
              "complete", "cancelled", "fail"}
JobPcs    == {"idle", "expired", "waiting", "nopending", "requeue", "failing"}

JournalRow  == [planned : BOOLEAN, turns : Nat, calls : Seq(Tools), recorded : Nat,
                reported : BOOLEAN]
ApprovalRow == [status : ApprovalStatuses, task : Tasks \cup {None},
                tool : Tools \cup {None}, index : Nat, consumed : BOOLEAN]
Runner      == [pc : RunnerPcs, on : Workers \cup {None}, at : Nat,
                using : Approvals \cup {None}, gated : SUBSET Tools, spent : BOOLEAN]

\* Every variable holds what the columns and the processes' locals can hold.
TypeOK ==
  /\ active \in SUBSET Agents
  /\ status \in [Tasks -> Statuses]
  /\ cancel \in [Tasks -> BOOLEAN]
  /\ fresh \in [Tasks -> BOOLEAN]
  /\ journal \in [Tasks -> JournalRow]
  /\ appr \in [Approvals -> ApprovalRow]
  /\ run \in [Tasks -> Runner]
  /\ held \in [Workers -> SUBSET Tasks]
  /\ closing \in [Workers -> SUBSET Tasks]
  /\ inserting \in [Tasks -> BOOLEAN]
  /\ cancelling \in [Tasks -> {"no"} \cup OpenStatuses]
  /\ deciding \in [Approvals -> {"no", "decided", "resume", "fail"}]
  /\ expiring \in [Tasks -> BOOLEAN]
  /\ sweeping \in [Tasks -> BOOLEAN]
  /\ job \in [pc : JobPcs, on : Tasks \cup {None}]
  /\ answered \in [Tasks -> Nat]
  /\ ran \in [Approvals -> Nat]

\* The life of every task is the one TaskLifecycle promises: one open task per
\* agent, whatever cron ticks and manual runs race, and no change after the end,
\* whatever sweeps, cancels, decisions and runners race.
Lifecycle == INSTANCE TaskLifecycle
               WITH Agents <- Agents, Tasks <- Tasks, AgentOf <- AgentOf, status <- status
RefinesLifecycle == Lifecycle!Spec

\* An agent never has two open tasks: the pre-check of enqueue is stale when the
\* insert runs, only the index of the table holds.
OneOpenTaskPerAgent ==
  \A t, u \in Tasks : /\ AgentOf[t] = AgentOf[u]
                      /\ status[t] \in OpenStatuses /\ status[u] \in OpenStatuses
                      => t = u

\* No runner is at work on a task a worker may claim, or may be made to claim by
\* a decision: the claim never starts a second runner beside a first one.
NoRunnerBeforeClaim ==
  \A t \in Tasks : status[t] \in {"absent", "queued", "waiting_approval"} => At(t, "off")

\* The tool call approved by a decision is executed at most once, across resumed
\* runs, crashes between the call and mark_consumed, and swept runners that go on.
ApprovedCallRunsOnce == \A x \in Approvals : ran[x] <= 1

\* What ran under an approval stays approved: neither a second decision nor the
\* expiry of the approval overwrites the decision the runner acted on.
RanWasApproved == \A x \in Approvals : ran[x] > 0 => appr[x].status = "approved"

\* The runner answers the calls of a turn in order, each once, also when it resumes
\* in the middle of a turn from the journal: the recorded results are those of the
\* calls before the one the approval names (_rebuild_history pairs them by position).
CallsAnsweredInOrder ==
  \A t \in Tasks :
    /\ At(t, "call") => run[t].at = answered[t] /\ journal[t].recorded = answered[t]
    /\ At(t, "record") => answered[t] = run[t].at + 1 /\ journal[t].recorded = run[t].at

\* A task has at most one approval that is pending or decided and not consumed, so
\* decided_unconsumed returns the decision the parked call is waiting for.
Outstanding(t) == PendingOf(t) \cup DecidedUnconsumed(t)
OneOutstanding == \A t \in Tasks : \A x, y \in Outstanding(t) : x = y

\* A completed task has its report, though the report is stored, and the task
\* completed, by separate guarded commits that a sweep or a cancel can come between.
CompletedHasReport == \A t \in Tasks : status[t] = "completed" => journal[t].reported

\* When a resumed runner reaches the journal, the approval it holds names a call of
\* the last turn: _resume never fails a task its operator has decided.
ResumeFindsItsCall == \A t \in Tasks : At(t, "resume") => MatchesJournal(t, run[t].using)

\* The strengthening the proofs use: what the rows, the history and the runner of a
\* task say of the approval that is outstanding for it.  While the task can still
\* reach _resume, that approval names the first call of the last turn that has no
\* result, and was not used; a runner past its gate has nothing outstanding.
ResumeReady(t) ==
  status[t] \in {"queued", "waiting_approval"} \/ run[t].pc \in {"start", "resume", "park"}

NamesNextCall(t, x) ==
  /\ ran[x] = 0
  /\ appr[x].index = answered[t] /\ journal[t].recorded = answered[t]
  /\ MatchesJournal(t, x)

InTurn(t) ==
  /\ journal[t].planned /\ journal[t].turns > 0
  /\ run[t].at < Len(journal[t].calls)

RunnerInv(t) ==
  LET r == run[t] IN
  /\ r.pc \in {"loop", "llm"} => journal[t].planned
  /\ r.pc \in {"start", "plan", "loop", "llm"} => r.using = None
  /\ r.pc \in {"resume", "consume"} => r.using # None
  /\ r.pc \in {"plan", "loop", "llm"} => Outstanding(t) = {}
  /\ r.pc \in {"call", "record"} /\ r.using = None => Outstanding(t) = {}
  /\ r.pc \in {"resume", "call", "record", "consume"} /\ r.using # None =>
       r.using \in DecidedUnconsumed(t)
  /\ r.pc = "resume" => r.at = appr[r.using].index
  /\ r.pc \in {"call", "record", "consume"} => InTurn(t)
  /\ r.pc = "call" => /\ r.at = answered[t] /\ journal[t].recorded = answered[t]
                      /\ r.using # None => ran[r.using] = 0
  /\ r.pc = "record" => r.at + 1 = answered[t] /\ journal[t].recorded = r.at
  /\ r.pc = "consume" => r.at + 1 = answered[t] /\ journal[t].recorded = answered[t]

TaskInv(t) ==
  /\ status[t] \in {"absent", "queued", "waiting_approval"} => At(t, "off")
  /\ status[t] = "absent" => ~journal[t].planned
  /\ ApprovalsOf(t) # {} => journal[t].planned
  /\ \A x, y \in Outstanding(t) : x = y
  /\ ResumeReady(t) => \A x \in Outstanding(t) : NamesNextCall(t, x)
  /\ RunnerInv(t)

ApprovalInv(x) ==
  /\ ran[x] <= 1
  /\ ran[x] > 0 => appr[x].status = "approved"
  /\ appr[x].status # "absent" => appr[x].task \in Tasks
  /\ appr[x].status \in {"absent", "pending"} => ~appr[x].consumed

ReplayInv == (\A t \in Tasks : TaskInv(t)) /\ (\A x \in Approvals : ApprovalInv(x))

-----------------------------------------------------------------------------
(* Liveness.  The backend and the workers are restarted (restart:           *)
(* unless-stopped) and their loops are periodic, but any one pass may be    *)
(* lost with its process: strong fairness for what such a pass retries.     *)

JobPass(t) ==
  \/ ExpireReadTask(t) \/ ReapReadPending(t) \/ ReapReadDecided(t)
  \/ ReapResume(t) \/ JobFail(t)

\* The heartbeat of a lost or wedged run ends and ages, and the sweep sees it.
SweepFairness ==
  \A t \in Tasks : /\ WF_vars(HardStop(t)) /\ WF_vars(GoStale(t))
                   /\ WF_vars(SweepSelect(t)) /\ SF_vars(SweepFinish(t))

\* The approval job runs every minute, looks at every due approval and at every
\* waiting task, and is not killed in every one of its passes for ever.
JobFairness ==
  /\ <>[][~BackendCrash]_vars
  /\ \A x \in Approvals : SF_vars(ExpireDue(x))
  /\ \A t \in Tasks : SF_vars(ReapPick(t)) /\ WF_vars(JobPass(t))

\* Model and tool calls return or time out, so a runner takes its next step, and
\* a worker with a free slot claims.
WorkerFairness ==
  \A t \in Tasks : /\ WF_vars(RunnerStep(t))
                   /\ SF_vars(\E w \in Workers : Claim(w, t))

\* A running task leaves that status even if its worker is dead or its runner
\* hangs in a call for ever: only the sweep and the clock are fair.
RunningEnds == \A t \in Tasks : status[t] = "running" ~> status[t] # "running"

\* Every task ends, however its operator decides or does not, and wherever the
\* processes stop between the commits of decide, park, resume and expiry.
EveryTaskEnds ==
  \A t \in Tasks : status[t] \in OpenStatuses ~> status[t] \in FinalStatuses

\* An approval left pending on a finished task (the process died between finish
\* and expire_for_task) does not stay in the operator's list.
NoPendingForever ==
  \A x \in Approvals : appr[x].status = "pending" ~> appr[x].status # "pending"

-----------------------------------------------------------------------------
(* What the documentation says of the program and the code does not ensure. *)

\* "A decided approval is consumed exactly once; a second resume attempt for the
\* same approval is a no-op" (agent-approvals-design.md): decide must not requeue
\* a task for an approval that has been consumed.
SecondResumeIsNoOp ==
  [][\A x \in Approvals :
       deciding[x] = "resume" /\ deciding'[x] = "no" /\ status' # status
       => ~appr[x].consumed]_vars

=============================================================================
