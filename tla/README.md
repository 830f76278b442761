# MCP Tour De Control: specifications

TLA+ modules for the parts of the system that several processes or requests work
on at once, the TLC configurations that check them on small instances, and
theorems that the TLA+ proof system checks for every instance. Paths below are
relative to `src/`; `backend/app/` is left out where it is clear.

## 1. The system

A FastAPI backend, one or more worker processes, PostgreSQL, a React frontend
and a SIPp stress-test server. The backend holds the API and an APScheduler
instance (one per backend process) whose jobs run in the same event loop. The
backend and the workers share nothing but the database; `LISTEN/NOTIFY` only
wakes them up earlier than their polling would.

| Component | State it keeps | Operations | Talks to |
|---|---|---|---|
| Agent task queue (`services/agent_task_service.py`, `models/agent_task.py`) | rows of `agent_task` (status, cancel flag, heartbeat, outputs), the step journal | enqueue, claim, heartbeat, sweep_stale, record_step, set_phase_output, finish, park, resume, request_cancel | API, cron, workers, approvals |
| Approvals (`services/approval_service.py`) | rows of `approval` | request, decide, decided_unconsumed, mark_consumed, expire_for_task, expire_due, reap_orphaned_waiting | runner, API, scheduler |
| Agent runner (`services/agent_runner.py`) | locals of one run: messages, limits, ceiling | plan, tool loop, approval gate, resume from the journal, critique, report | model, MCP tools, the two services above |
| Worker (`worker.py`) | `_running`, one heartbeat task per run | process_available, _run_with_heartbeat, sweep, close | queue, runner |
| Agent lifecycle (`services/agent_service.py`, `routers/agents.py`) | `agent.status`, `agent.cron_expr`, scheduler jobs | change_status, apply_update, delete, enqueue_from_cron | scheduler, queue |
| Scheduler (`services/scheduler_service.py`, `main.py`) | job store | start-up restore, one callback per job | everything periodic |
| Task event stream (`routers/agent_tasks.py`, `useAgentTaskStream.ts`) | last sequence number and status sent; on the page, what was streamed and what was fetched | backlog, LISTEN, re-read, done; poll, merge | queue, browser |
| Approval notifier and replies (`services/approval_notifier.py`, `approval_replies.py`) | notified_at, notify_error, codes | notify after the park, poll the replies | WhatsApp server, approvals |
| SMS auto-reply (`services/sms_auto_reply_service.py`, `sms_auto_reply_rules.py`) | rows of `sms_reply` | find triggers, claim, send, record | TmLite server |
| SIM pairing (`services/sim_pairing_service.py`, `sim_pairing_retention.py`) | pairs, names, history | sync, purge | TmLite server |
| Pair conversations and calls (`services/sim_pair_conversation_service.py`, `sim_pair_call_service.py`, `utils/quiet_hours.py`) | message queue, messages, calls | enqueue, select a batch, send, retry; call, reconcile | TmLite server, pairing |
| Stress tests (`services/stress_test_service.py`, `routers/stress_tests.py`, `sipp-stress/`) | `stress_test.status`, polling tasks; the server's own test table | launch, stop, poll, delete; start, monitor, stop | each other |
| Prompts, scripts, executions (`routers/prompts.py`, `routers/scripts.py`, `services/script_executor.py`) | script versions, cron jobs, execution rows | generate, edit, toggle, delete, run | scheduler, subprocess |
| Chat (`services/chat_service.py`) | conversations, messages | stream one answer with tool rounds | model, MCP tools |
| Document activity (`services/document_scanner.py`) | snapshots, diffs | daily scan | Google Drive |

What is hard, by component:

- **Queue, approvals, runner, worker.** Every operation is several commits, each
  guarded by what the row says then, after decisions taken on what it said
  earlier. Five writers finish tasks. A worker can die or lose its heartbeat
  between any two commits, a swept runner goes on, and a run that waits for an
  operator is resumed by another process from the journal alone. To be correct:
  one open task per agent; a final status is final; one runner per task; an
  approved call runs once, in its place in the turn; a decision is kept; a
  completed task has its report; every task ends.
- **Agent lifecycle, prompts.** The scheduler's job follows the committed row in a
  second step, from a row that was read again in between, while other requests do
  the same. To be correct: a job fires for what the row says and for nothing else;
  the newest script is the one that runs.
- **Executions.** A script that outlives its time is killed while its prompt is
  being deleted or the backend restarted. To be correct: an outcome is stored only
  when the process is gone, and a success only for exit code 0.
- **Event stream.** Two reads without a common snapshot, a notification before the
  listener is there, and a page that merges what it fetched with what was streamed.
  To be correct: no step is missing, no page waits for a stream that is gone, and
  the end of a task reaches the page.
- **Notifier and replies.** A message sent and then recorded, replies read again
  every minute in any order. To be correct: a reply decides the approval whose
  code it names, once.
- **SMS auto-reply.** To be correct: no trigger is answered twice, no number twice
  within its cooldown, no fleet number at all, across crashes.
- **SIM pairs.** Texts and calls leave before the commit that records them, a sync
  archives pairs beside a running batch, a quiet window wraps around midnight. To
  be correct: a bounded number of pairs per SIM, one pending message per pair, SIMs
  that take turns, cooldown and cadence kept, calls settled with their own records.
- **Stress tests.** Two status tables in two processes, each with two writers. To be
  correct: what a row says of the end of its test is true; a running generator has a
  row to stop it from; every test ends.

## 2. Modules

| Module | What it is |
|---|---|
| `TaskLifecycle` | Abstract specification: what readers of `agent_task.status` may rely on |
| `AgentTasks` | Queue, approvals, runner and workers, one action per stretch of code between two points where another process can act |
| `MCAgentTasks` | Instances, sub-specifications and fair specifications for TLC |
| `AgentTasksProofs`, `AgentTasksReplay` | Theorems: types, one open task per agent, refinement of `TaskLifecycle`; the invariant of runs, approvals and journal, and what follows from it |
| `TaskFeed` | Abstract specification: what the event stream of a task promises its client |
| `EventStream` | The stream, the connection and the page over the commits of one task |
| `EventStreamProofs` | Theorems: refinement of `TaskFeed`, and what the page may rely on |
| `SmsAutoReply`, `MCSmsAutoReply` | The SMS auto-reply job of each backend process over the rows of `sms_reply` they share; instances for TLC |
| `SmsAutoReplyProofs` | Theorems: types, no contact answered twice, no SIM answered by a run that has read it, cooldown kept, a burst answered once |
| `QuietHours` | The quiet window and the shift out of it, as operators on hours |
| `SimPairing` | Pairs, names and the purge: the sync over the inventory and the database |
| `PairConversation` | Extends `SimPairing`: the run that queues, chooses and sends messages |
| `PairCalls` | Extends `SimPairing`: the run that settles and places calls |
| `SimFleet`, `MCSimFleet` | The three jobs together; an instance for TLC |
| `SimFleetProofs`, `SimSyncProofs` | Theorems: the invariant of pairs, queue, messages and calls; what syncs make of pairs and names, and what of it holds when they overlap |
| `StressTest`, `StressTestProofs` | Backend and SIPp server around one table of tests each; theorems |
| `CronJobs` | The job store and the requests that change prompts and agents |
| `ScriptRuns`, `MCCronJobs` | Extends `CronJobs`: executions; an instance for TLC |
| `CronJobsProofs` | Theorems: where the jobs of agents and prompts come from and when they are those of their rows, versions grow, outcomes are true |

`TaskLifecycle` and `TaskFeed` are implemented by `AgentTasks` and `EventStream`
(`INSTANCE ... WITH` in those modules, `RefinesLifecycle` and `FeedSpec` in the
runs). `SimFleet` and `ScriptRuns` compose: the first interleaves the jobs of one
backend process over shared rows, the second adds executions to the requests that
edit and delete their prompts.

### How `AgentTasks` corresponds to the code

State. `status`, `cancel`, `fresh` are columns of `agent_task` (`fresh` says that
`heartbeat_at` is younger than the stale limit). `journal[t]` is what the steps
and the output columns of a task say: whether a plan is stored, the number of
turns, the tools of the last turn, the results recorded for it, whether the
report is stored. `appr[x]` is a row of `approval`; `tool` stands for the tool
name, server and argument hash that `_resume` compares. `active` is the set of
agents whose status is `active`. `run[t]` is the coroutine that executes a task:
where it is, on which worker, which call of the turn, under which approval, and
the set of tools above the ceiling, which a run reads once at its start. `held`
is `Worker._running` with the finished runs it still contains. `inserting`,
`cancelling`, `deciding`, `expiring`, `sweeping`, `job`, `closing` hold what a
handler has read and not yet acted on. `answered` and `ran` are history.

Actions. An operation that commits once is one action; one with several commits
is cut at each, and its later parts act on what the earlier ones read:

| Code | Actions |
|---|---|
| `enqueue` | `EnqueueCheck` (status and open-task pre-check), `EnqueueInsert` (the partial unique index decides) |
| `claim`, `process_available` | `Claim`, `Purge` |
| `_run_with_heartbeat` | `Beat`, `HardStop`, `GoStale` (time passes), `RunLost` (even marking the failure fails) |
| `sweep_stale` | `SweepSelect`, `SweepFinish`, `SweepCrash` |
| `finish` | operator `Finish` in its callers, then `ExpireForTask` or, if the process is lost, `LoseExpireForTask` |
| `request_cancel` | `CancelRead`, `CancelFinish` or `CancelFlag` |
| `decide` | `Decide`, `DecideRead`, `DecideResume` or `DecideFail` |
| `expire_due` | `ExpireDue`, `ExpireReadTask`, `JobFail` |
| `reap_orphaned_waiting` | `ReapPick`, `ReapReadPending`, `ReapReadDecided`, `ReapResume` or `JobFail` |
| `_Run.run`, `_loop`, `_resume`, `_finalize` | `RunStart`, `Plan`, `Resume`, `LoopTop`, `Turn`, `FinalCheck`, `Critique`, `Report`, `Complete` |
| `_execute_call` | `CallRefused`, `CallRequest`, `CallExecute`, `RecordCall`, `MarkConsumed` |
| `request`, `park` | `CallRequest` (row and step, one commit), `Park`, `Unpark` |
| endings of `run_task` | `EndCancelled`, `EndFailed`, `RunError` (any exception), `RunLost` |
| `Worker.close`, a kill, a backend restart | `Close`, `CloseTask`, `WorkerCrash`, `BackendCrash` |

Abstractions. Time is nondeterministic: a heartbeat may age whenever its task is
running, an approval may be due whenever it is pending, a limit may be hit at
any round. The model answers with any list of at most `MaxCalls` tools; any call
may fail. Costs, texts and ids are left out. The worker's slot is free at the
park, while the code sends the approval notification first. A pass of the
approval job picks its tasks in any order and one at a time. Adjacent commits of
one process with nothing between them that another process can tell apart are
one action (a step and the output column that repeats it). Deleted rows are not
modelled.

### How `SmsAutoReply` corresponds to the code

State. A contact is a row of TmLite's `list_sms` or `list_calls`; `at[c]` is its
time, and it is listed from that instant on; `undated` are the SMS whose row has no
usable date. `listed[s]` says whether TmLite holds the number of a SIM or a stray
short value. `reply` and `made` are the status and
`created_at` of the row of `sms_reply` with that `trigger_ref`. `run[p]` is the run
holding the lock of process `p`: `begin` is what `since` is computed from, `fleet`
and `reach` (contacts with a caller and a SIM) are what it read, `unread` the SIMs
its reading of the fleet did not come to, `todo` the triggers it still has, `on` the
contact it has claimed, `config` whether the Config row of its session can still be
read. `texts` (what has left) and `unseen` (contacts answered by a run that had not
read their SIM) are history. A number is a sequence of parts,
so that `SameNumber` is the suffix test of `same_number`.

| Code | Actions |
|---|---|
| `run`, the gates of `_run` | `RunStart`, `RunEnds` (over, refused, raised, or the process lost) |
| `_all_sims` and the three stops | `ListSims` |
| `_recent_sms`, `_recent_calls`, `sms_triggers`, `missed_call_trigger` | `ListContacts` |
| the two queries before the loop, `drop_recent_recipients` | `ReadRefs`, `ReadRecent` |
| the loop | `Skip`, `Claim`, `StoreFails` (the commit raises), `Send`, `RecordOutcome` |
| TmLite, the clock | `Contact`, `EditSim`, `Tick` |

Abstractions. The batch is a set, ordered by `Before` as the code's list is. The
calls and the SMS are read in one step. A list is read page by page, and ends where a
page is no list or at the tenth: what a reading returns is all of it or some full pages
(`Listed`), of the SMS the newest. A send raises with or without the message
having left, a commit raises with or without the row being stored. A failed commit
is followed by a rollback, which expires the Config row; the run then goes on
through contacts it skips and raises at the first one it could answer. A preview
is a run that stops before its loop. Settings do not change during a run's life.
The inventory of SIMs is fixed and each has some number in TmLite, usable or not:
a SIM without any cannot be recognised, and the code supposes that it never sends.
That TmLite writes each SIM's number in forms `same_number` recognises is
`FleetAssumption`.

### How `EventStream` corresponds to the code

State. `task` is the row and its journal (`steps`), with the number of steps at
its last status change in `due`. `srv` is the generator `task_events`: where it is,
`seq` and `last` as it keeps them, the notifications in its queue, and whether its
LISTEN connection is lost. `wire` holds the frames on the way. `page` is the hook:
its connection, `isLive`, `sawDone`, the streamed steps and status, and the fetched
task and steps under them. `fetch` is the request of React Query.

| Code | Actions |
|---|---|
| `record_step`, `claim`, `park`, `resume`, `finish`, a deletion | `RecordStep`, `ChangeStatus`, `Delete`, the first two with their `NOTIFY` |
| `task_events` and its generator | `SrvCheck`, `SrvSteps`, `SrvTask`, `SrvListen`, `SrvGet`, `SrvFail`, `Deafen` |
| the effect of `useAgentTaskStream`, its reader and its clean-up | `OpenStream`, `Receive`, `Abort` |
| `refetchInterval`, focus, the request in its two reads | `Poll`, `Focus`, `FetchTask`, `FetchSteps`, `FetchFail` |
| a lost connection, a reload | `Break`, `Reload` |

Abstractions. The contents of steps are left out: a step is its number. A step may be
recorded in any status, as operators, expiry and sweep do on tasks that wait. The timeout
of `queue.get` sends a comment and reads nothing, so it is no action. A page does
not stay in a background tab for ever, where polling pauses.

### How `SimPairing`, `PairConversation`, `PairCalls` and `SimFleet` correspond

State. `sims` is what `list_sims` answers: per SIM its state (`OFFLINE` stands for
the durable bad states, `ABSENT` for one that is not listed), whether its group is
tracked, its gateway. `names` is `sim_pairing_sim`; a machine label of an older
installation is a negative number. `pair`, `queue`, `msgs` and `calls` are the rows
of their tables (`msgs` those that were sent); `cdrs` are the call records of
TmLite. `sync[h]` is a caller of `sync()` between its reads and its commit (`fresh`: no other
has committed since), or the job before its purge; `talk` and `ring` are the runs that
hold the two run locks. `config` says which of the two automations is enabled. History:
`synced` is what the last committed sync had seen, unless another had overtaken it,
`late` the pairs made by syncs that were overtaken, `placed` the calls TmLite was made
to place, and whether the commit that records each was reached.

| Code | Actions |
|---|---|
| `sync`, `_finish`, an exception in them | `SyncRead`, `SyncCommit`, `SyncFail`; `SyncSkip` (no group enabled, or no topic) |
| the loops of `sync` and `_ensure_sim_names` | operators `Survives`, `IsCreated`, `RowOf`; `Unnamed`, `NthFree`, `Renamed` |
| `purge_archived_pairs`, an exception in it | `Purge` (a batch, the oldest first; nothing when the retention is 0), `PurgeFail` |
| `_run_due`, `_enqueue_pairs` | `TalkStart`, `TalkEnqueue` |
| `_due_candidates`, `_select_batch` | `TalkChoose`, with `IsCandidates` and `IsChosen` |
| the loop of `_run_due`: a text sent, its commit, its retry | `TalkSend`, `TalkRecord`, `TalkFail` |
| quiet hours, errors, a lost process | `TalkStop` |
| `run_due` of the calls | `RingStart`, `RingReconcile`, `RingOriginate`, `RingRecord`, `RingFail`, `RingStop` |
| TmLite, the clock | `EditSim`, `Finalize`, `Tick` |

Abstractions. A time is a number of hours (a tick). The two nested loops that make
pairs, and the loop that chooses a batch, are stated by what they return: the set
in which each member was admitted given those before it. Candidates that tie in the
order of the query come in any order. Topics, groups by name, texts and the history
table are left out. Two formats of a number are one SIM; that a record is matched
by number only if the called SIM is listed is kept. `PurgeSparesRuns` says that no
run is still at work on a pair when its retention, which is days, is over.

### How `StressTest` corresponds to the code

`row` is `stress_test` with the calls of its latest snapshot, `launch`, `poll` and
`req` are the coroutines of the backend, `entry` is `SippRunner.tests`, `uac` the
process, `made` the calls it has made. `lost` records which of the faults that the
properties except has happened to a test. A launch that fails stores `failed`
(`LaunchFail`), unless that commit raises as well: then the row stays as it is, pending
or running, and nobody watches it.

| Code | Actions |
|---|---|
| `POST /stress-tests`, `launch_test` | `Create`, `LaunchStart`, `LaunchCommit`, `LaunchPoll`, `LaunchFail` |
| `_poll_metrics` | `PollWake`, `PollAsk`, `PollFetch`, `PollStore`, `PollEnd`, `PollFail` |
| `POST .../stop`, `DELETE`, `stop_test` | `Ask`, `StopRemote`, `StopFetch`, `StopStore`, `StopCommit`, `StopCancel`, `StopFail`, `Delete` |
| `SippRunner.start`, `stop`, `_monitor` | `LaunchStart`, `StopRemote`, `Monitor` |
| SIPp, restarts of either container | `Call`, `Exit`, `ServerRestart`, `BackendRestart` |

### How `CronJobs` and `ScriptRuns` correspond to the code

`row` is status or `enabled` and the expression of an agent or a prompt, `job` the
job store, `work[r]` a request with what it has loaded, written and read again,
`scripts` the committed versions of a prompt, `run[e]` an execution with its process.
`asked` is history: the jobs that the committed rows of an agent have asked for.
`gap` records of which owner the job, or the versions, are no longer promised: a
request acted on a row that another had changed since, was cut short, or is one of
those of which section 3 tells.

| Code | Actions |
|---|---|
| `create_prompt`, `regenerate_script`, `delete_prompt` | `PromptCreate`, `PromptGenerate`, `PromptAdd`; `RegenerateRead`, `RegenerateCommit`; `PromptDelete`, `Commit` |
| `toggle_prompt`, `update_prompt` | `Load`, `Commit`, `Refresh`, `SyncToggle` or `SyncEdit` |
| `create_agent`, `change_status`, `apply_update`, `delete_agent` | `AgentCreate`; `Load`, `Commit`, `Refresh`, `SyncAgent` |
| `lifespan()` at start-up | `Restart`, `RunRestart` |
| `_execute_prompt_job`, `POST /scripts/{id}/run` | `Tick`, `RunByHand` |
| `ScriptExecutor.execute` | `Insert`, `Spawn`, `Collect`, `Timeout`, `Drained`, `RunLost`; the script itself is `Exit` |

An expression is a model value, valid, refused by APScheduler, blank or none: what
APScheduler does with it is all that counts. An execution is read, inserted and
settled in separate steps, so that a deletion may come between.

## 3. Runs

| Run | Question | Bounds | States |
|---|---|---|---|
| `full` | With every action, is there a single runner, are decisions kept, is a report there before completion, and does a running task leave that status by sweep and clock alone? | 1 task, 1 approval, 1 worker, 1 round, 1 call | 187 thousand |
| `decisions` | Does resumption find its place and run the approved call once? | 2 approvals, 2 rounds of up to 2 calls, ceiling edited between runs | 1.6 million |
| `queue` | Does the status column implement the abstract life? | 2 tasks of one agent, 2 slots | 1.5 million |
| `live` | Does every task and every pending approval end? | as `full` | 68 thousand |
| `event_stream` | Does the stream keep its promise, does the page have every step, is it never stranded, and does it learn of the end? | 2 steps, 2 status changes, 1 fault | 1.8 million |
| `sms_answers` | One text per person and cooldown, none twice, none to a SIM that was read, none for what came well before a reply? | 1 process, 3 contacts of 2 people, 2 SIMs, lists of up to 2 pages of 1 row, window and cooldown 1, reads of up to 1, 4 instants | 3.6 million |
| `sim_fleet` | Are pairs and names well formed, and are turn, cooldown, cadence and records kept beside syncs that overlap, purges and lost runs? | 4 SIMs, 3 pairs, 2 per SIM, 2 callers of sync, 3 instants of a day of 4 hours | 874 thousand |
| `stress` | Does every generator have a row and every row a poller, is what it says of the end true, and does it end? | 1 test, 2 requests, 1 call | 253 thousand |
| `cron_jobs` | Is a job always one a row asked for, and that of the row after requests in sequence, do versions grow, are outcomes true? | 1 prompt or 1 agent, 2 requests, 2 good and 2 bad expressions, 2 scripts, 1 execution | 985 thousand |
| `doc_...` | Three statements of the documentation and the comments that the code does not ensure | as needed | counterexamples |

Deadlock is checked in all runs of a whole system but one: in `event_stream` nothing
is left to do once the task is final or deleted, its page has fetched that, and the
bounded changes and faults are used up. (A page can always fetch again on focus, but
a configuration that may stop is not an error of the code.)

Why these bounds are enough. One task has at most one runner and one row, so
every race over it is a race of handlers, all of which exist with one task. A
second task matters for what is per agent (`queue`). Two approvals are needed for
a decision of the first that arrives while the second is outstanding, and turns
of two calls for a resumption in the middle of a turn. A second worker would matter
only for `Worker.close`: a crashed worker that is claiming again is already another
process to its old task. `full` checks the whole next-state relation; `decisions`
and `queue` leave out kinds of step so that the larger instance stays explorable.

For the stream, two steps are what a hole needs, two changes of status a task that
parks and one that ends while the stream looks away, and one fault each of the ways
to lose it; a task has one page, and pages share nothing.

For the SMS job two contacts of one person are what every race and every cooldown
needs, in two formats so that suffix matching is at work; a call to a SIM is what
the fleet guard is for, and the second SIM what tells one usable number from all, and
the whole fleet from a part. The SMS may have no date. Window and cooldown are equal,
the boundary that `routers/config.py:201` accepts, and the clock runs past both.
`MaxReading` bounds the time between the start of a run, where the window is computed,
and its query of the cooldown. At the boundary a text may answer what was received
before the previous one, by up to that time: `BurstAnsweredOnce` says that it is by no
more, and that it never happens when the window is shorter than the cooldown by the
time of reading, as it is by hours with the defaults. `FleetNeverAnswered` is about SIMs
that the run has read; the others are the exception it names. With two processes
`CooldownKept` does not hold, because each reads the cooldown before the other stores:
the deployment runs one backend process (`docker-compose.yml`), and the property is
stated for one. `AnsweredOnce` holds for any number of processes, by theorem.
`MCSmsAutoReply` has the SIM called at the first instant and keeps the number of the
other SIM usable; theorems keep neither restriction.

For the fleet, SIM 1 shares its country with three SIMs behind another gateway, one
more than the limit of two (three in the code) lets it be paired with, so that the
order of the loop and the limit both decide. SIM 2 goes offline and comes back, which
archives a pair, frees a place and takes it again, and holds a machine label from an
older installation. SIM 3 may be gone at the first sync, so that later ones name it
while SIM 2, gone in its turn, still holds a persona; SIM 2 may also be busy and behind
the gateway of SIM 1, where its pair is kept and no new one made. Cooldown, interval, retry delay and retention are one tick, so
that each is passed within the clock's bound; the quiet window of the runs
covers the first instant, and `WakesWhenTheyEnd` is about all windows, around midnight or
not, for what is queued at each instant. Batches of two out of two candidates,
two attempts and two rows per pair let a retry and a second message happen.
`MCSimFleet` enables one automation at a time or none. With one, only the job syncs and
only SIM 2 goes and comes back; while calls are made the inventory stands still and a
run is shorter than a tick. With none, the job and a request sync at one time and all of
the above happens to SIMs 2 and 3. An edit waits until something has yet to read the
inventory (`Unread`), which leaves out no order that matters. The theorems of section 5 keep none of these
restrictions.

Nothing keeps the job and `POST /sync` apart, and two syncs that overlap may make the
same pair twice, or take a SIM over its limit. `PairsWellFormed` excepts the pairs that
such a sync makes (`late`) and nothing else: those pairs count in every later sync, so
no more are added. `SyncIdempotent` and `NamesNeverClash` are about a sync that no other
overtakes (`fresh`), whatever overlapped before it. `CallCadence` is about the calls
TmLite was made to place, recorded or not; a run cut short between a call and its commit
leaves nothing that the next run could know of, which is the exception it names.

For the stress tests every property is about one test, which meets another only in the
server's restart; two requests are a stop and a delete that cross. For the scheduler two
requests on one owner are what a lost update needs; prompts and agents share no row,
no job and no request (`OneKind`), and while an execution is there only deletions
and status changes arrive (`Calm`): an edit does not touch what an execution reads.

The theorems of section 5 state every safety property in the table for every instance,
`CooldownKept` and `BurstAnsweredOnce` under two hypotheses: one process, and formats of
one person's number that `same_number` relates.

Each property of a passing run has a mutant: a definition with a plausible bug
(a dropped guard, an index counted from one, an approval not marked consumed, a
heartbeat without hard stop, a loop left before its last snapshot, ...) that stands
before the original in its module, and makes TLC find the property violated.

### Disagreements between the documentation and the code

- `doc_second_resume`: a delayed `decide()` requeues a task for an approval that
  was already resumed and consumed; the design document calls that a no-op.
- `doc_batch`: bookkeeping that fails costs the rest of the batch, since the
  rollback expires the Config row from which the next text is rendered. This is a
  bug of the code rather than of its comment; `approval_replies.py` avoids it.
- `doc_converges`: a page whose connection was lost goes on showing the status it had
  received over it, after polling has told it that the task is over; a comment of the
  hook says that such a page converges.

Seen in the models and without a run of their own.

*Tasks and approvals.* A task cancelled at the moment it is claimed goes on calling
tools, since only the row is cancelled and not the flag set. A stopping worker fails a
task that another worker is running, because `_running` still lists a run that parked.
The reaper requeues a decided task whose agent is no longer active (the design document
has it failed). A running task has a pending approval between `request` and `park` (a
comment in `finish` excludes it). The recovery job may fail a task that has meanwhile
left `waiting_approval`.

*Event stream.* The keep-alive of the stream does not read again, so a lost LISTEN
connection leaves the page live and out of date. The deletion of an agent notifies
nobody. Steps that a swept run records late are not shown.

*SMS.* With a window as long as the cooldown, a contact held back in the time a run
takes to read is still in the window when the cooldown ends and is answered then
(the comment at `routers/config.py:188-192` says that this bound suffices). An SMS
without a usable date is in every window. A reading of the fleet that ends early, at a
page that is no list or after the tenth, passes the three stops with the SIMs it has
(`sms_auto_reply_service.py:247-260`), and the traffic of the others is answered. Two long formats
of a number, with a leading zero and with a country code, are not one person to
`same_number`.

*Fleet.* Texts and calls are placed before their commit, so a lost run sends a text
again and its attempt is not counted, and calls a pair again within the interval. Syncs
that overlap make a pair twice, or die on the names. With an awake time of at most the
ninety minutes by which `shift_out_of_quiet` spreads, what it shifts may be in quiet
hours again. A sync's cancellation of a row may be overwritten
by the "sent" of a run. The alternation of callers is never used, because a pair that is
due has no recent call. One request for records per caller starts at its newest open
row, so an older open row never finds its record and ends as failed; a row older than a
day stays started. Reconciliation happens only when some pair is due. Quiet hours are
checked at the start of a run and not before each text. The comment at
`sim_pair_conversation_service.py:262` holds only if the pair below its target is due.

*Stress tests.* A launch whose answer is lost, a delete during a launch and a stop that
raises before a delete leave calls that no row owns. A backend restart restores no
poller. A launch whose failure cannot be stored (`stress_test_service.py:59-61`) leaves
its row pending, or running without a poller. A restarted SIPp server answers `not_found`, which the row then says, with a
last snapshot of zero. A stop overwrites `completed`, and the poller `stopped`. A stop
that had to kill the generator is read back as `failed`.

*Jobs and executions.* Two requests on an agent that commit in one order and reach the
scheduler in the other, or one that is cut short in between, leave the job of an older
row until the next request or start-up. A prompt created disabled, or without expression, and then
switched on has no job until a restart. An expression changed while disabled is resumed
in its old form; one set to null leaves its job. The expression of a prompt is not
validated: a refused one ends the restore of the others at start-up. Overlapping
generations take the same version. An execution may say `running` for ever (a crash, an
environment that cannot be built, a pipe held open). A script whose last line is JSON
and no object fails with exit code 0. Two status requests that overlap may leave an
archived agent paused (`agent_service.py:18` excludes it).

## 4. Fairness

`SmsAutoReply`, `SimFleet` and `CronJobs` state safety only.

`SweepSpec`, used by `full`, assumes only that heartbeats age, that the hard stop comes
and that a worker sweeps (every minute, `SWEEP_SECONDS`). The sweep's second half is
strongly fair: the process may die in it, but not in every pass for ever. `LiveSpec`
adds the approval job (every minute, `set_approval_jobs`; the scheduler restores it at
each start, and compose restarts the containers), runners that take their next step
(model and tool calls have timeouts, `LLM_CALL_TIMEOUT_SECONDS` and
`MCP_TOOL_TIMEOUT_SECONDS`), and a worker that claims. The backend crashes finitely
often, since a job killed in each of its passes recovers nothing. Nothing is assumed of
the operator: no decision is fair, so tasks end by expiry as well.

`EventStream!FairSpec`: the event loops of server and browser go on (`SrvNext`,
`FetchNext`, `Receive`), and so do the hook's effect and the poll timer. Nothing is
assumed of the task, of the user or of the faults, which are bounded.

`StressTest!FairSpec`: SIPp ends by its number of calls (`-m`), `_monitor` and the
poller's sleep are timers of their event loops, and of the calls to the server and to
the database not all fail: those steps are strongly fair, because a failure sends the
poller back to sleep and disables them in between. No restart and no request is fair.


## 5. Proofs

Assumed everywhere: the named assumptions of the modules on their constants (agents
of tasks, gated sets are sets of tools, `Concurrency`, `MaxSteps`, the day and the
intervals positive, a finite set of SIMs, values such as `None` that stand for
nothing), and nothing on how many tasks, SIMs, requests or processes there are.
Every theorem is `Spec => []P` for the specification that the runs use or restrict.

`AgentTasksProofs` proves `TypeCorrect` by one lemma per group of actions;
`LifecycleImplemented` by showing that every action either leaves `status` alone
or is one step of `TaskLifecycle` for one task, the guards `status[t] \in
OpenStatuses` of `Finish` and `status[t] = "waiting_approval"` of `ResumeTask`
doing the work; `OneOpenTask` from the re-check of the index in `EnqueueInsert`.

`AgentTasksReplay` proves the rest from one invariant, `ReplayInv`. None of the
properties is inductive alone: that an approved call runs once depends on the
approval being consumed before any other run can start, which depends on a task
in a claimable status having no runner (`NoRunnerBeforeClaim`), which holds
because only the runner itself parks a task and a swept task is final. The
strengthening says, per task,

- a task that is absent, queued or waiting has no runner;
- at most one approval is outstanding (pending, or decided and not consumed);
- while the task can still reach `_resume` (`ResumeReady`), that approval names the
  first call of the last turn without a result, and has not been used;
- `RunnerInv`: where the runner is determines what it holds: past the gate nothing
  is outstanding; under an approval that approval is decided and unconsumed, and
  the position in the turn, the results recorded and the calls answered agree;

and per approval that it ran at most once and only if approved. A runner killed
between the tool call and `mark_consumed` leaves the decision unconsumed, but
its task is running and can only end: that is the case the invariant is for.

`EventStreamProofs` builds its invariant in layers, each proved from those before it.
`Typed` adds to the types that the stream is never ahead of the journal. `Known`
says that what the page fetched as final is final, with the steps that were due by
then: from it follows `NoStepMissing`, although the request reads the task and the
steps at different times. `Linked` relates the generator, the wire and the page: a
generator that ended has its close still on the wire (`PageNeverStranded`). `Awake`
says that a stream with something left to tell has not gone to sleep without a
notification (`StreamUpToDate`); it is what the re-read after `LISTEN` is for.
`Contiguous` says that each step on the wire, and each up to the one the stream is at,
has all earlier ones on the page or before it on the wire (`NoGap`). `StreamKeepsPromise` maps each step to one of
`TaskFeed` or to a stutter.

`SmsAutoReplyProofs`: `NeverAnsweredTwice`
follows from `OnceInv`: a run past its claim owns a row in status `sending` that no
other run owns, and has sent at most one text for it. `AnsweredOnce` alone would
not survive `Send`, whose guard is on the run and not on the row.
`NeverAnswersFleet` follows from `FleetInv`: a run that has listed the fleet holds
the number of every SIM but the `unread` ones, so every trigger it computes that is a
SIM's is one of those, whatever is edited afterwards. `CooldownIsKept` needs two hypotheses, stated in the theorem: one
process, and formats of one person that `same_number` relates. Its invariant,
`CooldownInv`, says that rows of one person
are a cooldown apart, texts or not, and that the contacts left in a loop are of
different people, none of whom has a row within the cooldown; that the kept
triggers are of different people is `KeptApart`, from the order of the batch.
`BurstCostsOneReply` has the same hypotheses. Its invariant, `BurstInv`, is about
dated contacts and rows of one person: a row made later answers a contact received no
earlier than a cooldown after the other was made, less the window and the time of
reading (`RowsFresh`), and so were all contacts that a run still loops over
(`TodoFresh`). The step that matters is `ReadRecent`: a row the run does not see there is
more than a cooldown old, and the run began at most `MaxReading` ago.

`SimFleetProofs` proves seven theorems from `FleetInv`, the conjunction of

- `PairingInv`: rows are typed and well formed, ids are those given out so far, and
  what a sync between its reads and its commit holds is still of existing pairs;
- `TalkInv`: each item that a run has still to send is `Fit`: its sender is the one
  whose turn it is, its two SIMs have rested a cooldown, and it shares no SIM with
  another item; a pending row of an active pair belongs to a pair the run read;
- `CallInv`: each pair that the loop of calls has still to reach has rested an
  interval, a call that was placed and whose commit was reached has a row that is no
  older (`CallRows`), and a record once there is kept.

`Alternates` and `PairCooldownKept` are not inductive: the check that makes them true
is made for a whole batch, several commits earlier than the rows it is about, and a
sync or a purge may come between. What a run relies on while a sync commits is stated
once, as `Grown`: pairs are archived, added or purged with their rows, never changed,
and no row becomes pending again. The
theorems hold for any number of syncs that overlap. `RankOnto` gives the order in
which a loop meets a finite set, `WakeAtEnd` is the arithmetic of the quiet window
for every length of the day, and `WakesAtTheEnd` adds the spread: a shifted time that is
quiet again is past all the awake hours (`AwakeLength`). `CompletedCallsWereMade` says something of a called SIM
that is always listed with its number: a record is matched by number otherwise.

`SimSyncProofs` extends it by what a sync concludes, for any number of callers at a time.
`SyncInv` says that the active pairs are `Sound` (no two of the same SIMs and no SIM above
the limit, but for pairs in `late`), that the last sync, if none had overtaken it, left
nothing to do (`Rests`), and that what a `fresh` sync decided still follows from the pairs
and names there are when it commits (`Follows`). The commit of a sync that is not fresh
keeps the invariant because its pairs join `late` and `synced` is forgotten. The purge touches archived pairs only and a run of messages only counters,
so both keep it. The limit holds after a commit because the couple a SIM was given last
was made when all its others were counted (`LoadLast`). `SyncsAreIdempotent` follows from
`Rests` since loads only grow along the loop: a couple that was blocked before it is
blocked in it. `NamesDoNotClash` follows from the choice of the first free name; what has
to be shown is that there is one (`FreeName`), by counting. `LoopIsDeterministic` shows
that `IsCreated`, an equation in which the set it defines occurs, has at most one
solution, by the earliest couple in which two would differ; `ChoiceIsDeterministic` shows
the same of `IsChosen`.

`StressTestProofs`: `Course` says where launch, poller and request of a test can be
together and what each has learnt from the server, which never un-happens; `Answers`
says who answers for a running generator (a row, a launch or a stop; `Kept`), that a
pending row is being launched and a running one has a poller, unless its watch was lost, and that a count read after completion is the last
(`Counted`). That a completed row is true is not inductive without the second half of
`Course`: the poller writes what it was told two calls earlier.

`CronJobsProofs`: `CronInv` says that the job of an agent is right unless some
request still `Owes` it a call, or the agent is marked in `gap`. A request owes one
from its commit on, and an agent whose request was overtaken is marked: so the
invariant says where the two stores may differ, at every point of every request.
`AskedInv` adds what holds also then: every job, and every row a request has read, is one
that was asked for, so that a stale request can bring back an old job but no other.
`RunInv` says which processes an execution can have at each of its stages.

`PromptInv` is the same for prompts, which differ in that a toggle pauses a job and does
not remove it, so that expression and switch of a job are kept by different requests:
a prompt that is `Kept` (no request `OwesJob`, no gap) has a job with its expression, and
the job runs as the row says once no request `OwesState`. `Versions` says that a version
a generation has computed is above those stored (`Above`); a second generation that reads
in between marks the prompt in `gap`.

Proved and in no run: the type invariants, `OneOpenTaskPerAgent` and `ReplayInv`.

Only model-checked: liveness (`RunningEnds` in both modules, `EveryTaskEnds`,
`NoPendingForever`, `BaseConverges`), which is beyond the prover, and the counterexamples.
That the loops of the code always yield sets that satisfy `IsKept`, `IsCreated` and
`IsChosen` is read from them, not proved: it is an induction over data.

## 6. Not modelled, and the plan

Not modelled although it belongs to a component that is:

- The notification of an approval, sent after the park by a runner that still holds its
  slot, and the poll of the replies. What can go wrong there is the matching of codes
  in message texts and the page of twenty messages, neither of which the rest of the
  model tells apart; `decide` itself, which the poll calls, is modelled.
- The cascade of `delete_agent` over tasks and their journal, against an enqueue and
  a run. `CronJobs` models the deletion as far as the scheduler is concerned.
- The resolution of a tool policy: `AgentTasks` takes any set of gated tools, fixed for
  a run, which is what a policy amounts to there.

Not modelled: chat (one request that streams its own answer, with no second actor),
document activity (sequential I/O and text processing), MCP and model clients (request
shaping, seen as calls that return, fail or never return), configuration and CRUD
routers (single-row writes), metrics parsing (floating-point arithmetic, better unit
tested), and the pages of the frontend other than the task stream.

What would come next, in this order: that `IsKept` has one solution, as `IsCreated`
and `IsChosen` have; the deletion of an agent with its cascade, as an extension of
`AgentTasks`; the notifier and the replies, as another.
