------------------------------ MODULE CronJobs ------------------------------
(***************************************************************************)
(* The cron jobs of prompts and agents (services/scheduler_service.py, whose *)
(* store survives restarts), kept in step with the rows by the requests of   *)
(* routers/prompts.py, routers/agents.py and services/agent_service.py, and   *)
(* by the start-up of main.py.  Every request commits its change, reads the    *)
(* row again, and acts on the scheduler from what it has read.               *)
(***************************************************************************)
EXTENDS Integers, Sequences, FiniteSets

CONSTANTS
  Prompts, Agents,   \* rows of prompt and agent
  Requests,          \* HTTP requests in progress at once
  Crons,             \* valid cron expressions
  BadCrons,          \* cron expressions that a prompt may hold and APScheduler refuses,
                     \* the blank one among them
  MaxScripts         \* bound: scripts of a prompt

NoCron == "none"
Blank  == ""
Owners == Prompts \cup Agents

ASSUME CronAssumption ==
  /\ Prompts \cap Agents = {}
  /\ NoCron \notin Crons \cup BadCrons /\ Crons \cap BadCrons = {} /\ Blank \notin Crons
  /\ MaxScripts \in Nat

VARIABLES
  row,           \* status of an agent, enabled of a prompt ("on" or "off"), and the cron
  job,           \* the job store
  work,          \* requests in progress
  scripts,       \* versions of the scripts of a prompt, in order of their commits
  gap,           \* history: what is no longer promised of a job or of the versions
  asked          \* history: the jobs that the committed rows of an agent have asked for

cronVars == <<row, job, work, scripts, gap, asked>>

Expressions == Crons \cup BadCrons \cup {NoCron}
Statuses    == {"draft", "active", "paused", "archived"}

\* ALLOWED_TRANSITIONS
Allowed == [draft    |-> {"active", "archived"},
            active   |-> {"paused", "archived"},
            paused   |-> {"active", "archived"},
            archived |-> {"draft"}]

NoRow == [life |-> "none", cron |-> NoCron]
NoJob == [state |-> "none", cron |-> NoCron]
Idle  == [pc |-> "idle", op |-> "none", owner |-> CHOOSE o \in Owners : TRUE,
          arg |-> NoCron, edit |-> "same", seen |-> NoRow, version |-> 0]

Exists(o)    == row[o].life \notin {"none", "deleted"}
Scheduled(x) == x.life \in {"active", "on"} /\ x.cron \notin {NoCron, Blank}
JobOf(x)     == IF Scheduled(x) THEN [state |-> "active", cron |-> x.cron] ELSE NoJob

\* add_job, and reschedule_job with its fallback: an expression that does not
\* parse raises before anything is stored.
AddJob(o, cron) ==
  IF cron \in BadCrons THEN job ELSE [job EXCEPT ![o] = [state |-> "active", cron |-> cron]]

\* A request acts on what it has read: the job is as good as that.
Mark(r, o) == IF work[r].seen = row[o] THEN gap \ {<<o, "job">>} ELSE gap \cup {<<o, "job">>}

Done(r) == work' = [work EXCEPT ![r] = Idle]

-----------------------------------------------------------------------------
(* Requests on prompts. *)

\* create_prompt up to the commit of the row; the script takes its time.
PromptCreate(r, p) ==
  /\ work[r].pc = "idle" /\ row[p].life = "none"
  /\ \E life \in {"on", "off"}, cron \in Expressions :
       LET new == [life |-> life, cron |-> cron]
       IN /\ row' = [row EXCEPT ![p] = new]
          /\ work' = [work EXCEPT ![r] = [Idle EXCEPT !.pc = "generating", !.op = "create",
                                                     !.owner = p, !.seen = new]]
  /\ UNCHANGED <<job, scripts, gap>>

\* Another generation under way may number its script without this one.
Unnumbered(r, p) ==
  \E q \in Requests \ {r} : work[q].owner = p /\ work[q].pc \in {"generating", "numbering"}

Save(r, p, version) ==
  /\ Len(scripts[p]) < MaxScripts                                \* the bound
  /\ scripts' = [scripts EXCEPT ![p] = Append(@, version)]
  /\ gap' = IF Unnumbered(r, p) THEN gap \cup {<<p, "script">>} ELSE gap

\* The first version, unless the generation fails.
PromptGenerate(r) ==
  LET p == work[r].owner IN
  /\ work[r].pc = "generating"
  /\ \/ Exists(p) /\ Save(r, p, 1)
     \/ UNCHANGED <<scripts, gap>>
  /\ work' = [work EXCEPT ![r].pc = "adding"]
  /\ UNCHANGED <<row, job>>

\* A job only for a prompt that was created to be scheduled: one that is switched
\* on later has none to resume.
PromptAdd(r) ==
  LET me == work[r] IN
  /\ me.pc = "adding"
  /\ IF Scheduled(me.seen)
     THEN job' = AddJob(me.owner, me.seen.cron) /\ gap' = Mark(r, me.owner)
     ELSE gap' = gap \cup {<<me.owner, "job">>} /\ UNCHANGED job
  /\ Done(r)
  /\ UNCHANGED <<row, scripts>>

\* regenerate_script, once the code is there: the highest version, then the commit.
Highest(p) == IF scripts[p] = <<>> THEN 0
              ELSE CHOOSE v \in {scripts[p][i] : i \in DOMAIN scripts[p]} :
                     \A i \in DOMAIN scripts[p] : scripts[p][i] <= v

\* Bug: the version of the newest script is used again.
RegenerateAgain(r, p) ==
  /\ work[r].pc = "idle" /\ Exists(p)
  /\ work' = [work EXCEPT ![r] = [Idle EXCEPT !.pc = "numbering", !.op = "regenerate",
                                             !.owner = p, !.version = Highest(p)]]
  /\ UNCHANGED <<row, job, scripts, gap>>

RegenerateRead(r, p) ==
  /\ work[r].pc = "idle" /\ Exists(p)
  /\ work' = [work EXCEPT ![r] = [Idle EXCEPT !.pc = "numbering", !.op = "regenerate",
                                             !.owner = p, !.version = Highest(p) + 1]]
  /\ UNCHANGED <<row, job, scripts, gap>>

RegenerateCommit(r) ==
  LET p == work[r].owner IN
  /\ work[r].pc = "numbering"
  /\ \/ Exists(p) /\ Save(r, p, work[r].version)
     \/ ~Exists(p) /\ UNCHANGED <<scripts, gap>>
  /\ Done(r)
  /\ UNCHANGED <<row, job>>

\* delete_prompt: the job first, the row after.
PromptDelete(r, p) ==
  /\ work[r].pc = "idle" /\ Exists(p)
  /\ job' = [job EXCEPT ![p] = NoJob]
  /\ work' = [work EXCEPT ![r] = [Idle EXCEPT !.pc = "deleting", !.op = "delete", !.owner = p]]
  /\ UNCHANGED <<row, scripts, gap>>

-----------------------------------------------------------------------------
(* Requests that change a row and then its job. *)

Start(r, o, op, arg, edit) ==
  work' = [work EXCEPT ![r] = [Idle EXCEPT !.pc = "loaded", !.op = op, !.owner = o,
                                          !.arg = arg, !.edit = edit]]

\* What the expression of an edit is to the one that was loaded.
Edit(o, cron) == IF cron = row[o].cron THEN "same" ELSE IF cron = NoCron THEN "cleared" ELSE "new"

\* The row is loaded, and the request accepted for what it says.
Load(r, o) ==
  /\ work[r].pc = "idle" /\ Exists(o)
  /\ \/ /\ o \in Prompts
        /\ \/ Start(r, o, "toggle", IF row[o].life = "on" THEN "off" ELSE "on", "same")
           \/ \E cron \in Expressions : Start(r, o, "edit", cron, Edit(o, cron))
     \/ /\ o \in Agents
        /\ \/ \E target \in Allowed[row[o].life] : Start(r, o, "status", target, "same")
           \/ row[o].life # "archived"
                /\ \E cron \in Expressions \ BadCrons : Start(r, o, "edit", cron, Edit(o, cron))
           \/ row[o].life \in {"draft", "archived"} /\ Start(r, o, "delete", NoCron, "same")
  /\ UNCHANGED <<row, job, scripts, gap>>

\* The commit writes what differs from the row as it was loaded.
Written(me) ==
  CASE me.op \in {"toggle", "status"} -> [row[me.owner] EXCEPT !.life = me.arg]
    [] me.op = "delete"               -> [NoRow EXCEPT !.life = "deleted"]
    [] me.op = "edit"                 -> IF me.edit = "same" THEN row[me.owner]
                                         ELSE [row[me.owner] EXCEPT !.cron = me.arg]

Commit(r) ==
  LET o == work[r].owner IN
  /\ work[r].pc \in {"loaded", "deleting"}
  /\ IF Exists(o)
     THEN /\ row' = [row EXCEPT ![o] = Written(work[r])]
          /\ IF work[r].pc = "deleting" THEN Done(r)
             ELSE work' = [work EXCEPT ![r].pc = "committed", ![r].arg = NoCron]
     ELSE Done(r) /\ UNCHANGED row
  /\ scripts' = IF work[r].pc = "deleting" THEN [scripts EXCEPT ![o] = <<>>] ELSE scripts
  /\ UNCHANGED <<job, gap>>

\* session.refresh; a deleted agent has nothing to refresh.
Refresh(r) ==
  LET o == work[r].owner IN
  /\ work[r].pc = "committed"
  /\ IF Exists(o) \/ work[r].op = "delete"
     THEN work' = [work EXCEPT ![r].pc = "refreshed", ![r].seen = row[o]]
     ELSE Done(r)
  /\ UNCHANGED <<row, job, scripts, gap>>

\* Bug: the job of an agent that is no longer scheduled stays.
SyncAgentAdds(r) ==
  LET me == work[r] IN
  /\ me.pc = "refreshed" /\ me.owner \in Agents
  /\ job' = IF Scheduled(me.seen) THEN AddJob(me.owner, me.seen.cron) ELSE job
  /\ gap' = Mark(r, me.owner)
  /\ Done(r)
  /\ UNCHANGED <<row, scripts>>

\* sync_cron_job, and remove_agent_job after a delete.
SyncAgent(r) ==
  LET me == work[r] IN
  /\ me.pc = "refreshed" /\ me.owner \in Agents
  /\ job' = IF Scheduled(me.seen) THEN AddJob(me.owner, me.seen.cron)
                                  ELSE [job EXCEPT ![me.owner] = NoJob]
  /\ gap' = Mark(r, me.owner)
  /\ Done(r)
  /\ UNCHANGED <<row, scripts>>

\* Bug: a prompt that is switched on again is not resumed.
SyncToggleOff(r) ==
  LET me == work[r] IN
  /\ me.pc = "refreshed" /\ me.op = "toggle"
  /\ job' = IF me.seen.cron \in {NoCron, Blank} \/ job[me.owner].state = "none" \/ me.seen.life = "on" THEN job
            ELSE [job EXCEPT ![me.owner].state = "paused"]
  /\ gap' = IF me.seen = row[me.owner] THEN gap ELSE gap \cup {<<me.owner, "job">>}
  /\ Done(r)
  /\ UNCHANGED <<row, scripts>>

\* The end of toggle_prompt: a job that is there is resumed or paused.
SyncToggle(r) ==
  LET me == work[r] IN
  /\ me.pc = "refreshed" /\ me.op = "toggle"
  /\ job' = IF me.seen.cron \in {NoCron, Blank} \/ job[me.owner].state = "none" THEN job
            ELSE [job EXCEPT ![me.owner].state = IF me.seen.life = "on" THEN "active" ELSE "paused"]
  /\ gap' = IF me.seen = row[me.owner] THEN gap ELSE gap \cup {<<me.owner, "job">>}
  /\ Done(r)
  /\ UNCHANGED <<row, scripts>>

\* The end of update_prompt: the job follows a new expression of an enabled prompt,
\* and goes with a blank one; an expression set to null is no new one.
SyncEdit(r) ==
  LET me == work[r] IN
  /\ me.pc = "refreshed" /\ me.op = "edit" /\ me.owner \in Prompts
  /\ IF me.edit = "same" THEN UNCHANGED <<job, gap>>
     ELSE IF me.edit = "new" /\ Scheduled(me.seen)
     THEN job' = AddJob(me.owner, me.seen.cron) /\ gap' = Mark(r, me.owner)
     ELSE /\ job' = IF me.edit = "new" /\ me.seen.cron \in {NoCron, Blank}
                    THEN [job EXCEPT ![me.owner] = NoJob] ELSE job
          /\ gap' = gap \cup {<<me.owner, "job">>}
  /\ Done(r)
  /\ UNCHANGED <<row, scripts>>

-----------------------------------------------------------------------------

\* create_agent
AgentCreate(a) ==
  /\ row[a].life = "none"
  /\ \E cron \in Expressions \ BadCrons : row' = [row EXCEPT ![a] = [life |-> "draft", cron |-> cron]]
  /\ UNCHANGED <<job, work, scripts, gap>>

\* Half of the request is done, the row or the job.
Halfway == {r \in Requests : work[r].pc \notin {"idle", "loaded", "numbering"}}

\* An exception, whatever had been committed: the database, for one.
RequestFail(r) ==
  /\ work[r].pc # "idle"
  /\ gap' = IF r \in Halfway THEN gap \cup {<<work[r].owner, "job">>} ELSE gap
  /\ Done(r)
  /\ UNCHANGED <<row, job, scripts>>

\* The prompts whose jobs lifespan() restores: all, or those before the first
\* whose expression is refused.
Restorable == {p \in Prompts : row[p].life = "on" /\ row[p].cron # NoCron}
Restored   == {p \in Restorable : row[p].cron \notin BadCrons}
IsRestored(s) == IF Restorable = Restored THEN s = Restored ELSE s \subseteq Restored

\* The process is lost and started again.  The jobs are still in their store.
Restart ==
  \E s \in SUBSET Prompts :
    LET back == s \cup {a \in Agents : Scheduled(row[a])}
        cut  == {work[r].owner : r \in Halfway}
    IN /\ IsRestored(s)
       /\ job' = [o \in Owners |-> IF o \in back THEN [state |-> "active", cron |-> row[o].cron]
                                                 ELSE job[o]]
       /\ gap' = (gap \cup {<<o, "job">> : o \in cut}) \ {<<o, "job">> : o \in back}
       /\ work' = [r \in Requests |-> Idle]
       /\ UNCHANGED <<row, scripts, asked>>

CronInit ==
  /\ row = [o \in Owners |-> NoRow]
  /\ job = [o \in Owners |-> NoJob]
  /\ work = [r \in Requests |-> Idle]
  /\ scripts = [p \in Prompts |-> <<>>]
  /\ gap = {}
  /\ asked = {<<a, NoJob>> : a \in Agents}

RequestNext(r) ==
  \/ \E p \in Prompts : PromptCreate(r, p) \/ RegenerateRead(r, p) \/ PromptDelete(r, p)
  \/ PromptGenerate(r) \/ PromptAdd(r) \/ RegenerateCommit(r)
  \/ \E o \in Owners : Load(r, o)
  \/ Commit(r) \/ Refresh(r) \/ SyncAgent(r) \/ SyncToggle(r) \/ SyncEdit(r)
  \/ RequestFail(r)

CronNext ==
  /\ \/ \E r \in Requests : RequestNext(r)
     \/ \E a \in Agents : AgentCreate(a)
  /\ asked' = asked \cup {<<a, JobOf(row'[a])>> : a \in Agents}

-----------------------------------------------------------------------------
(* Properties. *)

Quiet(o) == \A r \in Requests : work[r].pc # "idle" => work[r].owner # o

\* However requests on an agent cross, fail or are cut short, its job is one that a
\* committed row of the agent asked for, now or before.  When none is left, it is the
\* one of the row as it is, but for two cases that last until a request acts on the
\* last row or the next start-up schedules the agent: the last request to reach the
\* scheduler had read the row before another's commit, or one was cut short between
\* its commit and the scheduler.
AgentJobMatches ==
  \A a \in Agents :
    /\ <<a, job[a]>> \in asked
    /\ Quiet(a) /\ <<a, "job">> \notin gap => job[a] = JobOf(row[a])

\* The job of a prompt that was created to be scheduled and edited while enabled has
\* the expression of the row and runs while the prompt is on; it may be switched off
\* and on between.  Excused are the two cases above, a prompt created unscheduled, an
\* edit while it is off and an expression set to null, until a request or a start-up
\* gives it a job again.
PromptJobMatches ==
  \A p \in Prompts : Quiet(p) /\ Exists(p) /\ <<p, "job">> \notin gap
                       /\ row[p].cron \in Crons =>
    IF row[p].life = "on" THEN job[p] = [state |-> "active", cron |-> row[p].cron]
                          ELSE job[p].state # "active"

\* The newest script has the highest version, which is the one that ticks run,
\* unless two generations of the prompt overlapped.
VersionsGrow ==
  \A p \in Prompts : <<p, "script">> \notin gap =>
    \A i, j \in DOMAIN scripts[p] : i < j => scripts[p][i] < scripts[p][j]

=============================================================================
