--------------------------- MODULE CronJobsProofs ---------------------------
(***************************************************************************)
(* Theorems of CronJobs and ScriptRuns, for every set of prompts, agents,    *)
(* requests, cron expressions and executions.                               *)
(***************************************************************************)
EXTENDS ScriptRuns, TLAPS

-----------------------------------------------------------------------------
(* The shape of the state. *)

Lives  == Statuses \cup {"none", "on", "off", "deleted"}
Rows   == [life : Lives, cron : Expressions]
Fields == {"pc", "op", "owner", "arg", "edit", "seen", "version"}

Shape ==
  /\ row \in [Owners -> Rows]
  /\ DOMAIN job = Owners /\ DOMAIN work = Requests
  /\ \A r \in Requests :
       /\ DOMAIN work[r] = Fields
       /\ work[r].pc # "idle" => work[r].owner \in Owners
       /\ work[r].pc = "loaded" =>
            /\ work[r].op \in {"toggle", "status"} => work[r].arg \in Lives \ {"none"}
            /\ work[r].op = "edit" => work[r].arg \in Expressions
            /\ work[r].op \in {"toggle", "status", "edit", "delete"}
       /\ work[r].pc = "deleting" => work[r].op = "delete"

(* The requests on an agent. *)

On(r, a) == work[r].pc # "idle" /\ work[r].owner = a

AgentWork ==
  /\ \A a \in Agents : row[a].cron \notin BadCrons /\ row[a].life \in Statuses \cup {"none", "deleted"}
  /\ \A r \in Requests, a \in Agents : On(r, a) =>
       /\ work[r].pc \in {"loaded", "committed", "refreshed"}
       /\ work[r].op \in {"status", "edit", "delete"}
       /\ row[a].life # "none"
       /\ work[r].pc = "loaded" /\ work[r].op = "edit" => work[r].arg \notin BadCrons
       /\ work[r].pc = "loaded" /\ work[r].op = "status" => work[r].arg \in Statuses
       /\ work[r].pc = "refreshed" => work[r].seen.cron \notin BadCrons

\* A request that has yet to act on the job of an agent, or to be marked for not
\* doing so.  Of one whose agent is deleted under it only the deletion remains.
Owes(r, a) ==
  /\ On(r, a)
  /\ \/ work[r].pc = "refreshed"
     \/ work[r].pc = "committed" /\ (Exists(a) \/ work[r].op = "delete")

Right(a) == job[a] = IF Scheduled(row[a]) THEN [state |-> "active", cron |-> row[a].cron] ELSE NoJob

AgentJobs ==
  \A a \in Agents : (\A r \in Requests : ~Owes(r, a)) /\ <<a, "job">> \notin gap => Right(a)

CronInv == Shape /\ AgentWork /\ AgentJobs

LEMMA InitCron == CronInit => CronInv
BY CronAssumption DEF CronInit, CronInv, Shape, AgentWork, AgentJobs, On, Owes, Right, Idle, NoRow, NoJob,
   Rows, Lives, Expressions, Fields, Scheduled, Owners

-----------------------------------------------------------------------------
(* A step on a prompt leaves the agents alone. *)

\* What the invariant reads of the agents.
SameAgents ==
  /\ \A a \in Agents : row'[a] = row[a] /\ job'[a] = job[a]
  /\ \A a \in Agents : <<a, "job">> \in gap' <=> <<a, "job">> \in gap
  /\ \A r \in Requests : work'[r] = work[r] \/ \A a \in Agents : ~On(r, a) /\ ~On(r, a)'

LEMMA AgentsKept ==
  ASSUME CronInv, SameAgents
  PROVE  AgentWork' /\ AgentJobs'
<1>1. AgentWork'
  BY DEF CronInv, AgentWork, SameAgents, On
<1>2. \A r \in Requests, a \in Agents : Owes(r, a)' <=> Owes(r, a)
  BY DEF SameAgents, Owes, On, Exists
<1>3. \A a \in Agents : Right(a)' <=> Right(a)
  BY DEF SameAgents, Right, Scheduled
<1>4. AgentJobs'
  BY <1>2, <1>3 DEF CronInv, AgentJobs, SameAgents
<1>5. QED
  BY <1>1, <1>4

LEMMA Apart == /\ \A p \in Prompts : p \in Owners /\ p \notin Agents
               /\ \A a \in Agents : a \in Owners /\ a \notin Prompts
               /\ "none" \in Lives /\ NoCron \in Expressions
               /\ NoRow \in Rows /\ [NoRow EXCEPT !.life = "deleted"] \in Rows
BY CronAssumption DEF Owners, Lives, Rows, NoRow, Expressions, Statuses

LEMMA IdleShape == /\ DOMAIN Idle = Fields /\ Idle.pc = "idle"
                   /\ \A pc, op, p, s, v : 
                        LET new == [Idle EXCEPT !.pc = pc, !.op = op, !.owner = p, !.seen = s, !.version = v]
                        IN  DOMAIN new = Fields /\ new.pc = pc /\ new.op = op /\ new.owner = p
BY DEF Idle, Fields

\* A request of a prompt ends, at a job of that prompt.
LEMMA PromptStep ==
  ASSUME CronInv, NEW r \in Requests, NEW p \in Prompts,
         \A o \in Owners \ {p} : row'[o] = row[o] /\ job'[o] = job[o],
         row' \in [Owners -> Rows], DOMAIN job' = Owners, DOMAIN work' = Requests,
         \A q \in Requests \ {r} : work'[q] = work[q],
         DOMAIN work'[r] = Fields, work'[r].pc # "idle" => work'[r].owner = p,
         work'[r].pc # "loaded", work'[r].pc = "deleting" => work'[r].op = "delete",
         work[r].pc # "idle" => work[r].owner = p,
         \A a \in Agents : <<a, "job">> \in gap' <=> <<a, "job">> \in gap
  PROVE  CronInv'
<1>1. Shape'
  BY Apart DEF CronInv, Shape
<1>2. \A a \in Agents : ~On(r, a) /\ ~On(r, a)'
  BY Apart DEF On
<1>3. SameAgents
  BY <1>2, Apart DEF SameAgents
<1>4. QED
  BY <1>1, <1>3, AgentsKept DEF CronInv

LEMMA PromptRequest ==
  ASSUME CronInv, NEW r \in Requests,
         work[r].pc \in {"generating", "adding", "numbering", "deleting"}
           \/ (work[r].pc # "idle" /\ work[r].op = "toggle")
  PROVE  work[r].owner \in Prompts
BY DEF CronInv, Shape, AgentWork, On, Owners

LEMMA CreateStep ==
  ASSUME CronInv, NEW r \in Requests, NEW p \in Prompts, PromptCreate(r, p)
  PROVE  CronInv'
<1>1. PICK life \in {"on", "off"}, cron \in Expressions :
        LET new == [life |-> life, cron |-> cron]
        IN  /\ row' = [row EXCEPT ![p] = new]
            /\ work' = [work EXCEPT ![r] = [Idle EXCEPT !.pc = "generating", !.op = "create",
                                                       !.owner = p, !.seen = new]]
  BY DEF PromptCreate
<1>2. work[r].pc = "idle" /\ UNCHANGED <<job, gap>>
  BY DEF PromptCreate
<1>3. [life |-> life, cron |-> cron] \in Rows
  BY DEF Rows, Lives
<1>4. row' \in [Owners -> Rows] /\ \A o \in Owners \ {p} : row'[o] = row[o]
  BY <1>1, <1>3 DEF CronInv, Shape
<1>5. /\ DOMAIN work' = Requests /\ \A q \in Requests \ {r} : work'[q] = work[q]
      /\ DOMAIN work'[r] = Fields /\ work'[r].pc = "generating" /\ work'[r].owner = p
  BY <1>1, IdleShape DEF CronInv, Shape, Idle, Fields
<1>6. QED
  BY <1>2, <1>4, <1>5, PromptStep DEF CronInv, Shape

LEMMA GenerateStep ==
  ASSUME CronInv, NEW r \in Requests, PromptGenerate(r)
  PROVE  CronInv'
<1> DEFINE p == work[r].owner
<1>1. p \in Prompts
  BY PromptRequest DEF PromptGenerate
<1>2. UNCHANGED <<row, job>> /\ work' = [work EXCEPT ![r].pc = "adding"]
  BY DEF PromptGenerate
<1>3. \A a \in Agents : <<a, "job">> \in gap' <=> <<a, "job">> \in gap
  BY DEF PromptGenerate, Save
<1>4. /\ DOMAIN work' = Requests /\ \A q \in Requests \ {r} : work'[q] = work[q]
      /\ DOMAIN work'[r] = Fields /\ work'[r].pc = "adding" /\ work'[r].owner = p
  BY <1>2 DEF CronInv, Shape, Fields
<1>5. QED
  BY <1>1, <1>2, <1>3, <1>4, PromptStep DEF CronInv, Shape

LEMMA DoneStep ==
  ASSUME CronInv, NEW r \in Requests, Done(r)
  PROVE  /\ DOMAIN work' = Requests /\ \A q \in Requests \ {r} : work'[q] = work[q]
         /\ DOMAIN work'[r] = Fields /\ work'[r].pc = "idle"
BY IdleShape DEF Done, CronInv, Shape

\* The job of a prompt changes, and the request ends.
LEMMA PromptDone ==
  ASSUME CronInv, NEW r \in Requests, work[r].pc # "idle", work[r].owner \in Prompts,
         Done(r), row' = row, DOMAIN job' = Owners,
         \A o \in Owners \ {work[r].owner} : job'[o] = job[o],
         \A a \in Agents : <<a, "job">> \in gap' <=> <<a, "job">> \in gap
  PROVE  CronInv'
<1>1. /\ DOMAIN work' = Requests /\ \A q \in Requests \ {r} : work'[q] = work[q]
      /\ DOMAIN work'[r] = Fields /\ work'[r].pc = "idle"
  BY DoneStep
<1>2. QED
  BY <1>1, PromptStep DEF CronInv, Shape

LEMMA MarkOthers ==
  ASSUME NEW r \in Requests, NEW o
  PROVE  /\ \A q : q # o => (<<q, "job">> \in Mark(r, o) <=> <<q, "job">> \in gap)
         /\ work[r].seen # row[o] => <<o, "job">> \in Mark(r, o)
BY DEF Mark

LEMMA AddStep ==
  ASSUME CronInv, NEW r \in Requests, PromptAdd(r)
  PROVE  CronInv'
<1> DEFINE p == work[r].owner
<1>1. p \in Prompts /\ p \in Owners /\ p \notin Agents
  BY PromptRequest, Apart DEF PromptAdd
<1>2. work[r].pc = "adding" /\ Done(r) /\ row' = row
  BY DEF PromptAdd
<1>3. CASE Scheduled(work[r].seen)
  <2>1. job' = AddJob(p, work[r].seen.cron) /\ gap' = Mark(r, p)
    BY <1>3 DEF PromptAdd
  <2>2. Shape
    BY DEF CronInv
  <2>3. DOMAIN job' = Owners /\ \A o \in Owners \ {p} : job'[o] = job[o]
    <3>1. /\ DOMAIN AddJob(p, work[r].seen.cron) = Owners
          /\ \A o \in Owners \ {p} : AddJob(p, work[r].seen.cron)[o] = job[o]
      BY <1>1, <2>2 DEF AddJob, Shape
    <3>2. QED
      BY <2>1, <3>1
  <2>4. \A a \in Agents : <<a, "job">> \in gap' <=> <<a, "job">> \in gap
    BY <1>1, <2>1, MarkOthers
  <2>5. QED
    BY <1>1, <1>2, <2>3, <2>4, PromptDone
<1>4. CASE ~Scheduled(work[r].seen)
  <2>1. job' = job /\ gap' = gap \cup {<<p, "job">>}
    BY <1>4 DEF PromptAdd
  <2>2. \A a \in Agents : <<a, "job">> \in gap' <=> <<a, "job">> \in gap
    BY <1>1, <2>1
  <2>3. QED
    BY <1>1, <1>2, <2>1, <2>2, PromptDone DEF CronInv, Shape
<1>5. QED
  BY <1>3, <1>4

LEMMA NumberStep ==
  ASSUME CronInv, NEW r \in Requests, NEW p \in Prompts, RegenerateRead(r, p)
  PROVE  CronInv'
<1>1. /\ DOMAIN work' = Requests /\ \A q \in Requests \ {r} : work'[q] = work[q]
      /\ DOMAIN work'[r] = Fields /\ work'[r].pc = "numbering" /\ work'[r].owner = p
  BY DEF RegenerateRead, CronInv, Shape, Idle, Fields
<1>2. work[r].pc = "idle" /\ UNCHANGED <<row, job, gap>>
  BY DEF RegenerateRead
<1>3. QED
  BY <1>1, <1>2, PromptStep DEF CronInv, Shape

LEMMA VersionStep ==
  ASSUME CronInv, NEW r \in Requests, RegenerateCommit(r)
  PROVE  CronInv'
<1>1. work[r].owner \in Prompts
  BY PromptRequest DEF RegenerateCommit
<1>2. work[r].pc = "numbering" /\ Done(r) /\ UNCHANGED <<row, job>>
  BY DEF RegenerateCommit
<1>3. \A a \in Agents : <<a, "job">> \in gap' <=> <<a, "job">> \in gap
  BY DEF RegenerateCommit, Save
<1>4. QED
  BY <1>1, <1>2, <1>3, PromptDone DEF CronInv, Shape

LEMMA DeletePromptStep ==
  ASSUME CronInv, NEW r \in Requests, NEW p \in Prompts, PromptDelete(r, p)
  PROVE  CronInv'
<1>1. /\ DOMAIN work' = Requests /\ \A q \in Requests \ {r} : work'[q] = work[q]
      /\ DOMAIN work'[r] = Fields /\ work'[r].pc = "deleting" /\ work'[r].op = "delete"
      /\ work'[r].owner = p
  BY DEF PromptDelete, CronInv, Shape, Idle, Fields
<1>2. work[r].pc = "idle" /\ UNCHANGED <<row, gap>> /\ job' = [job EXCEPT ![p] = NoJob]
  BY DEF PromptDelete
<1>3. DOMAIN job' = Owners /\ \A o \in Owners \ {p} : job'[o] = job[o]
  BY <1>2 DEF CronInv, Shape
<1>4. QED
  BY <1>1, <1>2, <1>3, PromptStep DEF CronInv, Shape

LEMMA ToggleStep ==
  ASSUME CronInv, NEW r \in Requests, SyncToggle(r)
  PROVE  CronInv'
<1> DEFINE p == work[r].owner
<1>1. p \in Prompts /\ p \in Owners /\ p \notin Agents
  BY PromptRequest, Apart DEF SyncToggle
<1>2. work[r].pc # "idle" /\ Done(r) /\ row' = row
  BY DEF SyncToggle
<1>3. DOMAIN job' = Owners /\ \A o \in Owners \ {p} : job'[o] = job[o]
  BY <1>1 DEF SyncToggle, CronInv, Shape
<1>4. \A a \in Agents : <<a, "job">> \in gap' <=> <<a, "job">> \in gap
  BY <1>1 DEF SyncToggle
<1>5. QED
  BY <1>1, <1>2, <1>3, <1>4, PromptDone

LEMMA EditStep ==
  ASSUME CronInv, NEW r \in Requests, SyncEdit(r)
  PROVE  CronInv'
<1> DEFINE p == work[r].owner
<1>1. p \in Prompts /\ p \in Owners /\ p \notin Agents
  BY Apart DEF SyncEdit
<1>2. work[r].pc # "idle" /\ Done(r) /\ row' = row
  BY DEF SyncEdit
<1>3. CASE UNCHANGED <<job, gap>>
  BY <1>1, <1>2, <1>3, PromptDone DEF CronInv, Shape
<1>4. CASE job' = AddJob(p, work[r].seen.cron) /\ gap' = Mark(r, p)
  <2>1. /\ DOMAIN AddJob(p, work[r].seen.cron) = Owners
        /\ \A o \in Owners \ {p} : AddJob(p, work[r].seen.cron)[o] = job[o]
    BY <1>1 DEF AddJob, CronInv, Shape
  <2>2. \A a \in Agents : <<a, "job">> \in gap' <=> <<a, "job">> \in gap
    BY <1>1, <1>4, MarkOthers
  <2>3. QED
    BY <1>1, <1>2, <1>4, <2>1, <2>2, PromptDone
<1>5. CASE job' \in {job, [job EXCEPT ![p] = NoJob]} /\ gap' = gap \cup {<<p, "job">>}
  <2>1. \A a \in Agents : <<a, "job">> \in gap' <=> <<a, "job">> \in gap
    BY <1>1, <1>5
  <2>2. DOMAIN job' = Owners /\ \A o \in Owners \ {p} : job'[o] = job[o]
    BY <1>5 DEF CronInv, Shape
  <2>3. QED
    BY <1>1, <1>2, <2>1, <2>2, PromptDone
<1>6. QED
  BY <1>3, <1>4, <1>5 DEF SyncEdit

-----------------------------------------------------------------------------
(* Steps on a prompt or on an agent. *)

\* A request is accepted: it owes nothing yet.
LEMMA LoadStep ==
  ASSUME CronInv, NEW r \in Requests, NEW o \in Owners, Load(r, o)
  PROVE  CronInv'
<1>1. PICK op \in {"toggle", "edit", "status", "delete"}, arg \in Lives \cup Expressions,
             edit \in {"same", "new", "cleared"} :
        /\ Start(r, o, op, arg, edit)
        /\ op \in {"toggle", "status"} => arg \in Lives \ {"none"}
        /\ op = "edit" => arg \in Expressions
        /\ o \in Agents => /\ op # "toggle" /\ (op = "edit" => arg \notin BadCrons)
                           /\ op = "status" => arg \in Statuses
  <2>1. CASE o \in Prompts
    BY <2>1, Apart DEF Load, Lives, Edit
  <2>2. CASE o \in Agents
    <3>1. Allowed[row[o].life] \subseteq Statuses /\ Statuses \subseteq Lives \ {"none"}
      BY <2>2 DEF CronInv, AgentWork, Load, Exists, Statuses, Allowed, Lives
    <3>2. QED
      BY <2>2, <3>1, Apart DEF Load, Lives, Edit
  <2>3. QED
    BY <2>1, <2>2 DEF Owners
<1>2. work[r].pc = "idle" /\ Exists(o) /\ UNCHANGED <<row, job, gap>>
  BY DEF Load
<1>3. /\ DOMAIN work' = Requests /\ \A q \in Requests \ {r} : work'[q] = work[q]
      /\ DOMAIN work'[r] = Fields /\ work'[r].pc = "loaded" /\ work'[r].op = op
      /\ work'[r].owner = o /\ work'[r].arg = arg
  BY <1>1 DEF Start, CronInv, Shape, Idle, Fields
<1>4. Shape'
  BY <1>1, <1>2, <1>3 DEF CronInv, Shape
<1>5. AgentWork'
  BY <1>1, <1>2, <1>3 DEF CronInv, AgentWork, On, Exists
<1>6. \A q \in Requests, a \in Agents : Owes(q, a)' <=> Owes(q, a)
  BY <1>2, <1>3 DEF Owes, On, Exists
<1>7. AgentJobs'
  BY <1>2, <1>6 DEF CronInv, AgentJobs, Right, Scheduled
<1>8. QED
  BY <1>4, <1>5, <1>7 DEF CronInv

\* What a commit writes: a row, of an agent that goes on or is deleted.
LEMMA WrittenRow ==
  ASSUME CronInv, NEW r \in Requests, Commit(r), Exists(work[r].owner)
  PROVE  /\ Written(work[r]) \in Rows /\ Written(work[r]).life # "none"
         /\ work[r].owner \in Agents =>
              /\ Written(work[r]).cron \notin BadCrons
              /\ Written(work[r]).life \in Statuses \cup {"deleted"}
              /\ Written(work[r]).life = "deleted" => work[r].op = "delete"
<1> DEFINE o == work[r].owner
<1>1. o \in Owners /\ row[o] \in Rows /\ work[r].pc \in {"loaded", "deleting"}
  BY DEF Commit, CronInv, Shape
<1>2. CASE work[r].op \in {"toggle", "status"}
  <2>1. Written(work[r]) = [row[o] EXCEPT !.life = work[r].arg]
    BY <1>2 DEF Written
  <2>2. work[r].arg \in Lives \ {"none"} /\ (o \in Agents => work[r].arg \in Statuses)
    BY <1>1, <1>2 DEF CronInv, Shape, AgentWork, On
  <2>3. Written(work[r]).life = work[r].arg /\ Written(work[r]).cron = row[o].cron
    BY <1>1, <2>1 DEF Rows
  <2>4. QED
    BY <1>1, <2>1, <2>2, <2>3 DEF Rows, CronInv, AgentWork, Statuses
<1>3. CASE work[r].op = "delete"
  <2>1. Written(work[r]) = [NoRow EXCEPT !.life = "deleted"]
    BY <1>3 DEF Written
  <2>2. QED
    BY <1>3, <2>1, Apart, CronAssumption DEF NoRow
<1>4. CASE work[r].op = "edit" /\ work[r].edit = "same"
  <2>1. Written(work[r]) = row[o]
    BY <1>4 DEF Written
  <2>2. QED
    BY <1>1, <2>1 DEF Exists, CronInv, AgentWork
<1>5. CASE work[r].op = "edit" /\ work[r].edit # "same"
  <2>1. Written(work[r]) = [row[o] EXCEPT !.cron = work[r].arg]
    BY <1>5 DEF Written
  <2>2. work[r].pc = "loaded"
    BY <1>1, <1>5 DEF CronInv, Shape
  <2>3. work[r].arg \in Expressions /\ (o \in Agents => work[r].arg \notin BadCrons)
    BY <1>1, <1>5, <2>2 DEF CronInv, Shape, AgentWork, On
  <2>4. Written(work[r]).life = row[o].life /\ Written(work[r]).cron = work[r].arg
    BY <1>1, <2>1 DEF Rows
  <2>5. QED
    BY <1>1, <2>1, <2>3, <2>4 DEF Rows, Exists, CronInv, AgentWork
<1>6. QED
  BY <1>1, <1>2, <1>3, <1>4, <1>5 DEF CronInv, Shape

LEMMA CommitStep ==
  ASSUME CronInv, NEW r \in Requests, Commit(r)
  PROVE  CronInv'
<1>0. PICK o \in Owners : o = work[r].owner
  BY DEF Commit, CronInv, Shape
<1>1. o = work[r].owner /\ o \in Owners /\ work[r].pc \in {"loaded", "deleting"} /\ UNCHANGED <<job, gap>>
  BY <1>0 DEF Commit, CronInv, Shape
<1>2. CASE ~Exists(o)
  <2>1. Done(r) /\ UNCHANGED row
    BY <1>1, <1>2 DEF Commit
  <2>2. /\ DOMAIN work' = Requests /\ \A q \in Requests \ {r} : work'[q] = work[q]
        /\ DOMAIN work'[r] = Fields /\ work'[r].pc = "idle"
    BY <2>1, DoneStep
  <2>3. Shape' /\ AgentWork'
    BY <1>1, <2>1, <2>2 DEF CronInv, Shape, AgentWork, On
  <2>4. \A q \in Requests, a \in Agents : Owes(q, a)' <=> Owes(q, a)
    BY <1>1, <2>1, <2>2 DEF Owes, On, Exists
  <2>5. AgentJobs'
    BY <1>1, <2>1, <2>4 DEF CronInv, AgentJobs, Right, Scheduled
  <2>6. QED
    BY <2>3, <2>5 DEF CronInv
<1>3. CASE Exists(o)
  <2>1. row' = [row EXCEPT ![o] = Written(work[r])]
    BY <1>1, <1>3 DEF Commit
  <2>2. row' \in [Owners -> Rows] /\ \A q \in Owners \ {o} : row'[q] = row[q]
    BY <1>1, <1>3, <2>1, WrittenRow DEF CronInv, Shape
  <2>3. /\ DOMAIN work' = Requests /\ \A q \in Requests \ {r} : work'[q] = work[q]
        /\ DOMAIN work'[r] = Fields
        /\ \/ work[r].pc = "deleting" /\ work'[r].pc = "idle"
           \/ /\ work[r].pc = "loaded" /\ work'[r].pc = "committed"
              /\ work'[r].owner = o /\ work'[r].op = work[r].op
    <3>1. CASE work[r].pc = "deleting"
      BY <1>1, <1>3, <3>1, DoneStep DEF Commit
    <3>2. CASE work[r].pc = "loaded"
      BY <1>1, <1>3, <3>2 DEF Commit, CronInv, Shape, Fields
    <3>3. QED
      BY <1>1, <3>1, <3>2
  <2>4. CASE o \in Prompts
    BY <1>1, <2>2, <2>3, <2>4, PromptStep DEF CronInv, Shape
  <2>5. CASE o \in Agents
    <3>1. work[r].pc = "loaded"
      BY <1>1, <2>5 DEF CronInv, AgentWork, On
    <3>2. /\ row'[o].cron \notin BadCrons /\ row'[o].life \in Statuses \cup {"deleted"}
          /\ row'[o].life = "deleted" => work[r].op = "delete"
      BY <1>1, <1>3, <2>1, <2>5, WrittenRow DEF CronInv, Shape
    <3>3. Shape'
      BY <1>1, <2>2, <2>3, <3>1 DEF CronInv, Shape
    <3>4. AgentWork'
      BY <1>1, <2>2, <2>3, <2>5, <3>1, <3>2, Apart DEF CronInv, AgentWork, On, Statuses
    <3>5. Owes(r, o)'
      BY <1>1, <2>3, <2>5, <3>1, <3>2 DEF Owes, On, Exists, Statuses
    <3>6. \A q \in Requests, a \in Agents \ {o} : Owes(q, a)' <=> Owes(q, a)
      BY <1>1, <2>2, <2>3, <3>1, Apart DEF Owes, On, Exists
    <3>7. AgentJobs'
      <4>1. \A a \in Agents \ {o} : Right(a)' <=> Right(a)
        BY <1>1, <2>2, Apart DEF Right, Scheduled
      <4>2. SUFFICES ASSUME NEW a \in Agents, \A q \in Requests : ~Owes(q, a)', <<a, "job">> \notin gap'
                     PROVE  Right(a)'
        BY DEF AgentJobs
      <4>3. a # o
        BY <3>5, <4>2
      <4>4. QED
        <5>1. \A q \in Requests : ~Owes(q, a)
          BY <3>6, <4>2, <4>3
        <5>2. Right(a)
          BY <1>1, <4>2, <5>1 DEF CronInv, AgentJobs
        <5>3. QED
          BY <4>1, <4>3, <5>2
    <3>8. QED
      BY <3>3, <3>4, <3>7 DEF CronInv
  <2>6. QED
    BY <1>1, <2>4, <2>5 DEF Owners
<1>4. QED
  BY <1>2, <1>3

LEMMA RefreshStep ==
  ASSUME CronInv, NEW r \in Requests, Refresh(r)
  PROVE  CronInv'
<1> DEFINE o == work[r].owner
<1>1. o \in Owners /\ work[r].pc = "committed" /\ UNCHANGED <<row, job, gap>>
  BY DEF Refresh, CronInv, Shape
<1>2. /\ DOMAIN work' = Requests /\ \A q \in Requests \ {r} : work'[q] = work[q]
      /\ DOMAIN work'[r] = Fields
      /\ \/ /\ Exists(o) \/ work[r].op = "delete"
            /\ work'[r].pc = "refreshed" /\ work'[r].owner = o
            /\ work'[r].op = work[r].op /\ work'[r].seen = row[o]
         \/ ~(Exists(o) \/ work[r].op = "delete") /\ work'[r].pc = "idle"
  <2>1. CASE Exists(o) \/ work[r].op = "delete"
    BY <2>1 DEF Refresh, CronInv, Shape, Fields
  <2>2. CASE ~(Exists(o) \/ work[r].op = "delete")
    BY <2>2, DoneStep DEF Refresh
  <2>3. QED
    BY <2>1, <2>2
<1>3. Shape'
  BY <1>1, <1>2 DEF CronInv, Shape
<1>4. AgentWork'
  BY <1>1, <1>2 DEF CronInv, AgentWork, On
<1>5. \A q \in Requests, a \in Agents : Owes(q, a)' <=> Owes(q, a)
  BY <1>1, <1>2 DEF Owes, On, Exists
<1>6. AgentJobs'
  BY <1>1, <1>5 DEF CronInv, AgentJobs, Right, Scheduled
<1>7. QED
  BY <1>3, <1>4, <1>6 DEF CronInv

LEMMA SyncStep ==
  ASSUME CronInv, NEW r \in Requests, SyncAgent(r)
  PROVE  CronInv'
<1>0. PICK o \in Agents : o = work[r].owner
  BY DEF SyncAgent
<1> DEFINE x == work[r].seen
<1>1. /\ o = work[r].owner /\ o \in Owners /\ work[r].pc = "refreshed"
      /\ gap' = Mark(r, o) /\ Done(r) /\ row' = row
  BY <1>0, Apart DEF SyncAgent
<1>2. x.cron \notin BadCrons
  BY <1>1 DEF CronInv, AgentWork, On
<1>3. /\ DOMAIN job' = Owners /\ \A q \in Owners \ {o} : job'[q] = job[q]
      /\ job'[o] = IF Scheduled(x) THEN [state |-> "active", cron |-> x.cron] ELSE NoJob
  BY <1>1, <1>2 DEF SyncAgent, AddJob, CronInv, Shape
<1>4. /\ DOMAIN work' = Requests /\ \A q \in Requests \ {r} : work'[q] = work[q]
      /\ DOMAIN work'[r] = Fields /\ work'[r].pc = "idle"
  BY <1>1, DoneStep
<1>5. Shape' /\ AgentWork'
  BY <1>1, <1>3, <1>4 DEF CronInv, Shape, AgentWork, On
<1>6. \A q \in Requests, a \in Agents \ {o} : Owes(q, a)' <=> Owes(q, a)
  BY <1>1, <1>4 DEF Owes, On, Exists
<1>7. /\ \A a \in Agents \ {o} : Right(a)' <=> Right(a)
      /\ \A a \in Agents \ {o} : <<a, "job">> \in gap' <=> <<a, "job">> \in gap
  <2>1. \A a \in Agents \ {o} : Right(a)' <=> Right(a)
    BY <1>1, <1>3, Apart DEF Right, Scheduled
  <2>2. \A a \in Agents \ {o} : <<a, "job">> \in gap' <=> <<a, "job">> \in gap
    BY <1>1 DEF Mark
  <2>3. QED
    BY <2>1, <2>2
<1>8. <<o, "job">> \in gap' \/ Right(o)'
  <2>1. CASE x = row[o]
    BY <1>1, <1>3, <2>1 DEF Right
  <2>2. CASE x # row[o]
    BY <1>1, <2>2, MarkOthers
  <2>3. QED
    BY <2>1, <2>2
<1>9. AgentJobs'
  <2>1. SUFFICES ASSUME NEW a \in Agents, \A q \in Requests : ~Owes(q, a)', <<a, "job">> \notin gap'
                 PROVE  Right(a)'
    BY DEF AgentJobs
  <2>2. CASE a = o
    BY <1>8, <2>1, <2>2
  <2>3. CASE a # o
    <3>1. \A q \in Requests : ~Owes(q, a)
      BY <1>6, <2>1, <2>3
    <3>2. Right(a)
      BY <1>7, <2>1, <2>3, <3>1 DEF CronInv, AgentJobs
    <3>3. QED
      BY <1>7, <2>3, <3>2
  <2>4. QED
    BY <2>2, <2>3
<1>10. QED
  BY <1>5, <1>9 DEF CronInv

LEMMA FailStep ==
  ASSUME CronInv, NEW r \in Requests, RequestFail(r)
  PROVE  CronInv'
<1> DEFINE o == work[r].owner
<1>1. work[r].pc # "idle" /\ Done(r) /\ UNCHANGED <<row, job>>
      /\ gap' = IF r \in Halfway THEN gap \cup {<<o, "job">>} ELSE gap
  BY DEF RequestFail
<1>2. /\ DOMAIN work' = Requests /\ \A q \in Requests \ {r} : work'[q] = work[q]
      /\ DOMAIN work'[r] = Fields /\ work'[r].pc = "idle"
  BY <1>1, DoneStep
<1>3. Shape' /\ AgentWork'
  BY <1>1, <1>2 DEF CronInv, Shape, AgentWork, On
<1>4. \A a \in Agents : Right(a)' <=> Right(a)
  BY <1>1 DEF Right, Scheduled
<1>5. \A a \in Agents : (<<a, "job">> \in gap => <<a, "job">> \in gap')
  BY <1>1
<1>6. \A a \in Agents : Owes(r, a) => <<a, "job">> \in gap'
  BY <1>1 DEF Owes, On, Halfway
<1>7. \A q \in Requests \ {r}, a \in Agents : Owes(q, a)' <=> Owes(q, a)
  BY <1>1, <1>2 DEF Owes, On, Exists
<1>8. AgentJobs'
  BY <1>4, <1>5, <1>6, <1>7 DEF CronInv, AgentJobs
<1>9. QED
  BY <1>3, <1>8 DEF CronInv

LEMMA AgentStep ==
  ASSUME CronInv, NEW a \in Agents, AgentCreate(a)
  PROVE  CronInv'
<1>1. PICK cron \in Expressions \ BadCrons : row' = [row EXCEPT ![a] = [life |-> "draft", cron |-> cron]]
  BY DEF AgentCreate
<1>2. a \in Owners /\ row[a].life = "none" /\ UNCHANGED <<job, work, gap>>
  BY Apart DEF AgentCreate
<1>3. /\ row' \in [Owners -> Rows] /\ \A o \in Owners \ {a} : row'[o] = row[o]
      /\ row'[a].life = "draft" /\ row'[a].cron \notin BadCrons
  BY <1>1, <1>2 DEF CronInv, Shape, Rows, Lives, Statuses
<1>4. Shape'
  BY <1>2, <1>3 DEF CronInv, Shape
<1>5. \A r \in Requests : ~On(r, a)
  BY <1>2 DEF CronInv, AgentWork
<1>6. AgentWork'
  BY <1>2, <1>3, <1>5, Apart DEF CronInv, AgentWork, On, Statuses
<1>7. \A r \in Requests, b \in Agents : Owes(r, b)' <=> Owes(r, b)
  BY <1>2, <1>3, <1>5, Apart DEF Owes, On, Exists
<1>8. \A b \in Agents : Right(b)' <=> Right(b)
  BY <1>2, <1>3, Apart DEF Right, Scheduled
<1>9. AgentJobs'
  BY <1>2, <1>7, <1>8 DEF CronInv, AgentJobs
<1>10. QED
  BY <1>4, <1>6, <1>9 DEF CronInv

LEMMA RestartStep ==
  ASSUME CronInv, Restart
  PROVE  CronInv'
<1>1. PICK s \in SUBSET Prompts :
        LET back == s \cup {a \in Agents : Scheduled(row[a])}
            cut  == {work[r].owner : r \in Halfway}
        IN  /\ job' = [o \in Owners |-> IF o \in back THEN [state |-> "active", cron |-> row[o].cron]
                                                      ELSE job[o]]
            /\ gap' = (gap \cup {<<o, "job">> : o \in cut}) \ {<<o, "job">> : o \in back}
            /\ work' = [r \in Requests |-> Idle]
            /\ UNCHANGED row
  BY DEF Restart
<1>2. Shape' /\ AgentWork'
  BY <1>1, IdleShape DEF CronInv, Shape, AgentWork, On
<1>3. \A a \in Agents : Scheduled(row[a]) => Right(a)'
  BY <1>1, Apart DEF Right
<1>4. \A a \in Agents : ~Scheduled(row[a]) =>
        /\ Right(a)' <=> Right(a)
        /\ <<a, "job">> \in gap => <<a, "job">> \in gap'
        /\ \A r \in Halfway : work[r].owner = a => <<a, "job">> \in gap'
  BY <1>1, Apart DEF Right
<1>5. \A r \in Requests, a \in Agents : Owes(r, a) => r \in Halfway /\ work[r].owner = a
  BY DEF Owes, On, Halfway
<1>6. AgentJobs'
  BY <1>3, <1>4, <1>5 DEF CronInv, AgentJobs
<1>7. QED
  BY <1>2, <1>6 DEF CronInv

-----------------------------------------------------------------------------
(* The requests on a prompt, its job and its versions.                      *)

PromptLives == {"none", "on", "off", "deleted"}

\* A prompt gets its row once; what a request on it may be at.
Works(p) ==
  /\ row[p].life \in PromptLives
  /\ job[p] = [state |-> job[p].state, cron |-> job[p].cron]
  /\ \A r \in Requests : On(r, p) =>
       /\ row[p].life # "none"
       /\ work[r].pc \in {"generating", "adding", "numbering", "deleting",
                          "loaded", "committed", "refreshed"}
       /\ work[r].pc \in {"loaded", "committed", "refreshed"} => work[r].op \in {"toggle", "edit"}
       /\ work[r].pc = "loaded" /\ work[r].op = "toggle" => work[r].arg \in {"on", "off"}

\* A request that has yet to give the prompt its job, to take it away, or to be
\* marked for not doing so; and one that has yet to pause or to resume the job.
OwesJob(r, p) ==
  /\ On(r, p)
  /\ \/ work[r].pc \in {"generating", "adding", "deleting"}
     \/ work[r].op = "edit" /\ work[r].edit # "same" /\ work[r].pc \in {"committed", "refreshed"}
OwesState(r, p) == On(r, p) /\ work[r].op = "toggle" /\ work[r].pc \in {"committed", "refreshed"}

Kept(p) == /\ Exists(p) /\ row[p].cron \in Crons /\ <<p, "job">> \notin gap
           /\ \A r \in Requests : ~OwesJob(r, p)

\* The job a prompt keeps has its expression, and its switch too once no toggle is
\* between its commit and its job.
Jobs(p) ==
  Kept(p) =>
    /\ job[p].state \in {"active", "paused"} /\ job[p].cron = row[p].cron
    /\ (\A r \in Requests : ~OwesState(r, p))
         => job[p].state = IF row[p].life = "on" THEN "active" ELSE "paused"

Grows(s) == s \in Seq(Nat) /\ \A i, j \in DOMAIN s : i < j => s[i] < s[j]
Above(v, s) == v \in Nat /\ \A i \in DOMAIN s : s[i] < v

\* The first script finds none, and a version being given is above those there are.
Versions(p) ==
  /\ row[p].life = "none" => scripts[p] = <<>>
  /\ <<p, "script">> \notin gap =>
       /\ Grows(scripts[p])
       /\ \A r \in Requests : On(r, p) =>
            /\ work[r].pc = "generating" => scripts[p] = <<>>
            /\ work[r].pc = "numbering" => Above(work[r].version, scripts[p])

Good(p) == Works(p) /\ Jobs(p) /\ Versions(p)

PromptInv == DOMAIN scripts = Prompts /\ \A p \in Prompts : Good(p)

LEMMA InitPrompts == CronInit => PromptInv
BY CronAssumption DEF CronInit, PromptInv, Good, Works, Jobs, Versions, Kept, Exists, On, OwesJob,
   OwesState, Idle, NoRow, NoJob, PromptLives, Grows, Owners

\* The steps that do not touch a prompt.
LEMMA GoodKept ==
  ASSUME NEW p \in Prompts, Good(p), row'[p] = row[p], job'[p] = job[p], scripts'[p] = scripts[p],
         <<p, "job">> \in gap' <=> <<p, "job">> \in gap,
         <<p, "script">> \in gap' <=> <<p, "script">> \in gap,
         \A r \in Requests : work'[r] = work[r] \/ (~On(r, p) /\ ~On(r, p)')
  PROVE  Good(p)'
<1>1. \A r \in Requests : On(r, p)' <=> On(r, p)
  BY DEF On
<1>2. \A r \in Requests : On(r, p) => work'[r] = work[r]
  OBVIOUS
<1>3. Works(p)'
  BY <1>1, <1>2 DEF Good, Works
<1>4. \A r \in Requests : (OwesJob(r, p)' <=> OwesJob(r, p)) /\ (OwesState(r, p)' <=> OwesState(r, p))
  BY <1>1, <1>2 DEF OwesJob, OwesState
<1>5. Jobs(p)'
  BY <1>4 DEF Good, Jobs, Kept, Exists
<1>6. Versions(p)'
  BY <1>1, <1>2 DEF Good, Versions
<1>7. QED
  BY <1>3, <1>5, <1>6 DEF Good

\* A request of an owner, at what is the owner's.
Private(r, o) ==
  /\ \A q \in Owners \ {o} : row'[q] = row[q] /\ job'[q] = job[q]
  /\ \A q \in Prompts \ {o} : /\ scripts'[q] = scripts[q]
                              /\ <<q, "job">> \in gap' <=> <<q, "job">> \in gap
                              /\ <<q, "script">> \in gap' <=> <<q, "script">> \in gap
  /\ \A q \in Requests \ {r} : work'[q] = work[q]
  /\ work[r].pc # "idle" => work[r].owner = o
  /\ work'[r].pc # "idle" => work'[r].owner = o
  /\ DOMAIN scripts' = DOMAIN scripts

LEMMA PromptAlone ==
  ASSUME PromptInv, NEW r \in Requests, NEW o \in Owners, Private(r, o),
         o \in Prompts => Good(o)'
  PROVE  PromptInv'
<1>1. ASSUME NEW p \in Prompts, p # o PROVE Good(p)'
  BY <1>1, GoodKept, Apart DEF PromptInv, Private, On
<1>2. QED
  BY <1>1 DEF PromptInv, Private

\* The highest version of growing ones is the last.
LEMMA HighestAbove ==
  ASSUME NEW p \in Prompts, Grows(scripts[p])
  PROVE  Above(Highest(p) + 1, scripts[p])
<1> DEFINE s == scripts[p]
<1>1. CASE s = <<>>
  BY <1>1 DEF Highest, Above
<1>2. CASE s # <<>>
  <2>1. s \in Seq(Nat) /\ DOMAIN s = 1 .. Len(s) /\ Len(s) \in Nat \ {0}
    BY <1>2 DEF Grows
  <2>2. ASSUME NEW i \in DOMAIN s PROVE s[i] <= s[Len(s)] /\ s[i] \in Nat
    <3>1. s[i] \in Nat /\ s[Len(s)] \in Nat /\ Len(s) \in DOMAIN s /\ i \in Nat /\ i <= Len(s)
      BY <2>1
    <3>2. CASE i = Len(s)
      BY <3>1, <3>2
    <3>3. CASE i < Len(s)
      <4>1. s[i] < s[Len(s)]
        BY <3>1, <3>3 DEF Grows
      <4>2. QED
        BY <3>1, <4>1
    <3>4. QED
      BY <2>1, <3>1, <3>2, <3>3
  <2>3. \E v \in {s[i] : i \in DOMAIN s} : \A i \in DOMAIN s : s[i] <= v
    <3>1. Len(s) \in DOMAIN s
      BY <2>1
    <3>2. s[Len(s)] \in {s[i] : i \in DOMAIN s}
      BY <3>1
    <3>3. QED
      BY <2>2, <3>2
  <2>4. Highest(p) \in {s[i] : i \in DOMAIN s} /\ \A i \in DOMAIN s : s[i] <= Highest(p)
    BY <1>2, <2>3 DEF Highest
  <2>5. Highest(p) \in Nat
    BY <2>2, <2>4
  <2>6. QED
    BY <2>2, <2>4, <2>5 DEF Above
<1>3. QED
  BY <1>1, <1>2

LEMMA GrowsAppend ==
  ASSUME NEW s, NEW v, Grows(s), Above(v, s)
  PROVE  Grows(Append(s, v))
<1>1. s \in Seq(Nat) /\ v \in Nat
  BY DEF Grows, Above
<1>2. /\ Append(s, v) \in Seq(Nat) /\ DOMAIN Append(s, v) = 1 .. Len(s) + 1
      /\ Append(s, v)[Len(s) + 1] = v /\ Len(s) \in Nat
      /\ \A i \in 1 .. Len(s) : i \in DOMAIN s /\ Append(s, v)[i] = s[i] /\ s[i] < v
  BY <1>1 DEF Above
<1>3. \A i, j \in DOMAIN s : i < j => s[i] < s[j]
  BY DEF Grows
<1>4. ASSUME NEW i \in 1 .. Len(s) + 1, NEW j \in 1 .. Len(s) + 1, i < j
      PROVE  Append(s, v)[i] < Append(s, v)[j]
  <2>1. i \in 1 .. Len(s)
    BY <1>2, <1>4
  <2>2. CASE j = Len(s) + 1
    BY <1>2, <2>1, <2>2
  <2>3. CASE j # Len(s) + 1
    <3>1. j \in 1 .. Len(s)
      BY <1>2, <2>3
    <3>2. QED
      BY <1>2, <1>3, <1>4, <2>1, <3>1
  <2>4. QED
    BY <2>2, <2>3
<1>5. QED
  BY <1>2, <1>4 DEF Grows

\* A step that leaves the versions alone, and starts no new one.
LEMMA VersionsKept ==
  ASSUME NEW p \in Prompts, Good(p), scripts'[p] = scripts[p],
         <<p, "script">> \in gap => <<p, "script">> \in gap',
         row'[p].life = "none" => row[p].life = "none",
         \A q \in Requests : On(q, p)' /\ work'[q].pc \in {"generating", "numbering"} =>
           On(q, p) /\ work'[q].pc = work[q].pc /\ work'[q].version = work[q].version
  PROVE  Versions(p)'
BY DEF Good, Versions

\* A step that leaves the job alone: who owed it something still does, or is marked.
LEMMA JobsKept ==
  ASSUME NEW p \in Prompts, Good(p), job'[p] = job[p], row'[p] = row[p],
         <<p, "job">> \in gap => <<p, "job">> \in gap',
         \A q \in Requests : OwesJob(q, p) \/ OwesState(q, p) =>
           \/ <<p, "job">> \in gap'
           \/ OwesJob(q, p)'
           \/ ~OwesJob(q, p) /\ OwesState(q, p)'
  PROVE  Jobs(p)'
<1>1. SUFFICES ASSUME Kept(p)' PROVE Jobs(p)'
  BY DEF Jobs
<1>2. \A q \in Requests : ~OwesJob(q, p) /\ (OwesState(q, p) => OwesState(q, p)')
  BY <1>1 DEF Kept
<1>3. Kept(p)
  BY <1>1, <1>2 DEF Kept, Exists
<1>4. QED
  BY <1>2, <1>3 DEF Good, Jobs

LEMMA CreatePrompt ==
  ASSUME CronInv, PromptInv, NEW r \in Requests, NEW p \in Prompts, PromptCreate(r, p)
  PROVE  PromptInv'
<1>1. PICK life \in {"on", "off"}, cron \in Expressions :
        LET new == [life |-> life, cron |-> cron]
        IN  /\ row' = [row EXCEPT ![p] = new]
            /\ work' = [work EXCEPT ![r] = [Idle EXCEPT !.pc = "generating", !.op = "create",
                                                       !.owner = p, !.seen = new]]
  BY DEF PromptCreate
<1>2. work[r].pc = "idle" /\ row[p].life = "none" /\ UNCHANGED <<job, gap, scripts>>
  BY DEF PromptCreate
<1>3. row'[p].life = life /\ \A o \in Owners \ {p} : row'[o] = row[o]
  BY <1>1, Apart DEF CronInv, Shape
<1>4. /\ \A q \in Requests \ {r} : work'[q] = work[q]
      /\ work'[r].pc = "generating" /\ work'[r].owner = p
  BY <1>1 DEF CronInv, Shape, Idle
<1>5. Private(r, p)
  BY <1>2, <1>3, <1>4 DEF Private
<1>6. \A q \in Requests : ~On(q, p)
  BY <1>2 DEF PromptInv, Good, Works
<1>7. Works(p)'
  BY <1>2, <1>3, <1>4, <1>6 DEF PromptInv, Good, Works, PromptLives, On
<1>8. Jobs(p)'
  BY <1>4 DEF Jobs, Kept, OwesJob, On
<1>9. Versions(p)'
  <2>1. scripts'[p] = <<>>
    BY <1>2 DEF PromptInv, Good, Versions
  <2>2. QED
    BY <2>1, <1>4, <1>6 DEF Versions, Grows, On
<1>10. QED
  BY <1>5, <1>7, <1>8, <1>9, PromptAlone, Apart DEF Good

LEMMA GeneratePrompt ==
  ASSUME CronInv, PromptInv, NEW r \in Requests, PromptGenerate(r)
  PROVE  PromptInv'
<1>0. PICK p \in Prompts : p = work[r].owner
  BY PromptRequest DEF PromptGenerate
<1>1. /\ work[r].pc = "generating" /\ work[r].owner = p /\ UNCHANGED <<row, job>>
      /\ work' = [work EXCEPT ![r].pc = "adding"]
      /\ Save(r, p, 1) \/ UNCHANGED <<scripts, gap>>
  BY <1>0 DEF PromptGenerate
<1>2. /\ \A q \in Requests \ {r} : work'[q] = work[q]
      /\ work'[r].pc = "adding" /\ work'[r].owner = p
  BY <1>1 DEF CronInv, Shape, Fields
<1>3. \A o \in Owners : <<o, "job">> \in gap' <=> <<o, "job">> \in gap
  BY <1>1 DEF Save
<1>4. Private(r, p)
  BY <1>1, <1>2, <1>3, Apart DEF Private, Save, PromptInv
<1>5. Good(p) /\ On(r, p)
  BY <1>1 DEF PromptInv, On
<1>6. Works(p)'
  BY <1>1, <1>2, <1>5 DEF Good, Works, On
<1>7. Jobs(p)'
  <2>1. OwesJob(r, p)'
    BY <1>2 DEF OwesJob, On
  <2>2. QED
    BY <2>1 DEF Jobs, Kept
<1>8. Versions(p)'
  <2>1. CASE UNCHANGED <<scripts, gap>>
    BY <1>1, <1>2, <1>5, <2>1, VersionsKept DEF On
  <2>2. CASE Save(r, p, 1)
    <3>1. scripts'[p] = Append(scripts[p], 1)
      BY <2>2 DEF Save, PromptInv
    <3>2. SUFFICES ASSUME <<p, "script">> \notin gap' PROVE Versions(p)'
      BY <1>1, <1>5 DEF Versions, Good, Works
    <3>3. ~Unnumbered(r, p) /\ <<p, "script">> \notin gap
      BY <2>2, <3>2 DEF Save
    <3>4. scripts[p] = <<>> /\ Grows(scripts[p])
      BY <1>1, <1>5, <3>3 DEF Good, Versions
    <3>5. Above(1, <<>>)
      BY DEF Above
    <3>6. Grows(scripts'[p])
      BY <3>1, <3>4, <3>5, GrowsAppend
    <3>7. \A q \in Requests : On(q, p)' => work'[q].pc \notin {"generating", "numbering"}
      BY <1>2, <3>3 DEF Unnumbered, On
    <3>8. QED
      BY <1>1, <1>5, <3>6, <3>7 DEF Versions, Good, Works
  <2>3. QED
    BY <1>1, <2>1, <2>2
<1>9. QED
  BY <1>4, <1>6, <1>7, <1>8, PromptAlone, Apart DEF Good

LEMMA NumberPrompt ==
  ASSUME CronInv, PromptInv, NEW r \in Requests, NEW p \in Prompts, RegenerateRead(r, p)
  PROVE  PromptInv'
<1>1. work[r].pc = "idle" /\ Exists(p) /\ UNCHANGED <<row, job, scripts, gap>>
  BY DEF RegenerateRead
<1>2. /\ \A q \in Requests \ {r} : work'[q] = work[q]
      /\ work'[r].pc = "numbering" /\ work'[r].owner = p /\ work'[r].version = Highest(p) + 1
      /\ work'[r].op = "regenerate"
  BY DEF RegenerateRead, CronInv, Shape, Idle
<1>3. Private(r, p)
  BY <1>1, <1>2 DEF Private
<1>4. Good(p)
  BY DEF PromptInv
<1>5. Works(p)'
  BY <1>1, <1>2, <1>4 DEF Good, Works, On, Exists
<1>6. Jobs(p)'
  <2>1. \A q \in Requests : (OwesJob(q, p) => OwesJob(q, p)') /\ (OwesState(q, p) => OwesState(q, p)')
    BY <1>1, <1>2 DEF OwesJob, OwesState, On
  <2>2. QED
    BY <1>1, <1>4, <2>1, JobsKept
<1>7. Versions(p)'
  <2>1. SUFFICES ASSUME <<p, "script">> \notin gap PROVE Versions(p)'
    BY <1>1, <1>4 DEF Versions, Good
  <2>2. Grows(scripts[p])
    BY <1>4, <2>1 DEF Good, Versions
  <2>3. Above(work'[r].version, scripts[p])
    BY <1>2, <2>2, HighestAbove
  <2>4. QED
    BY <1>1, <1>2, <1>4, <2>2, <2>3 DEF Versions, Good, On
<1>8. QED
  BY <1>3, <1>5, <1>6, <1>7, PromptAlone, Apart DEF Good

\* A request on a prompt that ends: what is left to show is the job and the versions.
LEMMA PromptEnds ==
  ASSUME CronInv, PromptInv, NEW r \in Requests, NEW p \in Prompts, On(r, p), Done(r),
         UNCHANGED row, DOMAIN scripts' = Prompts,
         \A o \in Owners \ {p} : job'[o] = job[o],
         \A q \in Prompts \ {p} : scripts'[q] = scripts[q],
         \A q \in Owners \ {p} : <<q, "job">> \in gap' <=> <<q, "job">> \in gap,
         \A q \in Owners \ {p} : <<q, "script">> \in gap' <=> <<q, "script">> \in gap,
         job'[p] = [state |-> job'[p].state, cron |-> job'[p].cron],
         Jobs(p)', Versions(p)'
  PROVE  PromptInv'
<1>1. /\ \A q \in Requests \ {r} : work'[q] = work[q]
      /\ work'[r].pc = "idle"
  BY DoneStep
<1>2. Private(r, p)
  BY <1>1, Apart DEF Private, On, PromptInv
<1>3. Works(p)'
  <2>1. \A q \in Requests : On(q, p)' => On(q, p) /\ work'[q] = work[q]
    BY <1>1 DEF On
  <2>2. Works(p) /\ row'[p] = row[p]
    BY DEF PromptInv, Good
  <2>3. QED
    BY <2>1, <2>2 DEF Works
<1>4. QED
  BY <1>2, <1>3, PromptAlone, Apart DEF Good

\* One that ends without a script.
LEMMA VersionsEnd ==
  ASSUME CronInv, PromptInv, NEW r \in Requests, NEW p \in Prompts, Done(r),
         UNCHANGED <<row, scripts>>, <<p, "script">> \in gap => <<p, "script">> \in gap'
  PROVE  Versions(p)'
<1>1. \A q \in Requests : On(q, p)' => On(q, p) /\ work'[q] = work[q]
  BY DoneStep DEF On
<1>2. QED
  BY <1>1, VersionsKept DEF PromptInv

\* Once such a request is over nobody else is concerned by what it owed.
LEMMA OthersOwe ==
  ASSUME CronInv, NEW r \in Requests, NEW p \in Prompts, Done(r)
  PROVE  \A q \in Requests : /\ OwesJob(q, p)' <=> (q # r /\ OwesJob(q, p))
                             /\ OwesState(q, p)' <=> (q # r /\ OwesState(q, p))
BY DoneStep DEF OwesJob, OwesState, On

\* The job is made from the row: it is the right one.
LEMMA JobMade ==
  ASSUME CronInv, NEW r \in Requests, NEW p \in Prompts, Scheduled(work[r].seen),
         job' = AddJob(p, work[r].seen.cron), gap' = Mark(r, p), UNCHANGED row, Good(p)
  PROVE  Jobs(p)' /\ job'[p] = [state |-> job'[p].state, cron |-> job'[p].cron]
<1>1. p \in Owners /\ DOMAIN job = Owners
  BY Apart DEF CronInv, Shape
<1>2. job'[p] = [state |-> job'[p].state, cron |-> job'[p].cron]
  BY <1>1 DEF AddJob, Good, Works
<1>3. SUFFICES ASSUME Kept(p)' PROVE Jobs(p)'
  BY <1>2 DEF Jobs
<1>4. work[r].seen = row[p]
  BY <1>3 DEF Kept, Mark
<1>5. row[p].cron \in Crons /\ row[p].life \in {"on", "active"} /\ row[p].life \in PromptLives
  BY <1>3, <1>4 DEF Kept, Scheduled, Good, Works
<1>6. job' = [job EXCEPT ![p] = [state |-> "active", cron |-> row[p].cron]]
  BY <1>4, <1>5, CronAssumption DEF AddJob
<1>7. QED
  BY <1>1, <1>5, <1>6 DEF Jobs, PromptLives

LEMMA AddPrompt ==
  ASSUME CronInv, PromptInv, NEW r \in Requests, PromptAdd(r)
  PROVE  PromptInv'
<1>0. PICK p \in Prompts : p = work[r].owner
  BY PromptRequest DEF PromptAdd
<1>1. On(r, p) /\ Done(r) /\ UNCHANGED <<row, scripts>> /\ Good(p) /\ p \in Owners /\ p \notin Agents
  BY <1>0, Apart DEF PromptAdd, On, PromptInv
<1>2. CASE Scheduled(work[r].seen)
  <2>1. job' = AddJob(p, work[r].seen.cron) /\ gap' = Mark(r, p)
    BY <1>0, <1>2 DEF PromptAdd
  <2>2. Jobs(p)' /\ job'[p] = [state |-> job'[p].state, cron |-> job'[p].cron]
    BY <1>1, <1>2, <2>1, JobMade
  <2>3. \A o \in Owners \ {p} : job'[o] = job[o]
    BY <2>1 DEF AddJob, CronInv, Shape
  <2>4. /\ \A q \in Owners \ {p} : <<q, "job">> \in gap' <=> <<q, "job">> \in gap
        /\ \A q \in Owners : <<q, "script">> \in gap' <=> <<q, "script">> \in gap
    BY <2>1 DEF Mark
  <2>5. Versions(p)'
    BY <1>1, <2>4, VersionsEnd
  <2>6. QED
    BY <1>1, <2>2, <2>3, <2>4, <2>5, PromptEnds DEF PromptInv
<1>3. CASE ~Scheduled(work[r].seen)
  <2>1. gap' = gap \cup {<<p, "job">>} /\ UNCHANGED job
    BY <1>0, <1>3 DEF PromptAdd
  <2>2. Jobs(p)'
    BY <2>1 DEF Jobs, Kept
  <2>3. Versions(p)'
    BY <1>1, <2>1, VersionsEnd
  <2>4. QED
    BY <1>1, <2>1, <2>2, <2>3, PromptEnds DEF PromptInv, Good, Works
<1>4. QED
  BY <1>2, <1>3

LEMMA VersionPrompt ==
  ASSUME CronInv, PromptInv, NEW r \in Requests, RegenerateCommit(r)
  PROVE  PromptInv'
<1>0. PICK p \in Prompts : p = work[r].owner
  BY PromptRequest DEF RegenerateCommit
<1>1. /\ On(r, p) /\ Done(r) /\ UNCHANGED <<row, job>> /\ Good(p) /\ work[r].pc = "numbering"
      /\ \/ Exists(p) /\ Save(r, p, work[r].version)
         \/ UNCHANGED <<scripts, gap>>
  BY <1>0 DEF RegenerateCommit, On, PromptInv
<1>2. \A q \in Requests : OwesJob(q, p) \/ OwesState(q, p) => q # r
  BY <1>0, <1>1 DEF OwesJob, OwesState, On, Good, Works
<1>3. \A o \in Owners : <<o, "job">> \in gap' <=> <<o, "job">> \in gap
  BY <1>1 DEF Save
<1>4. Jobs(p)'
  BY <1>1, <1>2, <1>3, OthersOwe, JobsKept, Apart
<1>5. Versions(p)'
  <2>1. CASE UNCHANGED <<scripts, gap>>
    BY <1>1, <2>1, VersionsEnd
  <2>2. CASE Exists(p) /\ Save(r, p, work[r].version)
    <3>1. scripts'[p] = Append(scripts[p], work[r].version)
      BY <2>2 DEF Save, PromptInv
    <3>2. SUFFICES ASSUME <<p, "script">> \notin gap' PROVE Versions(p)'
      BY <1>1, <2>2 DEF Versions, Exists
    <3>3. ~Unnumbered(r, p) /\ <<p, "script">> \notin gap
      BY <2>2, <3>2 DEF Save
    <3>4. Grows(scripts[p]) /\ Above(work[r].version, scripts[p])
      BY <1>1, <3>3 DEF Good, Versions
    <3>5. Grows(scripts'[p])
      BY <3>1, <3>4, GrowsAppend
    <3>6. \A q \in Requests : On(q, p)' => work'[q].pc \notin {"generating", "numbering"}
      BY <1>1, <3>3, DoneStep DEF Unnumbered, On
    <3>7. QED
      BY <1>1, <2>2, <3>5, <3>6 DEF Versions, Exists
  <2>3. QED
    BY <1>1, <2>1, <2>2
<1>6. /\ DOMAIN scripts' = Prompts
      /\ \A q \in Prompts \ {p} : scripts'[q] = scripts[q]
      /\ \A q \in Owners \ {p} : <<q, "script">> \in gap' <=> <<q, "script">> \in gap
  BY <1>1 DEF Save, PromptInv
<1>7. QED
  BY <1>1, <1>3, <1>4, <1>5, <1>6, PromptEnds DEF Good, Works

LEMMA DeletePrompt ==
  ASSUME CronInv, PromptInv, NEW r \in Requests, NEW p \in Prompts, PromptDelete(r, p)
  PROVE  PromptInv'
<1>1. /\ work[r].pc = "idle" /\ Exists(p) /\ UNCHANGED <<row, scripts, gap>>
      /\ job' = [job EXCEPT ![p] = NoJob]
  BY DEF PromptDelete
<1>2. /\ \A q \in Requests \ {r} : work'[q] = work[q]
      /\ work'[r].pc = "deleting" /\ work'[r].owner = p
  BY DEF PromptDelete, CronInv, Shape, Idle
<1>3. Private(r, p)
  BY <1>1, <1>2 DEF Private, CronInv, Shape
<1>4. job'[p] = NoJob
  BY <1>1, Apart DEF CronInv, Shape
<1>5. Good(p) /\ NoJob = [state |-> NoJob.state, cron |-> NoJob.cron]
  BY DEF PromptInv, NoJob
<1>6. Works(p)'
  BY <1>1, <1>2, <1>4, <1>5 DEF Good, Works, On, Exists
<1>7. Jobs(p)'
  BY <1>2 DEF Jobs, Kept, OwesJob, On
<1>8. Versions(p)'
  BY <1>1, <1>2, <1>5, VersionsKept DEF On
<1>9. QED
  BY <1>3, <1>6, <1>7, <1>8, PromptAlone, Apart DEF Good

LEMMA TogglePrompt ==
  ASSUME CronInv, PromptInv, NEW r \in Requests, SyncToggle(r)
  PROVE  PromptInv'
<1>0. PICK p \in Prompts : p = work[r].owner
  BY PromptRequest DEF SyncToggle
<1> DEFINE x == work[r].seen
           to == IF x.life = "on" THEN "active" ELSE "paused"
<1>1. /\ On(r, p) /\ Done(r) /\ UNCHANGED <<row, scripts>> /\ Good(p) /\ p \in Owners
      /\ DOMAIN job = Owners /\ work[r].op = "toggle" /\ work[r].pc = "refreshed"
      /\ job' = IF x.cron \in {NoCron, Blank} \/ job[p].state = "none" THEN job
                ELSE [job EXCEPT ![p].state = to]
      /\ gap' = IF x = row[p] THEN gap ELSE gap \cup {<<p, "job">>}
  BY <1>0, Apart DEF SyncToggle, On, PromptInv, CronInv, Shape
<1> HIDE DEF x, to
<1>2. job'[p] = [state |-> job'[p].state, cron |-> job'[p].cron]
  BY <1>1 DEF Good, Works
<1>3. Jobs(p)'
  <2>1. SUFFICES ASSUME Kept(p)'
                 PROVE  job'[p].state = to /\ job'[p].cron = row[p].cron /\ x = row[p]
    BY <1>1 DEF Jobs, to
  <2>2. x = row[p] /\ gap' = gap
    BY <1>1, <2>1 DEF Kept
  <2>3. \A q \in Requests : ~OwesJob(q, p)
    BY <1>1, <2>1, OthersOwe DEF Kept, OwesJob
  <2>4. Kept(p)
    BY <1>1, <2>1, <2>2, <2>3 DEF Kept, Exists
  <2>5. job[p].state \in {"active", "paused"} /\ job[p].cron = row[p].cron
    BY <1>1, <2>4 DEF Good, Jobs
  <2>6. x.cron \notin {NoCron, Blank}
    BY <2>2, <2>4, CronAssumption DEF Kept
  <2>7. job[p] = [state |-> job[p].state, cron |-> job[p].cron]
    BY <1>1 DEF Good, Works
  <2>8. QED
    BY <1>1, <2>2, <2>5, <2>6, <2>7
<1>4. Versions(p)'
  BY <1>1, VersionsEnd
<1>5. /\ \A o \in Owners \ {p} : job'[o] = job[o]
      /\ \A q \in Owners \ {p} : <<q, "job">> \in gap' <=> <<q, "job">> \in gap
      /\ \A q \in Owners : <<q, "script">> \in gap' <=> <<q, "script">> \in gap
  BY <1>1
<1>6. QED
  BY <1>1, <1>2, <1>3, <1>4, <1>5, PromptEnds DEF PromptInv

LEMMA EditPrompt ==
  ASSUME CronInv, PromptInv, NEW r \in Requests, SyncEdit(r)
  PROVE  PromptInv'
<1>0. PICK p \in Prompts : p = work[r].owner
  BY DEF SyncEdit
<1>1. /\ On(r, p) /\ Done(r) /\ UNCHANGED <<row, scripts>> /\ Good(p) /\ p \in Owners
      /\ work[r].op = "edit" /\ work[r].pc = "refreshed"
  BY <1>0, Apart DEF SyncEdit, On, PromptInv
<1>2. CASE work[r].edit = "same"
  <2>1. UNCHANGED <<job, gap>>
    BY <1>2 DEF SyncEdit
  <2>2. ~OwesJob(r, p) /\ ~OwesState(r, p)
    BY <1>1, <1>2 DEF OwesJob, OwesState
  <2>3. Jobs(p)'
    BY <1>1, <2>1, <2>2, OthersOwe, JobsKept
  <2>4. Versions(p)'
    BY <1>1, <2>1, VersionsEnd
  <2>5. QED
    BY <1>1, <2>1, <2>3, <2>4, PromptEnds DEF PromptInv, Good, Works
<1>3. CASE work[r].edit = "new" /\ Scheduled(work[r].seen)
  <2>1. job' = AddJob(p, work[r].seen.cron) /\ gap' = Mark(r, p)
    BY <1>0, <1>3 DEF SyncEdit
  <2>2. Jobs(p)' /\ job'[p] = [state |-> job'[p].state, cron |-> job'[p].cron]
    BY <1>1, <1>3, <2>1, JobMade
  <2>3. \A o \in Owners \ {p} : job'[o] = job[o]
    BY <2>1 DEF AddJob, CronInv, Shape
  <2>4. /\ \A q \in Owners \ {p} : <<q, "job">> \in gap' <=> <<q, "job">> \in gap
        /\ \A q \in Owners : <<q, "script">> \in gap' <=> <<q, "script">> \in gap
    BY <2>1 DEF Mark
  <2>5. Versions(p)'
    BY <1>1, <2>4, VersionsEnd
  <2>6. QED
    BY <1>1, <2>2, <2>3, <2>4, <2>5, PromptEnds DEF PromptInv
<1>4. CASE work[r].edit # "same" /\ ~(work[r].edit = "new" /\ Scheduled(work[r].seen))
  <2>1. job' \in {job, [job EXCEPT ![p] = NoJob]} /\ gap' = gap \cup {<<p, "job">>}
    BY <1>0, <1>4 DEF SyncEdit
  <2>2. Jobs(p)'
    BY <2>1 DEF Jobs, Kept
  <2>3. Versions(p)'
    BY <1>1, <2>1, VersionsEnd
  <2>4. /\ \A o \in Owners \ {p} : job'[o] = job[o]
        /\ job'[p] = [state |-> job'[p].state, cron |-> job'[p].cron]
    BY <1>1, <2>1 DEF NoJob, Good, Works, CronInv, Shape
  <2>5. QED
    BY <1>1, <2>1, <2>2, <2>3, <2>4, PromptEnds DEF PromptInv
<1>5. QED
  BY <1>2, <1>3, <1>4

LEMMA LoadPrompt ==
  ASSUME CronInv, PromptInv, NEW r \in Requests, NEW o \in Owners, Load(r, o)
  PROVE  PromptInv'
<1>1. /\ work[r].pc = "idle" /\ Exists(o) /\ UNCHANGED <<row, job, scripts, gap>>
      /\ \E op, arg, edit : /\ Start(r, o, op, arg, edit)
                            /\ o \in Prompts => /\ op \in {"toggle", "edit"}
                                                /\ op = "toggle" => arg \in {"on", "off"}
  BY Apart DEF Load
<1>2. /\ \A q \in Requests \ {r} : work'[q] = work[q]
      /\ work'[r].pc = "loaded" /\ work'[r].owner = o
      /\ o \in Prompts => /\ work'[r].op \in {"toggle", "edit"}
                          /\ work'[r].op = "toggle" => work'[r].arg \in {"on", "off"}
  BY <1>1 DEF Start, CronInv, Shape, Idle
<1>3. Private(r, o)
  BY <1>1, <1>2 DEF Private
<1>4. ASSUME o \in Prompts PROVE Good(o)'
  <2>1. Good(o)
    BY <1>4 DEF PromptInv
  <2>2. Works(o)'
    BY <1>1, <1>2, <1>4, <2>1 DEF Good, Works, On, Exists
  <2>3. \A q \in Requests : (OwesJob(q, o) => OwesJob(q, o)') /\ (OwesState(q, o) => OwesState(q, o)')
    BY <1>1, <1>2 DEF OwesJob, OwesState, On
  <2>4. Jobs(o)'
    BY <1>1, <1>4, <2>1, <2>3, JobsKept
  <2>5. Versions(o)'
    BY <1>1, <1>2, <1>4, <2>1, VersionsKept DEF On
  <2>6. QED
    BY <2>2, <2>4, <2>5 DEF Good
<1>5. QED
  BY <1>3, <1>4, PromptAlone

\* The scripts of a prompt go with it.
LEMMA VersionsCleared ==
  ASSUME NEW p \in Prompts, Good(p), scripts'[p] = <<>>, <<p, "script">> \in gap => <<p, "script">> \in gap',
         \A q \in Requests : On(q, p)' => On(q, p) /\ work'[q] = work[q]
  PROVE  Versions(p)'
<1>1. Grows(<<>>) /\ \A v, s : Above(v, s) => Above(v, <<>>)
  BY DEF Grows, Above
<1>2. QED
  BY <1>1 DEF Good, Versions

LEMMA CommitPrompt ==
  ASSUME CronInv, PromptInv, NEW r \in Requests, Commit(r)
  PROVE  PromptInv'
<1>0. PICK o \in Owners : o = work[r].owner
  BY DEF Commit, CronInv, Shape
<1>1. /\ work[r].owner = o /\ o \in DOMAIN row /\ work[r].pc \in {"loaded", "deleting"} /\ On(r, o)
      /\ UNCHANGED <<job, gap>>
      /\ scripts' = IF work[r].pc = "deleting" THEN [scripts EXCEPT ![o] = <<>>] ELSE scripts
  BY <1>0 DEF Commit, CronInv, Shape, On
<1>2. /\ DOMAIN scripts' = Prompts /\ \A q \in Prompts \ {o} : scripts'[q] = scripts[q]
      /\ o \in Prompts => scripts'[o] = IF work[r].pc = "deleting" THEN <<>> ELSE scripts[o]
  BY <1>1 DEF PromptInv
<1>3. CASE ~Exists(o) \/ work[r].pc = "deleting"
  <2>1. /\ Done(r) /\ \A q \in Owners \ {o} : row'[q] = row[q]
        /\ \/ row'[o] = row[o] /\ ~Exists(o)
           \/ row'[o] = [NoRow EXCEPT !.life = "deleted"]
    BY <1>1, <1>3 DEF Commit, CronInv, Shape, Written
  <2>2. /\ \A q \in Requests \ {r} : work'[q] = work[q]
        /\ work'[r].pc = "idle"
    BY <2>1, DoneStep
  <2>3. Private(r, o)
    BY <1>1, <1>2, <2>1, <2>2 DEF Private, PromptInv
  <2>4. ~Exists(o)' /\ (row'[o].life = "none" => row[o].life = "none")
        /\ (o \in Prompts => row'[o].life \in PromptLives)
    BY <2>1 DEF Exists, NoRow, PromptInv, Good, Works, PromptLives
  <2>5. \A q \in Requests : On(q, o)' => On(q, o) /\ work'[q] = work[q]
    BY <2>2 DEF On
  <2>6. ASSUME o \in Prompts PROVE Good(o)'
    <3>1. Good(o)
      BY <2>6 DEF PromptInv
    <3>2. Works(o)'
      BY <1>1, <2>4, <2>5, <2>6, <3>1 DEF Good, Works
    <3>3. Jobs(o)'
      BY <2>4 DEF Jobs, Kept
    <3>4. Versions(o)'
      BY <1>1, <1>2, <2>4, <2>5, <2>6, <3>1, VersionsKept, VersionsCleared
    <3>5. QED
      BY <3>2, <3>3, <3>4 DEF Good
  <2>7. QED
    BY <2>3, <2>6, PromptAlone
<1>4. CASE Exists(o) /\ work[r].pc = "loaded"
  <2>1. /\ row' = [row EXCEPT ![o] = Written(work[r])] /\ scripts' = scripts
        /\ work' = [work EXCEPT ![r].pc = "committed", ![r].arg = NoCron]
    BY <1>1, <1>4 DEF Commit
  <2>2. /\ \A q \in Requests \ {r} : work'[q] = work[q]
        /\ work'[r].pc = "committed" /\ work'[r].owner = o /\ work'[r].op = work[r].op
        /\ work'[r].edit = work[r].edit
    BY <1>1, <2>1 DEF CronInv, Shape, Fields
  <2>3. row'[o] = Written(work[r]) /\ \A q \in Owners \ {o} : row'[q] = row[q]
    BY <1>1, <2>1 DEF CronInv, Shape
  <2>4. Private(r, o)
    BY <1>1, <2>1, <2>2, <2>3 DEF Private
  <2>5. ASSUME o \in Prompts PROVE Good(o)'
    <3>1. Good(o) /\ work[r].op \in {"toggle", "edit"}
      BY <1>1, <1>4, <2>5 DEF PromptInv, Good, Works
    <3>2. /\ work[r].op = "toggle" => row'[o].cron = row[o].cron /\ row'[o].life \in {"on", "off"}
          /\ work[r].op = "edit" => row'[o].life = row[o].life
          /\ work[r].op = "edit" /\ work[r].edit = "same" => row'[o] = row[o]
      <4>1. row[o] \in Rows
        BY <1>1 DEF CronInv, Shape
      <4>2. work[r].op = "toggle" => work[r].arg \in {"on", "off"}
        BY <1>1, <1>4, <2>5, <3>1 DEF Good, Works
      <4>3. QED
        BY <1>1, <2>3, <3>1, <4>1, <4>2 DEF Written, Rows
    <3>3. Works(o)'
      <4>1. row[o].life # "none" /\ row'[o].life \in PromptLives \ {"none"}
        BY <1>4, <3>1, <3>2 DEF Exists, Good, Works, PromptLives
      <4>2. QED
        BY <1>1, <2>2, <2>5, <3>1, <4>1 DEF Good, Works, On
    <3>4. Jobs(o)'
      <4>1. CASE work[r].op = "edit" /\ work[r].edit # "same"
        BY <2>2, <4>1 DEF Jobs, Kept, OwesJob, On
      <4>2. CASE work[r].op = "edit" /\ work[r].edit = "same"
        <5>1. \A q \in Requests : /\ OwesJob(q, o) => OwesJob(q, o)'
                                  /\ OwesState(q, o) => OwesState(q, o)'
          BY <1>1, <1>4, <2>2, <4>2 DEF OwesJob, OwesState, On
        <5>2. \A q \in Requests : OwesJob(q, o)' => OwesJob(q, o)
          BY <1>1, <1>4, <2>2, <4>2 DEF OwesJob, On
        <5>3. QED
          BY <1>1, <2>5, <3>1, <3>2, <4>2, <5>1, <5>2, JobsKept
      <4>3. CASE work[r].op = "toggle"
        <5>1. OwesState(r, o)'
          BY <2>2, <4>3 DEF OwesState, On
        <5>2. \A q \in Requests : OwesJob(q, o)' <=> OwesJob(q, o)
          BY <1>1, <1>4, <2>2, <4>3 DEF OwesJob, On
        <5>3. Kept(o)' => Kept(o)
          BY <1>1, <1>4, <3>2, <4>3, <5>2 DEF Kept
        <5>4. QED
          BY <1>1, <3>1, <3>2, <4>3, <5>1, <5>3 DEF Good, Jobs
      <4>4. QED
        BY <3>1, <4>1, <4>2, <4>3
    <3>5. Versions(o)'
      <4>1. row'[o].life = "none" => row[o].life = "none"
        BY <3>1, <3>2
      <4>2. QED
        BY <1>1, <2>1, <2>2, <2>5, <3>1, <4>1, VersionsKept DEF On
    <3>6. QED
      BY <3>3, <3>4, <3>5 DEF Good
  <2>6. QED
    BY <2>4, <2>5, PromptAlone
<1>5. QED
  BY <1>1, <1>3, <1>4

LEMMA RefreshPrompt ==
  ASSUME CronInv, PromptInv, NEW r \in Requests, Refresh(r)
  PROVE  PromptInv'
<1>0. PICK o \in Owners : o = work[r].owner
  BY DEF Refresh, CronInv, Shape
<1>1. work[r].owner = o /\ work[r].pc = "committed" /\ UNCHANGED <<row, job, scripts, gap>> /\ On(r, o)
  BY <1>0 DEF Refresh, On
<1>2. /\ \A q \in Requests \ {r} : work'[q] = work[q]
      /\ \/ /\ work'[r].pc = "refreshed" /\ work'[r].owner = o /\ work'[r].op = work[r].op
            /\ work'[r].edit = work[r].edit
         \/ ~Exists(o) /\ work'[r].pc = "idle"
  <2>1. CASE Exists(o) \/ work[r].op = "delete"
    BY <1>1, <2>1 DEF Refresh, CronInv, Shape, Fields
  <2>2. CASE ~(Exists(o) \/ work[r].op = "delete")
    BY <1>1, <2>2, DoneStep DEF Refresh
  <2>3. QED
    BY <2>1, <2>2
<1>3. Private(r, o)
  BY <1>1, <1>2 DEF Private
<1>4. ASSUME o \in Prompts PROVE Good(o)'
  <2>1. Good(o)
    BY <1>4 DEF PromptInv
  <2>2. Works(o)'
    BY <1>1, <1>2, <1>4, <2>1 DEF Good, Works, On
  <2>3. Jobs(o)'
    <3>1. CASE ~Exists(o)
      BY <1>1, <3>1 DEF Jobs, Kept, Exists
    <3>2. CASE Exists(o)
      <4>1. \A q \in Requests : (OwesJob(q, o) <=> OwesJob(q, o)') /\ (OwesState(q, o) <=> OwesState(q, o)')
        BY <1>1, <1>2, <3>2 DEF OwesJob, OwesState, On
      <4>2. QED
        BY <1>1, <1>4, <2>1, <4>1, JobsKept
    <3>3. QED
      BY <3>1, <3>2
  <2>4. Versions(o)'
    BY <1>1, <1>2, <1>4, <2>1, VersionsKept DEF On
  <2>5. QED
    BY <2>2, <2>3, <2>4 DEF Good
<1>5. QED
  BY <1>3, <1>4, PromptAlone

LEMMA SyncPrompt ==
  ASSUME CronInv, PromptInv, NEW r \in Requests, SyncAgent(r)
  PROVE  PromptInv'
<1>0. PICK o \in Agents : o = work[r].owner
  BY DEF SyncAgent
<1>1. o \in Owners /\ o \notin Prompts /\ work[r].owner = o /\ Done(r) /\ UNCHANGED <<row, scripts>>
  BY <1>0, Apart DEF SyncAgent
<1>2. \A q \in Owners \ {o} : job'[q] = job[q]
  BY <1>1 DEF SyncAgent, AddJob, CronInv, Shape
<1>3. \A q \in Owners \ {o} : /\ <<q, "job">> \in gap' <=> <<q, "job">> \in gap
                              /\ <<q, "script">> \in gap' <=> <<q, "script">> \in gap
  BY <1>1 DEF SyncAgent, Mark
<1>4. Private(r, o)
  BY <1>1, <1>2, <1>3, DoneStep, Apart DEF Private
<1>5. QED
  BY <1>1, <1>4, PromptAlone

LEMMA FailPrompt ==
  ASSUME CronInv, PromptInv, NEW r \in Requests, RequestFail(r)
  PROVE  PromptInv'
<1>0. PICK o \in Owners : o = work[r].owner
  BY DEF RequestFail, CronInv, Shape
<1>1. /\ work[r].owner = o /\ On(r, o) /\ Done(r) /\ UNCHANGED <<row, job, scripts>>
      /\ gap' = IF r \in Halfway THEN gap \cup {<<o, "job">>} ELSE gap
  BY <1>0 DEF RequestFail, On
<1>2. /\ \A q \in Owners \ {o} : <<q, "job">> \in gap' <=> <<q, "job">> \in gap
      /\ \A q \in Owners : <<q, "script">> \in gap' <=> <<q, "script">> \in gap
      /\ <<o, "job">> \in gap => <<o, "job">> \in gap'
  BY <1>1
<1>3. CASE o \in Agents
  <2>1. Private(r, o) /\ o \notin Prompts
    BY <1>1, <1>2, <1>3, DoneStep, Apart DEF Private
  <2>2. QED
    BY <2>1, PromptAlone
<1>4. CASE o \in Prompts
  <2>1. Good(o)
    BY <1>4 DEF PromptInv
  <2>2. Jobs(o)'
    <3>1. OwesJob(r, o) \/ OwesState(r, o) => r \in Halfway
      BY DEF OwesJob, OwesState, On, Halfway
    <3>2. QED
      BY <1>1, <1>2, <1>4, <2>1, <3>1, OthersOwe, JobsKept
  <2>3. Versions(o)'
    BY <1>1, <1>2, <1>4, VersionsEnd
  <2>4. QED
    BY <1>1, <1>2, <1>4, <2>1, <2>2, <2>3, PromptEnds DEF PromptInv, Good, Works
<1>5. QED
  BY <1>3, <1>4 DEF Owners

LEMMA AgentPrompt ==
  ASSUME CronInv, PromptInv, NEW a \in Agents, AgentCreate(a)
  PROVE  PromptInv'
<1>1. UNCHANGED <<job, work, scripts, gap>> /\ \A p \in Prompts : row'[p] = row[p]
  BY Apart DEF AgentCreate, CronInv, Shape
<1>2. QED
  BY <1>1, GoodKept DEF PromptInv

LEMMA RestartPrompt ==
  ASSUME CronInv, PromptInv, Restart
  PROVE  PromptInv'
<1>1. PICK s \in SUBSET Prompts :
        LET back == s \cup {a \in Agents : Scheduled(row[a])}
            cut  == {work[r].owner : r \in Halfway}
        IN  /\ IsRestored(s)
            /\ job' = [o \in Owners |-> IF o \in back THEN [state |-> "active", cron |-> row[o].cron]
                                                      ELSE job[o]]
            /\ gap' = (gap \cup {<<o, "job">> : o \in cut}) \ {<<o, "job">> : o \in back}
            /\ work' = [r \in Requests |-> Idle]
            /\ UNCHANGED <<row, scripts>>
  BY DEF Restart
<1>2. s \subseteq Restored
  BY <1>1 DEF IsRestored
<1>3. \A r \in Requests : work'[r].pc = "idle"
  BY <1>1, IdleShape
<1>4. ASSUME NEW p \in Prompts PROVE Good(p)'
  <2>1. /\ Good(p) /\ p \in Owners /\ row'[p] = row[p] /\ scripts'[p] = scripts[p]
        /\ <<p, "script">> \in gap => <<p, "script">> \in gap'
        /\ job'[p] = IF p \in s THEN [state |-> "active", cron |-> row[p].cron] ELSE job[p]
    BY <1>1, Apart DEF PromptInv
  <2>2. \A r \in Requests : ~On(r, p)'
    BY <1>3 DEF On
  <2>3. Works(p)'
    BY <2>1, <2>2 DEF Good, Works
  <2>4. Jobs(p)'
    <3>1. CASE p \in s
      <4>1. row[p].life = "on"
        BY <1>2, <3>1 DEF Restored, Restorable
      <4>2. QED
        BY <2>1, <3>1, <4>1 DEF Jobs
    <3>2. CASE p \notin s
      <4>1. \A r \in Halfway : work[r].owner = p => <<p, "job">> \in gap'
        BY <1>1, <3>2, Apart
      <4>2. <<p, "job">> \in gap => <<p, "job">> \in gap'
        BY <1>1, <3>2, Apart
      <4>3. \A r \in Requests : OwesJob(r, p) \/ OwesState(r, p) => r \in Halfway /\ work[r].owner = p
        BY DEF OwesJob, OwesState, On, Halfway
      <4>4. QED
        BY <2>1, <3>2, <4>1, <4>2, <4>3, JobsKept
    <3>3. QED
      BY <3>1, <3>2
  <2>5. Versions(p)'
    BY <2>1, <2>2, VersionsKept
  <2>6. QED
    BY <2>3, <2>4, <2>5 DEF Good
<1>5. QED
  BY <1>1, <1>4 DEF PromptInv

-----------------------------------------------------------------------------
(* The jobs that rows of an agent have asked for: no request takes another to the *)
(* scheduler, nor brings one that it has not read from a committed row.           *)

AskedInv ==
  \A a \in Agents :
    /\ <<a, NoJob>> \in asked /\ <<a, JobOf(row[a])>> \in asked /\ <<a, job[a]>> \in asked
    /\ \A r \in Requests : On(r, a) /\ work[r].pc = "refreshed" => <<a, JobOf(work[r].seen)>> \in asked

LEMMA InitAsked == CronInit => AskedInv
<1> SUFFICES ASSUME CronInit, NEW a \in Agents
             PROVE  /\ <<a, NoJob>> \in asked /\ <<a, JobOf(row[a])>> \in asked /\ <<a, job[a]>> \in asked
                    /\ \A r \in Requests : work[r].pc = "idle"
  BY DEF AskedInv, On
<1>1. row[a] = NoRow /\ job[a] = NoJob /\ <<a, NoJob>> \in asked
  BY Apart DEF CronInit
<1>2. JobOf(NoRow) = NoJob
  BY DEF JobOf, Scheduled, NoRow
<1>3. \A r \in Requests : work[r].pc = "idle"
  BY IdleShape DEF CronInit
<1>4. QED
  BY <1>1, <1>2, <1>3

\* What a request does to the job of an agent, and to what it has read of a row.
Obedient(r) ==
  /\ \A q \in Requests \ {r} : work'[q] = work[q]
  /\ \A a \in Agents :
       /\ \/ job'[a] \in {job[a], NoJob}
          \/ On(r, a) /\ work[r].pc = "refreshed" /\ job'[a] = JobOf(work[r].seen)
       /\ On(r, a)' /\ work'[r].pc = "refreshed" => work'[r].seen = row[a]

LEMMA PromptObeys ==
  ASSUME CronInv, NEW r \in Requests,
         \/ \E p \in Prompts : PromptCreate(r, p) \/ RegenerateRead(r, p) \/ PromptDelete(r, p)
         \/ PromptGenerate(r) \/ PromptAdd(r) \/ RegenerateCommit(r)
         \/ SyncToggle(r) \/ SyncEdit(r)
  PROVE  Obedient(r)
<1>1. CASE \E p \in Prompts : PromptCreate(r, p) \/ RegenerateRead(r, p) \/ PromptDelete(r, p)
  <2>1. PICK p \in Prompts : PromptCreate(r, p) \/ RegenerateRead(r, p) \/ PromptDelete(r, p)
    BY <1>1
  <2>2. \A a \in Agents : job'[a] = job[a]
    BY <2>1, Apart DEF PromptCreate, RegenerateRead, PromptDelete, CronInv, Shape
  <2>3. (\A q \in Requests \ {r} : work'[q] = work[q]) /\ work'[r].pc # "refreshed"
    <3>1. CASE PromptCreate(r, p)
      <4>1. \E s : work' = [work EXCEPT ![r] = [Idle EXCEPT !.pc = "generating", !.op = "create",
                                                           !.owner = p, !.seen = s]]
        BY <3>1 DEF PromptCreate
      <4>2. QED
        BY <4>1 DEF Idle, CronInv, Shape
    <3>2. CASE RegenerateRead(r, p)
      BY <3>2 DEF RegenerateRead, Idle, CronInv, Shape
    <3>3. CASE PromptDelete(r, p)
      BY <3>3 DEF PromptDelete, Idle, CronInv, Shape
    <3>4. QED
      BY <2>1, <3>1, <3>2, <3>3
  <2>4. QED
    BY <2>2, <2>3 DEF Obedient
<1>2. CASE PromptGenerate(r) \/ PromptAdd(r) \/ RegenerateCommit(r) \/ SyncToggle(r) \/ SyncEdit(r)
  <2>1. work[r].owner \in Prompts
    BY <1>2, PromptRequest DEF PromptGenerate, PromptAdd, RegenerateCommit, SyncToggle, SyncEdit
  <2>2. \A a \in Agents : job'[a] = job[a]
    <3>1. \A cron : \A a \in Agents : AddJob(work[r].owner, cron)[a] = job[a]
      BY <2>1, Apart DEF AddJob, CronInv, Shape
    <3>2. CASE PromptGenerate(r) \/ RegenerateCommit(r)
      BY <3>2 DEF PromptGenerate, RegenerateCommit
    <3>3. CASE PromptAdd(r)
      BY <3>1, <3>3 DEF PromptAdd
    <3>4. CASE SyncToggle(r)
      BY <2>1, <3>4, Apart DEF SyncToggle, CronInv, Shape
    <3>5. CASE SyncEdit(r)
      <4>1. job' \in {job, AddJob(work[r].owner, work[r].seen.cron), [job EXCEPT ![work[r].owner] = NoJob]}
        BY <3>5 DEF SyncEdit
      <4>2. QED
        BY <2>1, <3>1, <4>1, Apart DEF CronInv, Shape
    <3>6. QED
      BY <1>2, <3>2, <3>3, <3>4, <3>5
  <2>3. (\A q \in Requests \ {r} : work'[q] = work[q]) /\ work'[r].pc # "refreshed"
    <3>1. CASE PromptGenerate(r)
      BY <3>1 DEF PromptGenerate, CronInv, Shape, Fields
    <3>2. CASE ~PromptGenerate(r)
      BY <1>2, <3>2, DoneStep DEF PromptAdd, RegenerateCommit, SyncToggle, SyncEdit
    <3>3. QED
      BY <3>1, <3>2
  <2>4. QED
    BY <2>2, <2>3 DEF Obedient
<1>3. QED
  BY <1>1, <1>2

LEMMA RequestObeys ==
  ASSUME CronInv, NEW r \in Requests, RequestNext(r)
  PROVE  Obedient(r)
<1>1. CASE \E o \in Owners : Load(r, o)
  <2>1. PICK o \in Owners : Load(r, o)
    BY <1>1
  <2>2. job' = job /\ \E op, arg, edit : Start(r, o, op, arg, edit)
    BY <2>1 DEF Load
  <2>3. (\A q \in Requests \ {r} : work'[q] = work[q]) /\ work'[r].pc = "loaded"
    BY <2>2 DEF Start, Idle, CronInv, Shape
  <2>4. QED
    BY <2>2, <2>3 DEF Obedient
<1>2. CASE Commit(r)
  <2>1. job' = job
    BY <1>2 DEF Commit
  <2>2. Done(r) \/ work' = [work EXCEPT ![r].pc = "committed", ![r].arg = NoCron]
    BY <1>2 DEF Commit
  <2>3. (\A q \in Requests \ {r} : work'[q] = work[q]) /\ work'[r].pc # "refreshed"
    BY <2>2, DoneStep DEF CronInv, Shape, Fields
  <2>4. QED
    BY <2>1, <2>3 DEF Obedient
<1>3. CASE Refresh(r)
  <2>1. job' = job
    BY <1>3 DEF Refresh
  <2>2. \/ Done(r)
        \/ work' = [work EXCEPT ![r].pc = "refreshed", ![r].seen = row[work[r].owner]]
    BY <1>3 DEF Refresh
  <2>3. /\ \A q \in Requests \ {r} : work'[q] = work[q]
        /\ \/ work'[r].pc = "idle"
           \/ work'[r].owner = work[r].owner /\ work'[r].seen = row[work[r].owner]
    BY <2>2, DoneStep DEF CronInv, Shape, Fields
  <2>4. QED
    BY <2>1, <2>3 DEF Obedient, On
<1>4. CASE SyncAgent(r)
  <2>1. work[r].pc = "refreshed" /\ work[r].owner \in Agents /\ Done(r)
    BY <1>4 DEF SyncAgent
  <2>2. On(r, work[r].owner) /\ work[r].seen.cron \notin BadCrons
    BY <2>1 DEF On, CronInv, AgentWork
  <2>3. /\ \A a \in Agents \ {work[r].owner} : job'[a] = job[a]
        /\ job'[work[r].owner] = JobOf(work[r].seen)
    BY <1>4, <2>1, <2>2, Apart DEF SyncAgent, AddJob, JobOf, CronInv, Shape
  <2>4. (\A q \in Requests \ {r} : work'[q] = work[q]) /\ work'[r].pc = "idle"
    BY <2>1, DoneStep
  <2>5. QED
    BY <2>1, <2>2, <2>3, <2>4 DEF Obedient
<1>5. CASE RequestFail(r)
  BY <1>5, DoneStep DEF RequestFail, Obedient
<1>6. QED
  BY <1>1, <1>2, <1>3, <1>4, <1>5, PromptObeys DEF RequestNext

LEMMA RequestAsked ==
  ASSUME CronInv, AskedInv, NEW r \in Requests, Obedient(r),
         asked' = asked \cup {<<a, JobOf(row'[a])>> : a \in Agents}
  PROVE  AskedInv'
<1>1. asked \subseteq asked' /\ \A a \in Agents : <<a, JobOf(row'[a])>> \in asked'
  OBVIOUS
<1>2. \A a \in Agents : <<a, NoJob>> \in asked' /\ <<a, job'[a]>> \in asked'
  BY <1>1 DEF AskedInv, Obedient
<1>3. ASSUME NEW a \in Agents, NEW q \in Requests, On(q, a)', work'[q].pc = "refreshed"
      PROVE  <<a, JobOf(work'[q].seen)>> \in asked'
  <2>1. CASE q = r
    BY <1>1, <1>3, <2>1 DEF AskedInv, Obedient
  <2>2. CASE q # r
    BY <1>1, <1>3, <2>2 DEF AskedInv, Obedient, On
  <2>3. QED
    BY <2>1, <2>2
<1>4. QED
  BY <1>1, <1>2, <1>3 DEF AskedInv

LEMMA AgentAsked ==
  ASSUME CronInv, AskedInv, NEW b \in Agents, AgentCreate(b),
         asked' = asked \cup {<<a, JobOf(row'[a])>> : a \in Agents}
  PROVE  AskedInv'
<1>1. asked \subseteq asked' /\ \A a \in Agents : <<a, JobOf(row'[a])>> \in asked'
  OBVIOUS
<1>2. UNCHANGED <<job, work>>
  BY DEF AgentCreate
<1>3. QED
  BY <1>1, <1>2 DEF AskedInv, On

LEMMA RestartAsked ==
  ASSUME CronInv, AskedInv, Restart
  PROVE  AskedInv'
<1>1. PICK s \in SUBSET Prompts :
        LET back == s \cup {a \in Agents : Scheduled(row[a])}
        IN  /\ job' = [o \in Owners |-> IF o \in back THEN [state |-> "active", cron |-> row[o].cron]
                                                      ELSE job[o]]
            /\ work' = [r \in Requests |-> Idle]
            /\ UNCHANGED <<row, asked>>
  BY DEF Restart
<1>2. \A a \in Agents : job'[a] \in {job[a], JobOf(row[a])}
  BY <1>1, Apart DEF JobOf
<1>3. \A r \in Requests : work'[r].pc = "idle"
  BY <1>1, IdleShape
<1>4. row' = row /\ asked' = asked
  BY <1>1
<1>5. QED
  BY <1>2, <1>3, <1>4 DEF AskedInv, On

-----------------------------------------------------------------------------
(* Executions. *)

RunFields == {"pc", "prompt", "by", "status", "proc", "held"}
Outcomes  == {"success", "failed", "timeout"}

\* A process runs only while its execution waits for it, and an outcome is the end.
RunInv ==
  /\ DOMAIN run = Runs
  /\ \A e \in Runs :
       /\ DOMAIN run[e] = RunFields
       /\ run[e].proc = "running" => run[e].pc = "waiting"
       /\ run[e].pc \in {"idle", "read", "created", "waiting", "draining"} => run[e].status \notin Outcomes
       /\ run[e].status = "success" => run[e].proc \in {"object", "text", "value"}

LEMMA InitRun == Init => RunInv
BY DEF Init, RunInv, NoRun, RunFields, Outcomes

\* An execution that changes alone.
LEMMA RunStep ==
  ASSUME RunInv, NEW e \in Runs, RunNext(e)
  PROVE  RunInv'
<1> USE DEF RunInv, RunFields, Outcomes
<1>1. CASE \E p \in Prompts : Tick(e, p) \/ RunByHand(e, p)
  <2>1. PICK p \in Prompts : Tick(e, p) \/ RunByHand(e, p)
    BY <1>1
  <2>2. CASE Tick(e, p)
    BY <2>2 DEF Tick, NoRun
  <2>3. CASE RunByHand(e, p)
    BY <2>3 DEF RunByHand, NoRun
  <2>4. QED
    BY <2>1, <2>2, <2>3
<1>2. CASE Insert(e)
  <2>1. CASE Exists(run[e].prompt)
    BY <1>2, <2>1 DEF Insert
  <2>2. CASE ~Exists(run[e].prompt)
    BY <1>2, <2>2 DEF Insert
  <2>3. QED
    BY <2>1, <2>2
<1>3. ASSUME NEW status \in Outcomes, Settle(e, status),
             run[e].pc \in {"created", "waiting", "draining"}, run[e].proc # "running",
             status = "success" => run[e].proc \in {"object", "text", "value"}
      PROVE  RunInv'
  <2>1. CASE Exists(run[e].prompt)
    BY <1>3, <2>1 DEF Settle
  <2>2. CASE ~Exists(run[e].prompt)
    BY <1>3, <2>2 DEF Settle
  <2>3. QED
    BY <2>1, <2>2
<1>4. CASE Spawn(e)
  <2>1. CASE Settle(e, "failed")
    BY <1>3, <1>4, <2>1 DEF Spawn
  <2>2. CASE run' = [run EXCEPT ![e].pc = "waiting", ![e].proc = "running"]
    BY <1>4, <2>2 DEF Spawn
  <2>3. QED
    BY <1>4, <2>1, <2>2 DEF Spawn
<1>5. CASE Exit(e)
  BY <1>5 DEF Exit
<1>6. CASE Collect(e)
  BY <1>3, <1>6 DEF Collect, Outcome
<1>7. CASE Timeout(e)
  BY <1>7 DEF Timeout
<1>8. CASE Drained(e)
  BY <1>3, <1>8 DEF Drained
<1>9. CASE RunLost(e)
  BY <1>9 DEF RunLost
<1>10. QED
  BY <1>1, <1>2, <1>4, <1>5, <1>6, <1>7, <1>8, <1>9 DEF RunNext

LEMMA RestartRuns ==
  ASSUME RunInv, RunRestart
  PROVE  RunInv'
<1>1. run' = [e \in Runs |->
        IF run[e].pc \in {"idle", "done", "lost"} THEN run[e]
        ELSE [run[e] EXCEPT !.pc = "lost", !.proc = IF @ = "running" THEN "killed" ELSE @]]
  BY DEF RunRestart
<1>2. QED
  BY <1>1 DEF RunInv, RunFields, Outcomes

-----------------------------------------------------------------------------
(* The specification. *)

Inv == CronInv /\ AskedInv /\ RunInv

LEMMA SameCron == CronInv /\ UNCHANGED cronVars => CronInv'
<1> SUFFICES ASSUME CronInv, UNCHANGED cronVars
            PROVE  CronInv'
  OBVIOUS
<1>1. Shape' /\ AgentWork'
  BY DEF cronVars, CronInv, Shape, AgentWork, On
<1>2. AgentJobs'
  BY DEF cronVars, CronInv, AgentJobs, Owes, On, Exists, Right, Scheduled
<1>3. QED
  BY <1>1, <1>2 DEF CronInv

LEMMA SameAsked == AskedInv /\ UNCHANGED cronVars => AskedInv'
BY DEF cronVars, AskedInv, On

LEMMA RequestStep ==
  ASSUME CronInv, NEW r \in Requests, RequestNext(r)
  PROVE  CronInv'
<1>1. CASE \E p \in Prompts : PromptCreate(r, p) \/ RegenerateRead(r, p) \/ PromptDelete(r, p)
  BY <1>1, CreateStep, NumberStep, DeletePromptStep
<1>2. CASE PromptGenerate(r) \/ PromptAdd(r) \/ RegenerateCommit(r)
  BY <1>2, GenerateStep, AddStep, VersionStep
<1>3. CASE \E o \in Owners : Load(r, o)
  BY <1>3, LoadStep
<1>4. CASE Commit(r) \/ Refresh(r) \/ SyncAgent(r)
  BY <1>4, CommitStep, RefreshStep, SyncStep
<1>5. CASE SyncToggle(r) \/ SyncEdit(r) \/ RequestFail(r)
  BY <1>5, ToggleStep, EditStep, FailStep
<1>6. QED
  BY <1>1, <1>2, <1>3, <1>4, <1>5 DEF RequestNext

LEMMA NextInv == Inv /\ [Next]_runVars => Inv'
<1> SUFFICES ASSUME Inv, [Next]_runVars
            PROVE  Inv'
  OBVIOUS
<1>1. CASE CronNext /\ UNCHANGED run
  <2>1. CronInv'
    BY <1>1, RequestStep, AgentStep DEF CronNext, Inv
  <2>2. RunInv'
    BY <1>1 DEF Inv, RunInv
  <2>3. AskedInv'
    BY <1>1, RequestObeys, RequestAsked, AgentAsked DEF CronNext, Inv
  <2>4. QED
    BY <2>1, <2>2, <2>3 DEF Inv
<1>2. CASE \E e \in Runs : RunNext(e)
  <2>1. UNCHANGED cronVars
    BY <1>2 DEF RunNext, Tick, RunByHand, Insert, Spawn, Exit, Collect, Timeout, Drained, RunLost
  <2>2. QED
    BY <1>2, <2>1, RunStep, SameCron, SameAsked DEF Inv
<1>3. CASE RunRestart
  BY <1>3, RestartStep, RestartAsked, RestartRuns DEF Inv, RunRestart
<1>4. CASE UNCHANGED runVars
  <2>1. CronInv'
    BY <1>4, SameCron DEF Inv, runVars
  <2>2. RunInv' /\ AskedInv'
    BY <1>4, SameAsked DEF Inv, RunInv, runVars
  <2>3. QED
    BY <2>1, <2>2 DEF Inv
<1>5. QED
  BY <1>1, <1>2, <1>3, <1>4 DEF Next

LEMMA InvAlways == Spec => []Inv
<1>1. Init => Inv
  BY InitCron, InitAsked, InitRun DEF Init, Inv
<1>2. QED
  BY <1>1, NextInv, PTL DEF Spec

\* However requests on an agent cross, fail or are cut short by restarts, its job is
\* one that its row asks for or has asked for, and the one its row asks for once none
\* is left, unless the last to reach the scheduler had read a row that another then
\* changed, or one was cut short after its commit.
THEOREM AgentJobsMatch == Spec => []AgentJobMatches
<1>1. Inv => AgentJobMatches
  BY DEF Inv, CronInv, AskedInv, AgentJobs, Owes, On, Quiet, Right, JobOf, AgentJobMatches
<1>2. QED
  BY <1>1, InvAlways, PTL

\* An execution with an outcome left no process, and a success exited with code 0.
THEOREM OutcomesAreTrue == Spec => []OutcomeIsTrue
<1>1. Inv => OutcomeIsTrue
  BY DEF Inv, RunInv, Outcomes, OutcomeIsTrue
<1>2. QED
  BY <1>1, InvAlways, PTL

LEMMA SamePrompts == PromptInv /\ UNCHANGED cronVars => PromptInv'
<1> SUFFICES ASSUME PromptInv, UNCHANGED cronVars
            PROVE  PromptInv'
  OBVIOUS
<1>1. UNCHANGED <<row, job, work, scripts, gap>>
  BY DEF cronVars
<1>2. QED
  BY <1>1, GoodKept DEF PromptInv

LEMMA RequestPrompts ==
  ASSUME CronInv, PromptInv, NEW r \in Requests, RequestNext(r)
  PROVE  PromptInv'
<1>1. CASE \E p \in Prompts : PromptCreate(r, p) \/ RegenerateRead(r, p) \/ PromptDelete(r, p)
  BY <1>1, CreatePrompt, NumberPrompt, DeletePrompt
<1>2. CASE PromptGenerate(r) \/ PromptAdd(r) \/ RegenerateCommit(r)
  BY <1>2, GeneratePrompt, AddPrompt, VersionPrompt
<1>3. CASE \E o \in Owners : Load(r, o)
  BY <1>3, LoadPrompt
<1>4. CASE Commit(r) \/ Refresh(r) \/ SyncAgent(r)
  BY <1>4, CommitPrompt, RefreshPrompt, SyncPrompt
<1>5. CASE SyncToggle(r) \/ SyncEdit(r) \/ RequestFail(r)
  BY <1>5, TogglePrompt, EditPrompt, FailPrompt
<1>6. QED
  BY <1>1, <1>2, <1>3, <1>4, <1>5 DEF RequestNext

LEMMA NextPrompts == Inv /\ PromptInv /\ [Next]_runVars => PromptInv'
<1> SUFFICES ASSUME CronInv, PromptInv, [Next]_runVars
            PROVE  PromptInv'
  BY DEF Inv
<1>1. CASE CronNext /\ UNCHANGED run
  BY <1>1, RequestPrompts, AgentPrompt DEF CronNext
<1>2. CASE \E e \in Runs : RunNext(e)
  <2>1. UNCHANGED cronVars
    BY <1>2 DEF RunNext, Tick, RunByHand, Insert, Spawn, Exit, Collect, Timeout, Drained, RunLost
  <2>2. QED
    BY <2>1, SamePrompts
<1>3. CASE RunRestart
  BY <1>3, RestartPrompt DEF RunRestart
<1>4. CASE UNCHANGED runVars
  BY <1>4, SamePrompts DEF runVars
<1>5. QED
  BY <1>1, <1>2, <1>3, <1>4 DEF Next

LEMMA PromptsAlways == Spec => []PromptInv
<1>1. Init => PromptInv
  BY InitPrompts DEF Init
<1>2. QED
  BY <1>1, NextPrompts, InvAlways, PTL DEF Spec

\* The job of a prompt created to be scheduled, and edited only while enabled, has its
\* expression and runs while it is switched on, under the same exceptions.
THEOREM PromptJobsMatch == Spec => []PromptJobMatches
<1>1. PromptInv => PromptJobMatches
  <2>1. SUFFICES ASSUME PromptInv, NEW p \in Prompts, Quiet(p), Exists(p), <<p, "job">> \notin gap,
                        row[p].cron \in Crons
                 PROVE  IF row[p].life = "on" THEN job[p] = [state |-> "active", cron |-> row[p].cron]
                                              ELSE job[p].state # "active"
    BY DEF PromptJobMatches
  <2>2. \A r \in Requests : ~OwesJob(r, p) /\ ~OwesState(r, p)
    BY <2>1 DEF Quiet, OwesJob, OwesState, On
  <2>3. /\ job[p].state = IF row[p].life = "on" THEN "active" ELSE "paused"
        /\ job[p].cron = row[p].cron
        /\ job[p] = [state |-> job[p].state, cron |-> job[p].cron]
    BY <2>1, <2>2 DEF PromptInv, Good, Works, Jobs, Kept
  <2>4. QED
    BY <2>3
<1>2. QED
  BY <1>1, PromptsAlways, PTL

\* The script with the highest version of a prompt is its newest, unless two
\* generations of the prompt overlapped.
THEOREM VersionsAlwaysGrow == Spec => []VersionsGrow
<1>1. PromptInv => VersionsGrow
  BY DEF PromptInv, Good, Versions, Grows, VersionsGrow
<1>2. QED
  BY <1>1, PromptsAlways, PTL

=============================================================================
