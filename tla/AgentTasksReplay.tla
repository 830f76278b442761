-------------------------- MODULE AgentTasksReplay --------------------------
(***************************************************************************)
(* The replay argument of the approvals, for every number of tasks,        *)
(* approvals, workers and rounds: an approved call runs at most once and a *)
(* resumed run continues exactly where the parked one stopped.             *)
(* The inductive invariant is TypeOK /\ ReplayInv of AgentTasks.  It is    *)
(* local to a task: FrameTask carries it over a step of another task, so   *)
(* each action has to be looked at only at the task it acts on.            *)
(***************************************************************************)
EXTENDS AgentTasksProofs

\* A step that leaves alone what TaskInv(u) talks about.
SameTask(u) ==
  /\ status'[u] = status[u] /\ journal'[u] = journal[u]
  /\ run'[u] = run[u] /\ answered'[u] = answered[u]
  /\ \A x \in Approvals :
       \/ appr'[x] = appr[x] /\ ran'[x] = ran[x]
       \/ /\ appr[x].status = "absent" \/ appr[x].task # u
          /\ appr'[x].status = "absent" \/ appr'[x].task # u

LEMMA FrameTask ==
  ASSUME NEW u \in Tasks, TaskInv(u), SameTask(u) PROVE TaskInv(u)'
<1>1. ApprovalsOf(u)' = ApprovalsOf(u)
  BY DEF ApprovalsOf, SameTask
<1>2. \A x \in ApprovalsOf(u) : appr'[x] = appr[x] /\ ran'[x] = ran[x]
  BY DEF ApprovalsOf, SameTask
<1>3. PendingOf(u)' = PendingOf(u) /\ DecidedUnconsumed(u)' = DecidedUnconsumed(u)
  BY <1>1, <1>2 DEF PendingOf, DecidedUnconsumed
<1>4. Outstanding(u)' = Outstanding(u)
  BY <1>3 DEF Outstanding
<1>5. Outstanding(u) \subseteq ApprovalsOf(u) /\ DecidedUnconsumed(u) \subseteq ApprovalsOf(u)
  BY DEF Outstanding, PendingOf, DecidedUnconsumed
<1>6. \A x \in Outstanding(u) : NamesNextCall(u, x) => NamesNextCall(u, x)'
  BY <1>2, <1>5 DEF NamesNextCall, MatchesJournal, SameTask
<1>7. RunnerInv(u)'
  <2>1. RunnerInv(u)
    BY DEF TaskInv
  <2>2. run'[u] = run[u] /\ journal'[u] = journal[u] /\ answered'[u] = answered[u]
    BY DEF SameTask
  <2>3. run[u].pc \in {"resume", "call", "record", "consume"} /\ run[u].using # None =>
          run[u].using \in ApprovalsOf(u)
    BY <2>1, <1>5 DEF RunnerInv
  <2>4. QED
    BY <2>1, <2>2, <2>3, <1>2, <1>3, <1>4 DEF RunnerInv, InTurn
<1>8. QED
  BY <1>1, <1>4, <1>6, <1>7 DEF TaskInv, ResumeReady, At, SameTask

-----------------------------------------------------------------------------
(* Steps after which a task is no nearer to using an approval: ended runs,  *)
(* finished, requeued or swept tasks, decisions and expiries.               *)

QuietPcs == {"off", "unpark", "final", "critique", "report", "complete", "cancelled", "fail"}

QuietTask(t) ==
  /\ status'[t] \in {"queued", "waiting_approval"} => status[t] \in {"queued", "waiting_approval"}
  /\ status'[t] = "absent" => status[t] = "absent"
  /\ journal'[t].planned = journal[t].planned /\ journal'[t].turns = journal[t].turns
  /\ journal'[t].calls = journal[t].calls /\ journal'[t].recorded = journal[t].recorded
  /\ answered'[t] = answered[t]
  /\ \/ /\ run'[t].pc = run[t].pc /\ run'[t].using = run[t].using /\ run'[t].at = run[t].at
     \/ run[t].pc # "off" /\ run'[t].pc \in QuietPcs

QuietApproval(x) ==
  /\ ran'[x] = ran[x]
  /\ \/ appr'[x] = appr[x]
     \/ /\ appr[x].status = "pending" /\ appr'[x].status \in {"approved", "rejected", "expired"}
        /\ appr'[x].task = appr[x].task /\ appr'[x].tool = appr[x].tool
        /\ appr'[x].index = appr[x].index /\ appr'[x].consumed = appr[x].consumed

LEMMA QuietStep ==
  ASSUME TypeOK, ReplayInv,
         \A t \in Tasks : QuietTask(t), \A x \in Approvals : QuietApproval(x)
  PROVE  ReplayInv'
<1>1. ASSUME NEW x \in Approvals PROVE ApprovalInv(x)'
  <2>1. ApprovalInv(x) /\ QuietApproval(x)
    BY DEF ReplayInv
  <2>2. ran[x] \in Nat
    BY DEF TypeOK
  <2>3. QED
    BY <2>1, <2>2 DEF ApprovalInv, QuietApproval
<1>2. ASSUME NEW t \in Tasks PROVE TaskInv(t)'
  <2>1. TaskInv(t) /\ QuietTask(t)
    BY DEF ReplayInv
  <2>2. \A x \in Approvals : QuietApproval(x) /\ ApprovalInv(x)
    BY DEF ReplayInv
  <2>3. ApprovalsOf(t)' = ApprovalsOf(t)
    BY <2>2 DEF ApprovalsOf, QuietApproval
  <2>4. Outstanding(t)' \subseteq Outstanding(t)
    BY <2>2 DEF Outstanding, PendingOf, DecidedUnconsumed, ApprovalsOf, QuietApproval,
       ApprovalInv, Decisions
  <2>5. DecidedUnconsumed(t) \subseteq DecidedUnconsumed(t)'
    BY <2>2 DEF DecidedUnconsumed, ApprovalsOf, QuietApproval, Decisions
  <2>6. \A x \in Outstanding(t) : NamesNextCall(t, x) => NamesNextCall(t, x)'
    <3>1. Outstanding(t) \subseteq Approvals
      BY DEF Outstanding, PendingOf, DecidedUnconsumed, ApprovalsOf
    <3>2. QED
      BY <2>1, <2>2, <3>1 DEF NamesNextCall, MatchesJournal, QuietTask, QuietApproval
  <2>7. RunnerInv(t)'
    <3>1. CASE run[t].pc # "off" /\ run'[t].pc \in QuietPcs
      BY <3>1 DEF RunnerInv, QuietPcs
    <3>2. CASE run'[t].pc = run[t].pc /\ run'[t].using = run[t].using /\ run'[t].at = run[t].at
      <4>1. RunnerInv(t)
        BY <2>1 DEF TaskInv
      <4>2. run[t].pc \in {"resume", "call", "record", "consume"} /\ run[t].using # None =>
              run[t].using \in Approvals
        BY <4>1 DEF RunnerInv, DecidedUnconsumed, ApprovalsOf
      <4>3. \A x \in Approvals : appr'[x].index = appr[x].index /\ ran'[x] = ran[x]
        BY <2>2 DEF QuietApproval
      <4>4. InTurn(t) /\ run'[t].at = run[t].at => InTurn(t)'
        BY <2>1 DEF InTurn, QuietTask
      <4>5. journal'[t].planned = journal[t].planned
            /\ journal'[t].recorded = journal[t].recorded /\ answered'[t] = answered[t]
        BY <2>1 DEF QuietTask
      <4>6. QED
        BY <3>2, <4>1, <4>2, <4>3, <4>4, <4>5, <2>4, <2>5 DEF RunnerInv
    <3>3. QED
      BY <2>1, <3>1, <3>2 DEF QuietTask
  <2>8. ResumeReady(t)' => ResumeReady(t)
    BY <2>1 DEF ResumeReady, QuietTask, QuietPcs
  <2>9. QED
    BY <2>1, <2>3, <2>4, <2>6, <2>7, <2>8 DEF TaskInv, QuietTask, At
<1>3. QED
  BY <1>1, <1>2 DEF ReplayInv

\* The status of no task moves nearer to a claim, or becomes absent.
QuietStatus ==
  \A t \in Tasks :
    /\ status'[t] \in {"queued", "waiting_approval"} => status[t] \in {"queued", "waiting_approval"}
    /\ status'[t] = "absent" => status[t] = "absent"

LEMMA FinishQuiet ==
  ASSUME TypeOK, NEW t, NEW final \in FinalStatuses, Finish(t, final) PROVE QuietStatus
BY DEF TypeOK, Finish, QuietStatus, FinalStatuses, OpenStatuses

LEMMA ResumeQuiet == ASSUME TypeOK, NEW t, ResumeTask(t) PROVE QuietStatus
BY DEF TypeOK, ResumeTask, QuietStatus

LEMMA QuietRows ==
  ASSUME TypeOK, ReplayInv, QuietStatus, UNCHANGED <<journal, appr, run, answered, ran>>
  PROVE  ReplayInv'
<1>1. \A t \in Tasks : QuietTask(t)
  BY DEF QuietStatus, QuietTask
<1>2. \A x \in Approvals : QuietApproval(x)
  BY DEF QuietApproval
<1>3. QED
  BY <1>1, <1>2, QuietStep

LEMMA QuietApprovals ==
  ASSUME TypeOK, ReplayInv, \A x \in Approvals : QuietApproval(x),
         UNCHANGED <<status, journal, run, answered>>
  PROVE  ReplayInv'
<1>1. \A t \in Tasks : QuietTask(t)
  BY DEF QuietTask
<1>2. QED
  BY <1>1, QuietStep

LEMMA ExpireQuiet ==
  ASSUME TypeOK, NEW t, ExpirePending(t), ran' = ran PROVE \A x \in Approvals : QuietApproval(x)
<1>1. appr \in [Approvals -> ApprovalRow]
  BY DEF TypeOK
<1>2. QED
  BY <1>1 DEF ExpirePending, QuietApproval, PendingOf, ApprovalsOf, ApprovalRow

LEMMA ApiReplay ==
  ASSUME TypeOK, ReplayInv, ApiNext, \A t \in Tasks : ~EnqueueInsert(t) PROVE ReplayInv'
<1> USE DEF workerVars, handlerVars, histVars, rowVars
<1>1. ASSUME NEW t \in Tasks, CancelFinish(t) PROVE ReplayInv'
  BY <1>1, FinishQuiet, QuietRows DEF CancelFinish, FinalStatuses
<1>2. ASSUME NEW x \in Approvals, Decide(x) PROVE ReplayInv'
  <2>1. appr \in [Approvals -> ApprovalRow]
    BY DEF TypeOK
  <2>2. ASSUME NEW y \in Approvals PROVE QuietApproval(y)
    BY <1>2, <2>1 DEF Decide, QuietApproval, Decisions, ApprovalRow
  <2>3. QED
    BY <1>2, <2>2, QuietApprovals DEF Decide
<1>3. ASSUME NEW x \in Approvals, DecideResume(x) PROVE ReplayInv'
  BY <1>3, ResumeQuiet, QuietRows DEF DecideResume
<1>4. ASSUME NEW x \in Approvals, DecideFail(x) PROVE ReplayInv'
  BY <1>4, FinishQuiet, QuietRows DEF DecideFail, FinalStatuses
<1>5. ASSUME UNCHANGED <<status, journal, appr, run, answered, ran>> PROVE ReplayInv'
  BY <1>5, QuietRows DEF QuietStatus
<1>6. QED
  BY <1>1, <1>2, <1>3, <1>4, <1>5
     DEF ApiNext, ChangeAgentStatus, EnqueueCheck, CancelRead, CancelFlag, DecideRead,
         BackendCrash

LEMMA JobReplay == ASSUME TypeOK, ReplayInv, JobNext PROVE ReplayInv'
<1> USE DEF workerVars, handlerVars, histVars, rowVars
<1>1. ASSUME NEW x \in Approvals, ExpireDue(x) PROVE ReplayInv'
  <2>1. appr \in [Approvals -> ApprovalRow]
    BY DEF TypeOK
  <2>2. ASSUME NEW y \in Approvals PROVE QuietApproval(y)
    BY <1>1, <2>1 DEF ExpireDue, QuietApproval, ApprovalRow
  <2>3. QED
    BY <1>1, <2>2, QuietApprovals DEF ExpireDue
<1>2. ASSUME NEW t \in Tasks, ReapResume(t) PROVE ReplayInv'
  BY <1>2, ResumeQuiet, QuietRows DEF ReapResume
<1>3. ASSUME NEW t \in Tasks, JobFail(t) PROVE ReplayInv'
  BY <1>3, FinishQuiet, QuietRows DEF JobFail, FinalStatuses
<1>4. ASSUME NEW t \in Tasks, ExpireForTask(t) PROVE ReplayInv'
  BY <1>4, ExpireQuiet, QuietApprovals DEF ExpireForTask
<1>5. ASSUME UNCHANGED <<status, journal, appr, run, answered, ran>> PROVE ReplayInv'
  BY <1>5, QuietRows DEF QuietStatus
<1>6. QED
  BY <1>1, <1>2, <1>3, <1>4, <1>5
     DEF JobNext, ExpireReadTask, ReapPick, ReapReadPending, ReapReadDecided,
         LoseExpireForTask

LEMMA StopQuiet ==
  ASSUME TypeOK, ReplayInv, NEW w, StopRunners(w), UNCHANGED <<status, journal, appr, answered, ran>>
  PROVE  ReplayInv'
<1>1. run \in [Tasks -> Runner]
  BY DEF TypeOK
<1>2. ASSUME NEW t \in Tasks PROVE QuietTask(t)
  <2>1. CASE t \in Runners(w)
    BY <2>1 DEF StopRunners, Runners, NoRun, QuietTask, QuietPcs
  <2>2. CASE t \notin Runners(w)
    BY <2>2 DEF StopRunners, QuietTask
  <2>3. QED
    BY <2>1, <2>2
<1>3. \A x \in Approvals : QuietApproval(x)
  BY DEF QuietApproval
<1>4. QED
  BY <1>2, <1>3, QuietStep

LEMMA WorkerReplay ==
  ASSUME TypeOK, ReplayInv, WorkerNext, \A w \in Workers, t \in Tasks : ~Claim(w, t)
  PROVE  ReplayInv'
<1> USE DEF workerVars, handlerVars, histVars, rowVars
<1>1. ASSUME NEW w \in Workers, Close(w) \/ WorkerCrash(w) PROVE ReplayInv'
  BY <1>1, StopQuiet DEF Close, WorkerCrash
<1>2. ASSUME NEW w \in Workers, NEW t \in Tasks, CloseTask(w, t) PROVE ReplayInv'
  <2>1. QuietStatus
    BY <1>2, FinishQuiet DEF CloseTask, FinalStatuses, QuietStatus
  <2>2. QED
    BY <1>2, <2>1, QuietRows DEF CloseTask
<1>3. ASSUME NEW t \in Tasks, HardStop(t) PROVE ReplayInv'
  <2>1. run \in [Tasks -> Runner]
    BY DEF TypeOK
  <2>2. ASSUME NEW u \in Tasks PROVE QuietTask(u)
    BY <1>3, <2>1 DEF HardStop, QuietTask, Runner
  <2>3. \A x \in Approvals : QuietApproval(x)
    BY <1>3 DEF HardStop, QuietApproval
  <2>4. QED
    BY <2>2, <2>3, QuietStep
<1>4. ASSUME NEW t \in Tasks, SweepFinish(t) PROVE ReplayInv'
  BY <1>4, FinishQuiet, QuietRows DEF SweepFinish, FinalStatuses
<1>5. ASSUME UNCHANGED <<status, journal, appr, run, answered, ran>> PROVE ReplayInv'
  BY <1>5, QuietRows DEF QuietStatus
<1>6. QED
  BY <1>1, <1>2, <1>3, <1>4, <1>5
     DEF WorkerNext, Purge, Beat, GoStale, SweepSelect, SweepCrash

-----------------------------------------------------------------------------
(* Steps that move a task along: each is looked at for that task only.      *)

LEMMA LocalStep ==
  ASSUME ReplayInv, NEW t \in Tasks, TaskInv(t)', \A x \in Approvals : ApprovalInv(x)',
         \A u \in Tasks : u # t => /\ status'[u] = status[u] /\ journal'[u] = journal[u]
                                   /\ run'[u] = run[u] /\ answered'[u] = answered[u],
         \A x \in Approvals : \/ appr'[x] = appr[x] /\ ran'[x] = ran[x]
                              \/ /\ appr[x].status = "absent" \/ appr[x].task = t
                                 /\ appr'[x].task = t
  PROVE  ReplayInv'
<1>1. ASSUME NEW u \in Tasks, u # t PROVE TaskInv(u)'
  <2>1. SameTask(u)
    BY <1>1 DEF SameTask
  <2>2. QED
    BY <2>1, FrameTask DEF ReplayInv
<1>2. QED
  BY <1>1 DEF ReplayInv

LEMMA GoFacts ==
  ASSUME TypeOK, NEW t \in Tasks, NEW pc, Go(t, pc)
  PROVE  /\ run'[t].pc = pc /\ run'[t].using = run[t].using /\ run'[t].at = run[t].at
         /\ \A u \in Tasks : u # t => run'[u] = run[u]
<1>1. run \in [Tasks -> Runner]
  BY DEF TypeOK
<1>2. QED
  BY <1>1 DEF Go, Runner

LEMMA GoQuiet ==
  ASSUME TypeOK, ReplayInv, NEW t \in Tasks, run[t].pc # "off", NEW pc \in QuietPcs, Go(t, pc),
         UNCHANGED <<status, journal, appr, answered, ran>>
  PROVE  ReplayInv'
<1>1. \A u \in Tasks : QuietTask(u)
  BY GoFacts DEF QuietTask
<1>2. \A x \in Approvals : QuietApproval(x)
  BY DEF QuietApproval
<1>3. QED
  BY <1>1, <1>2, QuietStep

LEMMA EndQuiet ==
  ASSUME TypeOK, ReplayInv, NEW t \in Tasks, run[t].pc # "off", run' = [run EXCEPT ![t] = NoRun],
         QuietStatus, \A x \in Approvals : QuietApproval(x), UNCHANGED <<journal, answered>>
  PROVE  ReplayInv'
<1>1. run \in [Tasks -> Runner]
  BY DEF TypeOK
<1>2. \A u \in Tasks : QuietTask(u)
  BY <1>1 DEF QuietTask, QuietStatus, NoRun, QuietPcs
<1>3. QED
  BY <1>2, QuietStep

\* Approvals and their use stay typed as they were when neither changes.
LEMMA SameApprovals ==
  ASSUME ReplayInv, UNCHANGED <<appr, ran>> PROVE \A x \in Approvals : ApprovalInv(x)'
BY DEF ReplayInv, ApprovalInv

LEMMA InsertReplay ==
  ASSUME TypeOK, ReplayInv, InsertInv, NEW t \in Tasks, EnqueueInsert(t) PROVE ReplayInv'
<1> USE DEF workerVars, handlerVars, histVars, rowVars
<1>1. UNCHANGED <<journal, appr, run, answered, ran>> /\ status[t] = "absent"
  BY DEF EnqueueInsert, InsertInv
<1>2. TaskInv(t)
  BY DEF ReplayInv
<1>3. ApprovalsOf(t) = {} /\ run[t].pc = "off"
  BY <1>1, <1>2 DEF TaskInv, At
<1>4. ApprovalsOf(t)' = {} /\ Outstanding(t)' = {}
  BY <1>1, <1>3 DEF ApprovalsOf, Outstanding, PendingOf, DecidedUnconsumed
<1>5. RunnerInv(t)'
  BY <1>1, <1>3 DEF RunnerInv
<1>6. status' = status \/ status'[t] = "queued"
  BY DEF EnqueueInsert, TypeOK
<1>7. TaskInv(t)'
  BY <1>1, <1>2, <1>3, <1>4, <1>5, <1>6 DEF TaskInv, At
<1>8. \A u \in Tasks : u # t => status'[u] = status[u]
  BY DEF EnqueueInsert, TypeOK
<1>9. QED
  BY <1>1, <1>7, <1>8, SameApprovals, LocalStep

LEMMA ClaimReplay ==
  ASSUME TypeOK, ReplayInv, NEW w \in Workers, NEW t \in Tasks, Claim(w, t) PROVE ReplayInv'
<1> USE DEF workerVars, handlerVars, histVars, rowVars
<1>1. UNCHANGED <<journal, appr, answered, ran>> /\ status[t] = "queued"
  BY DEF Claim
<1>2. TaskInv(t)
  BY DEF ReplayInv
<1>3. status'[t] = "running" /\ run'[t].pc = "start" /\ run'[t].using = None
  BY DEF Claim, TypeOK, NoRun
<1>4. /\ ApprovalsOf(t)' = ApprovalsOf(t) /\ Outstanding(t)' = Outstanding(t)
      /\ \A x \in Outstanding(t) : NamesNextCall(t, x) => NamesNextCall(t, x)'
  BY <1>1 DEF ApprovalsOf, Outstanding, PendingOf, DecidedUnconsumed, NamesNextCall,
     MatchesJournal
<1>5. ResumeReady(t)
  BY <1>1 DEF ResumeReady
<1>6. RunnerInv(t)'
  BY <1>3 DEF RunnerInv
<1>7. TaskInv(t)'
  BY <1>1, <1>2, <1>3, <1>4, <1>5, <1>6 DEF TaskInv
<1>8. \A u \in Tasks : u # t => status'[u] = status[u] /\ run'[u] = run[u]
  BY DEF Claim, TypeOK
<1>9. QED
  BY <1>1, <1>7, <1>8, SameApprovals, LocalStep

LEMMA SameSets ==
  ASSUME NEW t \in Tasks, UNCHANGED appr
  PROVE  /\ ApprovalsOf(t)' = ApprovalsOf(t)
         /\ DecidedUnconsumed(t)' = DecidedUnconsumed(t)
         /\ Outstanding(t)' = Outstanding(t)
BY DEF ApprovalsOf, Outstanding, PendingOf, DecidedUnconsumed

\* No row of a task is waiting for a runner while its runner is at work.
LEMMA AtWork ==
  ASSUME ReplayInv, NEW t \in Tasks, run[t].pc # "off"
  PROVE  /\ status[t] \notin {"absent", "queued", "waiting_approval"}
         /\ TaskInv(t) /\ RunnerInv(t)
BY DEF ReplayInv, TaskInv, At

LEMMA RunStartReplay ==
  ASSUME TypeOK, ReplayInv, NEW t \in Tasks, RunStart(t) PROVE ReplayInv'
<1> USE DEF workerVars, handlerVars, histVars, rowVars
<1>1. UNCHANGED <<status, journal, appr, answered, ran>> /\ run[t].pc = "start"
  BY DEF RunStart, At
<1>2. run \in [Tasks -> Runner]
  BY DEF TypeOK
<1>3. TaskInv(t) /\ RunnerInv(t) /\ status[t] \notin {"absent", "queued", "waiting_approval"}
  BY <1>1, AtWork
<1>4. PICK gated \in GatedSets :
        \/ \E x \in DecidedUnconsumed(t) :
             run' = [run EXCEPT ![t].pc = "resume", ![t].using = x,
                                ![t].at = appr[x].index, ![t].gated = gated]
        \/ /\ DecidedUnconsumed(t) = {}
           /\ run' = [run EXCEPT ![t].pc = IF journal[t].planned THEN "fail" ELSE "plan",
                                 ![t].gated = gated]
  BY DEF RunStart
<1>5. \A u \in Tasks : u # t => run'[u] = run[u]
  BY <1>2, <1>4
<1>6. ASSUME NEW x \in DecidedUnconsumed(t),
             run' = [run EXCEPT ![t].pc = "resume", ![t].using = x,
                                ![t].at = appr[x].index, ![t].gated = gated]
      PROVE  TaskInv(t)'
  <2>1. run'[t].pc = "resume" /\ run'[t].using = x /\ run'[t].at = appr[x].index
    BY <1>2, <1>6 DEF Runner
  <2>2. x \in Approvals /\ x # None
    BY <1>6, NoneAssumption DEF DecidedUnconsumed, ApprovalsOf
  <2>3. RunnerInv(t)'
    BY <1>1, <2>1, <2>2, <1>6, SameSets DEF RunnerInv
  <2>4. ResumeReady(t) /\ \A y \in Outstanding(t) : NamesNextCall(t, y) => NamesNextCall(t, y)'
    BY <1>1 DEF ResumeReady, NamesNextCall, MatchesJournal
  <2>5. QED
    BY <1>1, <1>3, <2>3, <2>4, SameSets DEF TaskInv
<1>7. ASSUME DecidedUnconsumed(t) = {},
             run' = [run EXCEPT ![t].pc = IF journal[t].planned THEN "fail" ELSE "plan",
                                ![t].gated = gated]
      PROVE  TaskInv(t)'
  <2>1. run'[t].using = run[t].using
        /\ run'[t].pc = IF journal[t].planned THEN "fail" ELSE "plan"
    BY <1>2, <1>7 DEF Runner
  <2>2. run'[t].pc = "plan" => Outstanding(t) = {}
    BY <1>3, <2>1 DEF TaskInv, Outstanding, PendingOf, DecidedUnconsumed
  <2>3. run[t].using = None
    BY <1>1, <1>3 DEF RunnerInv
  <2>4. RunnerInv(t)'
    BY <1>1, <2>1, <2>2, <2>3, SameSets DEF RunnerInv
  <2>5. ~ResumeReady(t)'
    BY <1>1, <1>3, <2>1 DEF ResumeReady
  <2>6. QED
    BY <1>1, <1>3, <2>4, <2>5, SameSets DEF TaskInv
<1>8. QED
  BY <1>1, <1>4, <1>5, <1>6, <1>7, SameApprovals, LocalStep

LEMMA PlanReplay ==
  ASSUME TypeOK, ReplayInv, NEW t \in Tasks, Plan(t) PROVE ReplayInv'
<1> USE DEF workerVars, handlerVars, histVars, rowVars
<1>1. UNCHANGED <<status, appr, answered, ran>> /\ run[t].pc = "plan" /\ Go(t, "loop")
  BY DEF Plan, At
<1>2. TaskInv(t) /\ RunnerInv(t) /\ status[t] \notin {"absent", "queued", "waiting_approval"}
  BY <1>1, AtWork
<1>3. journal \in [Tasks -> JournalRow]
  BY DEF TypeOK
<1>4. journal'[t].planned /\ \A u \in Tasks : u # t => journal'[u] = journal[u]
  BY <1>3 DEF Plan, JournalRow
<1>5. run'[t].pc = "loop" /\ run'[t].using = None /\ Outstanding(t) = {}
  BY <1>1, <1>2, GoFacts DEF RunnerInv
<1>6. RunnerInv(t)'
  BY <1>1, <1>4, <1>5, SameSets DEF RunnerInv
<1>7. TaskInv(t)'
  BY <1>1, <1>2, <1>4, <1>5, <1>6, SameSets DEF TaskInv
<1>8. QED
  BY <1>1, <1>4, <1>7, GoFacts, SameApprovals, LocalStep

LEMMA ResumeReplay ==
  ASSUME TypeOK, ReplayInv, NEW t \in Tasks, Resume(t) PROVE ReplayInv'
<1> USE DEF workerVars, handlerVars, histVars, rowVars
<1>1. UNCHANGED <<status, journal, appr, answered, ran>> /\ run[t].pc = "resume"
  BY DEF Resume, At
<1>2. TaskInv(t) /\ RunnerInv(t) /\ status[t] \notin {"absent", "queued", "waiting_approval"}
  BY <1>1, AtWork
<1>3. PICK pc \in {"call"} \cup QuietPcs :
        Go(t, pc) /\ (pc = "call" => MatchesJournal(t, run[t].using))
  BY DEF Resume, QuietPcs
<1>4. CASE pc \in QuietPcs
  BY <1>1, <1>3, <1>4, GoQuiet
<1>5. CASE pc = "call"
  <2>1. run'[t].pc = "call" /\ run'[t].using = run[t].using /\ run'[t].at = run[t].at
        /\ \A u \in Tasks : u # t => run'[u] = run[u]
    BY <1>3, <1>5, GoFacts
  <2>2. /\ run[t].using # None /\ run[t].using \in DecidedUnconsumed(t)
        /\ run[t].at = appr[run[t].using].index
    BY <1>1, <1>2 DEF RunnerInv
  <2>3. NamesNextCall(t, run[t].using)
    BY <1>1, <1>2, <2>2 DEF TaskInv, ResumeReady, Outstanding
  <2>4. RunnerInv(t)'
    BY <1>1, <2>1, <2>2, <2>3, SameSets DEF RunnerInv, InTurn, NamesNextCall, MatchesJournal
  <2>5. ~ResumeReady(t)'
    BY <1>1, <1>2, <2>1 DEF ResumeReady
  <2>6. TaskInv(t)'
    BY <1>1, <1>2, <2>4, <2>5, SameSets DEF TaskInv
  <2>7. QED
    BY <1>1, <2>1, <2>6, SameApprovals, LocalStep
<1>6. QED
  BY <1>3, <1>4, <1>5

LEMMA LoopTopReplay ==
  ASSUME TypeOK, ReplayInv, NEW t \in Tasks, LoopTop(t) PROVE ReplayInv'
<1> USE DEF workerVars, handlerVars, histVars, rowVars
<1>1. UNCHANGED <<status, journal, appr, answered, ran>> /\ run[t].pc = "loop"
  BY DEF LoopTop, At
<1>2. TaskInv(t) /\ RunnerInv(t) /\ status[t] \notin {"absent", "queued", "waiting_approval"}
  BY <1>1, AtWork
<1>3. PICK pc \in {"llm"} \cup QuietPcs : Go(t, pc)
  BY DEF LoopTop, QuietPcs
<1>4. CASE pc \in QuietPcs
  BY <1>1, <1>3, <1>4, GoQuiet
<1>5. CASE pc = "llm"
  <2>1. run'[t].pc = "llm" /\ run'[t].using = run[t].using
        /\ \A u \in Tasks : u # t => run'[u] = run[u]
    BY <1>3, <1>5, GoFacts
  <2>2. RunnerInv(t)'
    BY <1>1, <1>2, <2>1, SameSets DEF RunnerInv
  <2>3. ~ResumeReady(t)'
    BY <1>1, <1>2, <2>1 DEF ResumeReady
  <2>4. TaskInv(t)'
    BY <1>1, <1>2, <2>2, <2>3, SameSets DEF TaskInv
  <2>5. QED
    BY <1>1, <2>1, <2>4, SameApprovals, LocalStep
<1>6. QED
  BY <1>3, <1>4, <1>5

LEMMA TurnReplay ==
  ASSUME TypeOK, ReplayInv, NEW t \in Tasks, Turn(t) PROVE ReplayInv'
<1> USE DEF workerVars, handlerVars, histVars, rowVars
<1>1. UNCHANGED <<status, appr, ran>> /\ run[t].pc = "llm"
  BY DEF Turn, At
<1>2. TaskInv(t) /\ RunnerInv(t) /\ status[t] \notin {"absent", "queued", "waiting_approval"}
  BY <1>1, AtWork
<1>3. PICK calls \in CallSeqs :
        /\ journal' = [journal EXCEPT ![t].turns = @ + 1, ![t].calls = calls,
                                      ![t].recorded = 0]
        /\ run' = [run EXCEPT ![t].pc = IF calls = <<>> THEN "final" ELSE "call",
                              ![t].at = 0]
  BY DEF Turn
<1>4. journal \in [Tasks -> JournalRow] /\ run \in [Tasks -> Runner] /\ answered \in [Tasks -> Nat]
  BY DEF TypeOK
<1>5. /\ journal'[t].planned = journal[t].planned /\ journal'[t].turns = journal[t].turns + 1
      /\ journal'[t].calls = calls /\ journal'[t].recorded = 0
      /\ \A u \in Tasks : u # t => journal'[u] = journal[u]
  BY <1>3, <1>4 DEF JournalRow
<1>6. /\ run'[t].pc = IF calls = <<>> THEN "final" ELSE "call"
      /\ run'[t].at = 0 /\ run'[t].using = run[t].using
      /\ \A u \in Tasks : u # t => run'[u] = run[u]
  BY <1>3, <1>4 DEF Runner
<1>7. answered'[t] = 0 /\ \A u \in Tasks : u # t => answered'[u] = answered[u]
  BY <1>4 DEF Turn
<1>8. journal[t].planned /\ run[t].using = None /\ Outstanding(t) = {} /\ journal[t].turns \in Nat
  BY <1>1, <1>2, <1>4 DEF RunnerInv, JournalRow
<1>9. calls # <<>> => Len(calls) > 0
  BY CallSeqsType
<1>10. RunnerInv(t)'
  BY <1>1, <1>5, <1>6, <1>7, <1>8, <1>9, SameSets DEF RunnerInv, InTurn
<1>11. TaskInv(t)'
  BY <1>1, <1>2, <1>5, <1>8, <1>10, SameSets DEF TaskInv
<1>12. QED
  BY <1>1, <1>5, <1>6, <1>7, <1>11, SameApprovals, LocalStep

LEMMA RefusedReplay ==
  ASSUME TypeOK, ReplayInv, NEW t \in Tasks, CallRefused(t) PROVE ReplayInv'
<1> USE DEF workerVars, handlerVars, histVars, rowVars
<1>1. UNCHANGED <<status, journal, appr, ran>> /\ run[t].pc = "call" /\ Go(t, "record")
  BY DEF CallRefused, At
<1>2. TaskInv(t) /\ RunnerInv(t) /\ status[t] \notin {"absent", "queued", "waiting_approval"}
  BY <1>1, AtWork
<1>3. answered'[t] = answered[t] + 1 /\ \A u \in Tasks : u # t => answered'[u] = answered[u]
  BY DEF CallRefused, TypeOK
<1>4. run'[t].pc = "record" /\ run'[t].using = run[t].using /\ run'[t].at = run[t].at
      /\ \A u \in Tasks : u # t => run'[u] = run[u]
  BY <1>1, GoFacts
<1>5. RunnerInv(t)'
  BY <1>1, <1>2, <1>3, <1>4, SameSets DEF RunnerInv, InTurn
<1>6. ~ResumeReady(t)'
  BY <1>1, <1>2, <1>4 DEF ResumeReady
<1>7. TaskInv(t)'
  BY <1>1, <1>2, <1>5, <1>6, SameSets DEF TaskInv
<1>8. QED
  BY <1>1, <1>3, <1>4, <1>7, SameApprovals, LocalStep

LEMMA RequestReplay ==
  ASSUME TypeOK, ReplayInv, NEW t \in Tasks, CallRequest(t) PROVE ReplayInv'
<1> USE DEF workerVars, handlerVars, histVars, rowVars
<1>1. /\ UNCHANGED <<status, journal, answered, ran>>
      /\ run[t].pc = "call" /\ run[t].using = None /\ Go(t, "park")
  BY DEF CallRequest, At
<1>2. TaskInv(t) /\ RunnerInv(t) /\ status[t] \notin {"absent", "queued", "waiting_approval"}
  BY <1>1, AtWork
<1>3. appr \in [Approvals -> ApprovalRow] /\ ran \in [Approvals -> Nat]
  BY DEF TypeOK
<1>4. PICK x \in Approvals :
        /\ appr[x].status = "absent"
        /\ appr' = [appr EXCEPT ![x] = [status |-> "pending", task |-> t, tool |-> ToolAt(t),
                                        index |-> run[t].at, consumed |-> FALSE]]
  BY DEF CallRequest
<1>5. /\ appr'[x].status = "pending" /\ appr'[x].task = t /\ appr'[x].tool = ToolAt(t)
      /\ appr'[x].index = run[t].at /\ ~appr'[x].consumed
      /\ \A y \in Approvals : y # x => appr'[y] = appr[y]
  BY <1>3, <1>4
<1>6. ran[x] = 0
  <2>1. ApprovalInv(x)
    BY DEF ReplayInv
  <2>2. QED
    BY <1>3, <1>4, <2>1 DEF ApprovalInv
<1>7. run'[t].pc = "park" /\ \A u \in Tasks : u # t => run'[u] = run[u]
  BY <1>1, GoFacts
<1>8. /\ Outstanding(t) = {} /\ InTurn(t)
      /\ run[t].at = answered[t] /\ journal[t].recorded = answered[t]
  BY <1>1, <1>2 DEF RunnerInv
<1>9. Outstanding(t)' = {x}
  <2>1. \A y \in Approvals : y # x => (y \in Outstanding(t)' <=> y \in Outstanding(t))
    BY <1>5 DEF Outstanding, PendingOf, DecidedUnconsumed, ApprovalsOf
  <2>2. x \in Outstanding(t)'
    BY <1>5 DEF Outstanding, PendingOf, ApprovalsOf
  <2>3. Outstanding(t)' \subseteq Approvals
    BY DEF Outstanding, PendingOf, DecidedUnconsumed, ApprovalsOf
  <2>4. QED
    BY <1>8, <2>1, <2>2, <2>3
<1>10. NamesNextCall(t, x)'
  BY <1>1, <1>5, <1>6, <1>8 DEF NamesNextCall, MatchesJournal, InTurn, ToolAt
<1>11. RunnerInv(t)'
  BY <1>7 DEF RunnerInv
<1>12. TaskInv(t)'
  BY <1>1, <1>2, <1>8, <1>9, <1>10, <1>11 DEF TaskInv, InTurn
<1>13. ASSUME NEW y \in Approvals PROVE ApprovalInv(y)'
  <2>1. ApprovalInv(y)
    BY DEF ReplayInv
  <2>2. CASE y = x
    BY <1>1, <1>5, <1>6, <2>2 DEF ApprovalInv
  <2>3. CASE y # x
    BY <1>1, <1>5, <2>1, <2>3 DEF ApprovalInv
  <2>4. QED
    BY <2>2, <2>3
<1>14. QED
  BY <1>1, <1>4, <1>5, <1>7, <1>12, <1>13, LocalStep

LEMMA ExecuteReplay ==
  ASSUME TypeOK, ReplayInv, NEW t \in Tasks, CallExecute(t) PROVE ReplayInv'
<1> USE DEF workerVars, handlerVars, histVars, rowVars
<1> DEFINE x == run[t].using
<1>1. /\ UNCHANGED <<status, journal, appr>> /\ run[t].pc = "call" /\ Go(t, "record")
      /\ x # None => appr[x].status # "rejected"
      /\ ran' = IF x = None THEN ran ELSE [ran EXCEPT ![x] = @ + 1]
  BY DEF CallExecute, At
<1>2. TaskInv(t) /\ RunnerInv(t) /\ status[t] \notin {"absent", "queued", "waiting_approval"}
  BY <1>1, AtWork
<1>3. ran \in [Approvals -> Nat]
  BY DEF TypeOK
<1>4. answered'[t] = answered[t] + 1 /\ \A u \in Tasks : u # t => answered'[u] = answered[u]
  BY DEF CallExecute, TypeOK
<1>5. run'[t].pc = "record" /\ run'[t].using = run[t].using /\ run'[t].at = run[t].at
      /\ \A u \in Tasks : u # t => run'[u] = run[u]
  BY <1>1, GoFacts
<1>6. x # None => x \in DecidedUnconsumed(t) /\ ran[x] = 0
  BY <1>1, <1>2 DEF RunnerInv
<1>7. x # None => /\ x \in Approvals /\ appr[x].task = t /\ appr[x].status = "approved"
                  /\ ran'[x] = 1 /\ \A y \in Approvals : y # x => ran'[y] = ran[y]
  BY <1>1, <1>3, <1>6 DEF DecidedUnconsumed, ApprovalsOf, Decisions
<1>8. RunnerInv(t)'
  BY <1>1, <1>2, <1>4, <1>5, SameSets DEF RunnerInv, InTurn
<1>9. ~ResumeReady(t)'
  BY <1>1, <1>2, <1>5 DEF ResumeReady
<1>10. TaskInv(t)'
  BY <1>1, <1>2, <1>8, <1>9, SameSets DEF TaskInv
<1>11. ASSUME NEW y \in Approvals PROVE ApprovalInv(y)'
  <2>1. ApprovalInv(y)
    BY DEF ReplayInv
  <2>2. CASE y = x /\ x # None
    BY <1>1, <1>7, <2>1, <2>2 DEF ApprovalInv
  <2>3. CASE y # x \/ x = None
    BY <1>1, <1>7, <2>1, <2>3 DEF ApprovalInv
  <2>4. QED
    BY <2>2, <2>3
<1>12. \A y \in Approvals : \/ appr'[y] = appr[y] /\ ran'[y] = ran[y]
                            \/ appr[y].task = t /\ appr'[y].task = t
  BY <1>1, <1>7
<1>13. QED
  BY <1>1, <1>4, <1>5, <1>10, <1>11, <1>12, LocalStep

\* After the call the runner is at the next call of the turn, without approval, or
\* back at the top of the loop.
LEMMA NextCallFacts ==
  ASSUME TypeOK, NEW t \in Tasks, run' = NextCall(t)
  PROVE  /\ run'[t].pc = IF run[t].at + 1 < Len(journal[t].calls) THEN "call" ELSE "loop"
         /\ run'[t].at = run[t].at + 1 /\ run'[t].using = None
         /\ \A u \in Tasks : u # t => run'[u] = run[u]
<1>1. run \in [Tasks -> Runner]
  BY DEF TypeOK
<1>2. QED
  BY <1>1 DEF NextCall, Runner

LEMMA RecordReplay ==
  ASSUME TypeOK, ReplayInv, NEW t \in Tasks, RecordCall(t) PROVE ReplayInv'
<1> USE DEF workerVars, handlerVars, histVars, rowVars
<1>1. UNCHANGED <<status, appr, answered, ran>> /\ run[t].pc = "record"
  BY DEF RecordCall, At
<1>2. TaskInv(t) /\ RunnerInv(t) /\ status[t] \notin {"absent", "queued", "waiting_approval"}
  BY <1>1, AtWork
<1>3. journal \in [Tasks -> JournalRow]
  BY DEF TypeOK
<1>4. /\ journal'[t].planned = journal[t].planned /\ journal'[t].turns = journal[t].turns
      /\ journal'[t].calls = journal[t].calls /\ journal'[t].recorded = journal[t].recorded + 1
      /\ \A u \in Tasks : u # t => journal'[u] = journal[u]
  BY <1>3 DEF RecordCall, JournalRow
<1>5. /\ InTurn(t) /\ run[t].at + 1 = answered[t] /\ journal[t].recorded = run[t].at
      /\ run[t].using = None => Outstanding(t) = {}
      /\ run[t].using # None => run[t].using \in DecidedUnconsumed(t)
  BY <1>1, <1>2 DEF RunnerInv
<1>6. CASE run[t].using = None
  <2>1. run' = NextCall(t)
    BY <1>6 DEF RecordCall
  <2>2. RunnerInv(t)'
    BY <1>1, <1>4, <1>5, <1>6, <2>1, NextCallFacts, SameSets DEF RunnerInv, InTurn
  <2>3. ~ResumeReady(t)'
    BY <1>1, <1>2, <2>1, NextCallFacts DEF ResumeReady
  <2>4. TaskInv(t)'
    BY <1>1, <1>2, <1>4, <2>2, <2>3, SameSets DEF TaskInv
  <2>5. QED
    BY <1>1, <1>4, <2>1, <2>4, NextCallFacts, SameApprovals, LocalStep
<1>7. CASE run[t].using # None
  <2>1. run'[t].pc = "consume" /\ run'[t].using = run[t].using /\ run'[t].at = run[t].at
        /\ \A u \in Tasks : u # t => run'[u] = run[u]
    BY <1>7, GoFacts DEF RecordCall
  <2>2. RunnerInv(t)'
    BY <1>1, <1>4, <1>5, <1>7, <2>1, SameSets DEF RunnerInv, InTurn
  <2>3. ~ResumeReady(t)'
    BY <1>1, <1>2, <2>1 DEF ResumeReady
  <2>4. TaskInv(t)'
    BY <1>1, <1>2, <1>4, <2>2, <2>3, SameSets DEF TaskInv
  <2>5. QED
    BY <1>1, <1>4, <2>1, <2>4, SameApprovals, LocalStep
<1>8. QED
  BY <1>6, <1>7

LEMMA ConsumeReplay ==
  ASSUME TypeOK, ReplayInv, NEW t \in Tasks, MarkConsumed(t) PROVE ReplayInv'
<1> USE DEF workerVars, handlerVars, histVars, rowVars
<1> DEFINE x == run[t].using
<1>1. /\ UNCHANGED <<status, journal, answered, ran>> /\ run[t].pc = "consume"
      /\ run' = NextCall(t) /\ appr' = [appr EXCEPT ![x].consumed = TRUE]
  BY DEF MarkConsumed, At
<1>2. TaskInv(t) /\ RunnerInv(t) /\ status[t] \notin {"absent", "queued", "waiting_approval"}
  BY <1>1, AtWork
<1>3. appr \in [Approvals -> ApprovalRow]
  BY DEF TypeOK
<1>4. /\ x \in DecidedUnconsumed(t) /\ InTurn(t)
      /\ run[t].at + 1 = answered[t] /\ journal[t].recorded = answered[t]
  BY <1>1, <1>2 DEF RunnerInv
<1>5. x \in Approvals /\ appr[x].task = t /\ appr[x].status \in Decisions
  BY <1>4 DEF DecidedUnconsumed, ApprovalsOf
<1>6. /\ appr'[x].consumed /\ appr'[x].status = appr[x].status /\ appr'[x].task = t
      /\ \A y \in Approvals : y # x => appr'[y] = appr[y]
  BY <1>1, <1>3, <1>5 DEF ApprovalRow
<1> HIDE DEF x
<1>7. ApprovalsOf(t)' = ApprovalsOf(t)
  BY <1>5, <1>6 DEF ApprovalsOf
<1>8. Outstanding(t)' = {}
  <2>1. \A y \in Outstanding(t) : y = x
    BY <1>2, <1>4 DEF TaskInv, Outstanding
  <2>2. x \notin Outstanding(t)'
    BY <1>5, <1>6 DEF Outstanding, PendingOf, DecidedUnconsumed, Decisions
  <2>3. \A y \in Approvals : y # x => (y \in Outstanding(t)' <=> y \in Outstanding(t))
    BY <1>6 DEF Outstanding, PendingOf, DecidedUnconsumed, ApprovalsOf
  <2>4. Outstanding(t)' \subseteq Approvals
    BY DEF Outstanding, PendingOf, DecidedUnconsumed, ApprovalsOf
  <2>5. QED
    BY <2>1, <2>2, <2>3, <2>4
<1>9. RunnerInv(t)'
  BY <1>1, <1>4, <1>8, NextCallFacts DEF RunnerInv, InTurn
<1>10. ~ResumeReady(t)'
  BY <1>1, <1>2, NextCallFacts DEF ResumeReady
<1>11. TaskInv(t)'
  BY <1>1, <1>2, <1>7, <1>8, <1>9, <1>10 DEF TaskInv
<1>12. ASSUME NEW y \in Approvals PROVE ApprovalInv(y)'
  <2>1. ApprovalInv(y)
    BY DEF ReplayInv
  <2>2. CASE y = x
    BY <1>1, <1>5, <1>6, <2>1, <2>2 DEF ApprovalInv, Decisions
  <2>3. CASE y # x
    BY <1>1, <1>6, <2>1, <2>3 DEF ApprovalInv
  <2>4. QED
    BY <2>2, <2>3
<1>13. QED
  BY <1>1, <1>5, <1>6, <1>11, <1>12, NextCallFacts, LocalStep

LEMMA ParkReplay ==
  ASSUME TypeOK, ReplayInv, NEW t \in Tasks, Park(t) PROVE ReplayInv'
<1> USE DEF workerVars, handlerVars, histVars, rowVars
<1>1. UNCHANGED <<journal, appr, answered, ran>> /\ run[t].pc = "park"
  BY DEF Park, At
<1>2. TaskInv(t)
  BY <1>1, AtWork
<1>3. CASE status[t] = "running"
  <2>1. run'[t].pc = "off" /\ status'[t] = "waiting_approval"
        /\ \A u \in Tasks : u # t => run'[u] = run[u] /\ status'[u] = status[u]
    BY <1>3 DEF Park, TypeOK, NoRun
  <2>2. ResumeReady(t) /\ \A y \in Outstanding(t) : NamesNextCall(t, y) => NamesNextCall(t, y)'
    BY <1>1 DEF ResumeReady, NamesNextCall, MatchesJournal
  <2>3. RunnerInv(t)'
    BY <2>1 DEF RunnerInv
  <2>4. TaskInv(t)'
    BY <1>1, <1>2, <2>1, <2>2, <2>3, SameSets DEF TaskInv, At
  <2>5. QED
    BY <1>1, <2>1, <2>4, SameApprovals, LocalStep
<1>4. CASE status[t] # "running"
  BY <1>1, <1>4, GoQuiet DEF Park, QuietPcs
<1>5. QED
  BY <1>3, <1>4

LEMMA RunnerReplay == ASSUME TypeOK, ReplayInv, RunnerNext PROVE ReplayInv'
<1> USE DEF workerVars, handlerVars, histVars, rowVars
<1>1. ASSUME NEW t \in Tasks, Unpark(t) PROVE ReplayInv'
  <2>1. \A x \in Approvals : QuietApproval(x)
    BY <1>1, ExpireQuiet DEF Unpark
  <2>2. QED
    BY <1>1, <2>1, EndQuiet DEF Unpark, At, QuietStatus
<1>2. ASSUME NEW t \in Tasks, FinalCheck(t) \/ Critique(t) PROVE ReplayInv'
  <2>1. PICK pc \in QuietPcs : Go(t, pc)
    BY <1>2 DEF FinalCheck, Critique, QuietPcs
  <2>2. QED
    BY <1>2, <2>1, GoQuiet DEF FinalCheck, Critique, At
<1>3. ASSUME NEW t \in Tasks, Report(t) PROVE ReplayInv'
  <2>1. journal \in [Tasks -> JournalRow]
    BY DEF TypeOK
  <2>2. ASSUME NEW u \in Tasks PROVE QuietTask(u)
    BY <1>3, <2>1, GoFacts DEF Report, SetPhaseOutput, QuietTask, QuietPcs, JournalRow, At
  <2>3. \A x \in Approvals : QuietApproval(x)
    BY <1>3 DEF Report, QuietApproval
  <2>4. QED
    BY <2>2, <2>3, QuietStep
<1>4. ASSUME NEW t \in Tasks, Complete(t) \/ EndCancelled(t) \/ EndFailed(t) PROVE ReplayInv'
  <2>1. PICK final \in FinalStatuses, pc \in QuietPcs \ {"off"} : EndRun(t, pc, final)
    BY <1>4 DEF Complete, EndCancelled, EndFailed, FinalStatuses, QuietPcs
  <2>2. QuietStatus
    BY <2>1, FinishQuiet DEF EndRun
  <2>3. \A x \in Approvals : QuietApproval(x)
    BY <2>1 DEF EndRun, QuietApproval
  <2>4. QED
    BY <2>1, <2>2, <2>3, EndQuiet DEF EndRun, At
<1>5. ASSUME NEW t \in Tasks, RunError(t) PROVE ReplayInv'
  BY <1>5, GoQuiet DEF RunError, QuietPcs
<1>6. ASSUME NEW t \in Tasks, RunLost(t) PROVE ReplayInv'
  <2>1. \A x \in Approvals : QuietApproval(x)
    BY <1>6 DEF RunLost, QuietApproval
  <2>2. QED
    BY <1>6, <2>1, EndQuiet DEF RunLost, At, QuietStatus
<1>7. QED
  BY <1>1, <1>2, <1>3, <1>4, <1>5, <1>6, RunStartReplay, PlanReplay, ResumeReplay,
     LoopTopReplay, TurnReplay, RefusedReplay, RequestReplay, ExecuteReplay, RecordReplay,
     ConsumeReplay, ParkReplay DEF RunnerNext, RunnerStep

-----------------------------------------------------------------------------
(* The theorems.                                                            *)

LEMMA InitReplay == Init => ReplayInv
<1> SUFFICES ASSUME Init PROVE ReplayInv
  OBVIOUS
<1>1. ASSUME NEW t \in Tasks PROVE TaskInv(t)
  <2>1. ApprovalsOf(t) = {}
    BY DEF Init, ApprovalsOf
  <2>2. Outstanding(t) = {}
    BY <2>1 DEF Outstanding, PendingOf, DecidedUnconsumed
  <2>3. status[t] = "absent" /\ run[t] = NoRun /\ journal[t] = NoJournal
    BY DEF Init
  <2>4. QED
    BY <2>1, <2>2, <2>3 DEF TaskInv, RunnerInv, At, NoRun, NoJournal
<1>2. ASSUME NEW x \in Approvals PROVE ApprovalInv(x)
  BY DEF Init, ApprovalInv
<1>3. QED
  BY <1>1, <1>2 DEF ReplayInv

\* While a task can be resumed, the one decided or pending approval it has names the
\* first unanswered call of the journal's last turn, unused: TaskInv and ApprovalInv.
THEOREM ReplayInvariant == Spec => []ReplayInv
<1>1. TypeOK /\ InsertInv /\ ReplayInv /\ [Next]_vars => ReplayInv'
  <2> SUFFICES ASSUME TypeOK, InsertInv, ReplayInv, [Next]_vars PROVE ReplayInv'
    OBVIOUS
  <2>1. CASE \E t \in Tasks : EnqueueInsert(t)
    BY <2>1, InsertReplay
  <2>2. CASE \E w \in Workers, t \in Tasks : Claim(w, t)
    BY <2>2, ClaimReplay
  <2>3. CASE UNCHANGED vars
    BY <2>3, QuietRows DEF vars, rowVars, workerVars, histVars, QuietStatus
  <2>4. QED
    BY <2>1, <2>2, <2>3, ApiReplay, JobReplay, WorkerReplay, RunnerReplay DEF Next
<1>2. Init => InsertInv
  BY DEF Init, InsertInv
<1>3. QED
  BY <1>1, <1>2, InitReplay, InsertStep, TypeCorrect, PTL DEF Spec

\* A claim never starts a runner beside another one: nobody is at work on a task that
\* is queued or waits for its approval.
THEOREM NoRunnerBeforeAnyClaim == Spec => []NoRunnerBeforeClaim
<1>1. ReplayInv => NoRunnerBeforeClaim
  BY DEF ReplayInv, TaskInv, NoRunnerBeforeClaim
<1>2. QED
  BY <1>1, ReplayInvariant, PTL

\* An approved tool call is executed at most once, whatever crashes, sweeps, resumed
\* runs and zombie runs are interleaved.
THEOREM ApprovedCallAtMostOnce == Spec => []ApprovedCallRunsOnce
<1>1. ReplayInv => ApprovedCallRunsOnce
  BY DEF ReplayInv, ApprovalInv, ApprovedCallRunsOnce
<1>2. QED
  BY <1>1, ReplayInvariant, PTL

\* A call executed under an approval was approved, and the approval stays so.
THEOREM OnlyApprovedRan == Spec => []RanWasApproved
<1>1. ReplayInv => RanWasApproved
  BY DEF ReplayInv, ApprovalInv, RanWasApproved
<1>2. QED
  BY <1>1, ReplayInvariant, PTL

\* A task has at most one approval that is pending or decided and not consumed.
THEOREM OneOutstandingApproval == Spec => []OneOutstanding
<1>1. ReplayInv => OneOutstanding
  BY DEF ReplayInv, TaskInv, OneOutstanding
<1>2. QED
  BY <1>1, ReplayInvariant, PTL

\* The calls of a turn are answered in order, each once, across park and resume.
THEOREM InOrder == Spec => []CallsAnsweredInOrder
<1>1. ReplayInv => CallsAnsweredInOrder
  BY DEF ReplayInv, TaskInv, RunnerInv, CallsAnsweredInOrder, At
<1>2. QED
  BY <1>1, ReplayInvariant, PTL

\* A resumed runner always finds the call its operator decided about in the journal.
THEOREM ResumeFinds == Spec => []ResumeFindsItsCall
<1>1. ReplayInv => ResumeFindsItsCall
  <2> SUFFICES ASSUME ReplayInv, NEW t \in Tasks, At(t, "resume")
               PROVE  MatchesJournal(t, run[t].using)
    BY DEF ResumeFindsItsCall
  <2>1. TaskInv(t)
    BY DEF ReplayInv
  <2>2. ResumeReady(t) /\ run[t].using \in Outstanding(t)
    BY <2>1 DEF TaskInv, RunnerInv, ResumeReady, Outstanding, At
  <2>3. QED
    BY <2>1, <2>2 DEF TaskInv, NamesNextCall
<1>2. QED
  BY <1>1, ReplayInvariant, PTL

-----------------------------------------------------------------------------
(* A completed task has its report: the runner about to complete an open    *)
(* task has stored it.                                                      *)

ReportInv ==
  \A t \in Tasks :
    /\ status[t] = "completed" => journal[t].reported
    /\ At(t, "complete") /\ status[t] \in OpenStatuses => journal[t].reported

\* A step that neither completes a task nor brings its runner to completing it.
ReportQuiet ==
  \A t \in Tasks :
    /\ status'[t] = "completed" => status[t] = "completed"
    /\ status'[t] \in OpenStatuses => status[t] \in OpenStatuses \/ run'[t].pc # "complete"
    /\ run'[t].pc = "complete" => run[t].pc = "complete"
    /\ journal[t].reported => journal'[t].reported

LEMMA QuietReportStep == ASSUME ReportInv, ReportQuiet PROVE ReportInv'
BY DEF ReportInv, ReportQuiet, At

LEMMA FinishReport ==
  ASSUME TypeOK, NEW t, NEW final \in {"failed", "cancelled"}, Finish(t, final),
         UNCHANGED journal, \A u \in Tasks : run'[u].pc = "complete" => run[u].pc = "complete"
  PROVE  ReportQuiet
BY DEF TypeOK, Finish, ReportQuiet, OpenStatuses

LEMMA ResumeReport ==
  ASSUME TypeOK, NEW t, ResumeTask(t), UNCHANGED <<journal, run>> PROVE ReportQuiet
BY DEF TypeOK, ResumeTask, ReportQuiet, OpenStatuses

LEMMA SameReport == ASSUME UNCHANGED <<status, journal, run>> PROVE ReportQuiet
BY DEF ReportQuiet

LEMMA ApiReport ==
  ASSUME TypeOK, ReplayInv, InsertInv, ApiNext PROVE ReportQuiet
<1> USE DEF workerVars, handlerVars, histVars, rowVars
<1>1. ASSUME NEW t \in Tasks, EnqueueInsert(t) PROVE ReportQuiet
  <2>1. status[t] = "absent" /\ run' = run /\ journal' = journal
    BY <1>1 DEF EnqueueInsert, InsertInv
  <2>2. run[t].pc = "off"
    BY <2>1 DEF ReplayInv, TaskInv, At
  <2>3. status' = status \/ status' = [status EXCEPT ![t] = "queued"]
    BY <1>1 DEF EnqueueInsert
  <2>4. QED
    BY <2>1, <2>2, <2>3 DEF TypeOK, ReportQuiet
<1>2. ASSUME NEW t \in Tasks, CancelFinish(t) PROVE ReportQuiet
  BY <1>2, FinishReport DEF CancelFinish
<1>3. ASSUME NEW x \in Approvals, DecideResume(x) PROVE ReportQuiet
  BY <1>3, ResumeReport DEF DecideResume
<1>4. ASSUME NEW x \in Approvals, DecideFail(x) PROVE ReportQuiet
  BY <1>4, FinishReport DEF DecideFail
<1>5. QED
  BY <1>1, <1>2, <1>3, <1>4, SameReport
     DEF ApiNext, ChangeAgentStatus, EnqueueCheck, CancelRead, CancelFlag, Decide, DecideRead,
         BackendCrash

LEMMA JobReport == ASSUME TypeOK, JobNext PROVE ReportQuiet
<1> USE DEF workerVars, handlerVars, histVars, rowVars
<1>1. ASSUME NEW t \in Tasks, ReapResume(t) PROVE ReportQuiet
  BY <1>1, ResumeReport DEF ReapResume
<1>2. ASSUME NEW t \in Tasks, JobFail(t) PROVE ReportQuiet
  BY <1>2, FinishReport DEF JobFail
<1>3. QED
  BY <1>1, <1>2, SameReport
     DEF JobNext, ExpireDue, ExpireReadTask, ReapPick, ReapReadPending, ReapReadDecided,
         ExpireForTask, LoseExpireForTask

LEMMA WorkerReport == ASSUME TypeOK, WorkerNext PROVE ReportQuiet
<1> USE DEF workerVars, handlerVars, histVars, rowVars
<1>0. run \in [Tasks -> Runner]
  BY DEF TypeOK
<1>1. ASSUME NEW w \in Workers, Close(w) \/ WorkerCrash(w) PROVE ReportQuiet
  BY <1>1 DEF Close, WorkerCrash, StopRunners, NoRun, ReportQuiet
<1>2. ASSUME NEW w \in Workers, NEW t \in Tasks, Claim(w, t) PROVE ReportQuiet
  <2>1. \A u \in Tasks : run'[u].pc = "complete" => run[u].pc = "complete"
    BY <1>2, <1>0 DEF Claim, NoRun
  <2>2. \A u \in Tasks : status'[u] = status[u] \/ (u = t /\ status'[u] = "running")
    BY <1>2 DEF Claim, TypeOK
  <2>3. status[t] = "queued" /\ journal' = journal
    BY <1>2 DEF Claim
  <2>4. QED
    BY <2>1, <2>2, <2>3 DEF ReportQuiet, OpenStatuses
<1>3. ASSUME NEW w \in Workers, NEW t \in Tasks, CloseTask(w, t) PROVE ReportQuiet
  BY <1>3, FinishReport, SameReport DEF CloseTask
<1>4. ASSUME NEW t \in Tasks, SweepFinish(t) PROVE ReportQuiet
  BY <1>4, FinishReport DEF SweepFinish
<1>5. ASSUME NEW t \in Tasks, HardStop(t) PROVE ReportQuiet
  <2>1. \A u \in Tasks : run'[u].pc = run[u].pc
    BY <1>0, <1>5 DEF HardStop, Runner
  <2>2. QED
    BY <1>5, <2>1 DEF HardStop, ReportQuiet
<1>6. QED
  BY <1>1, <1>2, <1>3, <1>4, <1>5, SameReport
     DEF WorkerNext, Purge, Beat, GoStale, SweepSelect, SweepCrash

\* Every runner step either moves to a program point other than "complete", or is the
\* report or the completion itself.
LEMMA RunnerReport ==
  ASSUME TypeOK, NEW t \in Tasks, RunnerStep(t)
  PROVE  ReportQuiet \/ Report(t) \/ Complete(t)
<1> USE DEF workerVars, handlerVars, histVars, rowVars
<1>1. /\ run \in [Tasks -> Runner] /\ journal \in [Tasks -> JournalRow]
      /\ status \in [Tasks -> Statuses]
  BY DEF TypeOK
<1>2. CASE RunStart(t)
  <2>1. \A u \in Tasks : run'[u].pc = "complete" => run[u].pc = "complete"
    <3>1. PICK gated \in GatedSets :
            \/ \E x \in DecidedUnconsumed(t) :
                 run' = [run EXCEPT ![t].pc = "resume", ![t].using = x,
                                    ![t].at = appr[x].index, ![t].gated = gated]
            \/ run' = [run EXCEPT ![t].pc = IF journal[t].planned THEN "fail" ELSE "plan",
                                  ![t].gated = gated]
      BY <1>2 DEF RunStart
    <3>2. run'[t].pc \in {"resume", "fail", "plan"}
      <4>1. ASSUME NEW x \in DecidedUnconsumed(t),
                   run' = [run EXCEPT ![t].pc = "resume", ![t].using = x,
                                      ![t].at = appr[x].index, ![t].gated = gated]
            PROVE  run'[t].pc = "resume"
        BY <1>1, <4>1 DEF Runner
      <4>2. ASSUME NEW pc \in {"fail", "plan"},
                   run' = [run EXCEPT ![t].pc = pc, ![t].gated = gated]
            PROVE  run'[t].pc \in {"fail", "plan"}
        BY <1>1, <4>2 DEF Runner
      <4>3. QED
        BY <3>1, <4>1, <4>2
    <3>3. \A u \in Tasks : u # t => run'[u] = run[u]
      BY <1>1, <3>1
    <3>4. QED
      BY <3>2, <3>3
  <2>2. QED
    BY <1>2, <2>1 DEF RunStart, ReportQuiet
<1>3. CASE Plan(t)
  <2>1. \A u \in Tasks : journal[u].reported => journal'[u].reported
    BY <1>1, <1>3 DEF Plan, JournalRow
  <2>2. QED
    BY <1>3, <2>1, GoFacts DEF Plan, ReportQuiet
<1>4. CASE Resume(t) \/ LoopTop(t) \/ FinalCheck(t) \/ Critique(t) \/ RunError(t)
  <2>1. PICK pc \in ({"call", "llm"} \cup QuietPcs) \ {"complete"} : Go(t, pc)
    BY <1>4 DEF Resume, LoopTop, FinalCheck, Critique, RunError, QuietPcs
  <2>2. UNCHANGED <<status, journal>>
    BY <1>4 DEF Resume, LoopTop, FinalCheck, Critique, RunError
  <2>3. QED
    BY <2>1, <2>2, GoFacts DEF ReportQuiet, QuietPcs
<1>5. CASE Turn(t)
  <2>1. PICK calls \in CallSeqs :
          /\ journal' = [journal EXCEPT ![t].turns = @ + 1, ![t].calls = calls,
                                        ![t].recorded = 0]
          /\ run' = [run EXCEPT ![t].pc = IF calls = <<>> THEN "final" ELSE "call",
                                ![t].at = 0]
    BY <1>5 DEF Turn
  <2>2. \A u \in Tasks : journal'[u].reported = journal[u].reported
    BY <1>1, <2>1 DEF JournalRow
  <2>3. \A u \in Tasks : run'[u].pc = "complete" => run[u].pc = "complete"
    BY <1>1, <2>1 DEF Runner
  <2>4. QED
    BY <1>5, <2>2, <2>3 DEF Turn, ReportQuiet
<1>6. CASE CallRefused(t) \/ CallRequest(t) \/ CallExecute(t)
  <2>1. PICK pc \in {"record", "park"} : Go(t, pc)
    BY <1>6 DEF CallRefused, CallRequest, CallExecute
  <2>2. UNCHANGED <<status, journal>>
    BY <1>6 DEF CallRefused, CallRequest, CallExecute
  <2>3. QED
    BY <2>1, <2>2, GoFacts DEF ReportQuiet
<1>7. CASE RecordCall(t)
  <2>1. \A u \in Tasks : journal'[u].reported = journal[u].reported
    BY <1>1, <1>7 DEF RecordCall, JournalRow
  <2>2. \A u \in Tasks : run'[u].pc = "complete" => run[u].pc = "complete"
    <3>1. CASE run' = NextCall(t)
      BY <3>1, NextCallFacts
    <3>2. CASE Go(t, "consume")
      BY <3>2, GoFacts
    <3>3. QED
      BY <1>7, <3>1, <3>2 DEF RecordCall
  <2>3. QED
    BY <1>7, <2>1, <2>2 DEF RecordCall, ReportQuiet
<1>8. CASE MarkConsumed(t)
  <2>1. \A u \in Tasks : run'[u].pc = "complete" => run[u].pc = "complete"
    BY <1>8, NextCallFacts DEF MarkConsumed
  <2>2. QED
    BY <1>8, <2>1 DEF MarkConsumed, ReportQuiet
<1>9. CASE Park(t)
  <2>1. \A u \in Tasks : run'[u].pc = "complete" => run[u].pc = "complete"
    BY <1>1, <1>9, GoFacts DEF Park, NoRun
  <2>2. \A u \in Tasks : \/ status'[u] = status[u]
                         \/ status[u] = "running" /\ status'[u] = "waiting_approval"
    BY <1>1, <1>9 DEF Park
  <2>3. QED
    BY <1>9, <2>1, <2>2 DEF Park, ReportQuiet, OpenStatuses
<1>10. CASE Unpark(t) \/ RunLost(t)
  BY <1>1, <1>10 DEF Unpark, RunLost, NoRun, ReportQuiet
<1>11. CASE EndCancelled(t) \/ EndFailed(t)
  <2>1. PICK final \in {"failed", "cancelled"} : Finish(t, final)
    BY <1>11 DEF EndCancelled, EndFailed, EndRun
  <2>2. UNCHANGED journal /\ \A u \in Tasks : run'[u].pc = "complete" => run[u].pc = "complete"
    BY <1>1, <1>11 DEF EndCancelled, EndFailed, EndRun, NoRun
  <2>3. QED
    BY <2>1, <2>2, FinishReport
<1>12. QED
  BY <1>2, <1>3, <1>4, <1>5, <1>6, <1>7, <1>8, <1>9, <1>10, <1>11 DEF RunnerStep

\* A completed task has its report, though report and completion are two commits with
\* sweeps, cancels and crashes between them.
THEOREM CompletedReported == Spec => []CompletedHasReport
<1>1. Init => ReportInv /\ InsertInv
  BY DEF Init, ReportInv, InsertInv, At, NoRun, OpenStatuses
<1>2. TypeOK /\ ReplayInv /\ InsertInv /\ ReportInv /\ [Next]_vars => ReportInv'
  <2> SUFFICES ASSUME TypeOK, ReplayInv, InsertInv, ReportInv, [Next]_vars PROVE ReportInv'
    OBVIOUS
  <2>1. ASSUME NEW t \in Tasks, Report(t) PROVE ReportInv'
    <3>1. journal \in [Tasks -> JournalRow]
      BY DEF TypeOK
    <3>2. /\ journal'[t].reported = (journal[t].reported \/ status[t] \in OpenStatuses)
          /\ \A u \in Tasks : u # t => journal'[u] = journal[u]
          /\ status' = status
      BY <2>1, <3>1 DEF Report, SetPhaseOutput, JournalRow
    <3>3. \A u \in Tasks : u # t => run'[u] = run[u]
      BY <2>1, GoFacts DEF Report
    <3>4. QED
      BY <3>2, <3>3 DEF ReportInv, At, OpenStatuses
  <2>2. ASSUME NEW t \in Tasks, Complete(t) PROVE ReportInv'
    <3>1. run \in [Tasks -> Runner] /\ status \in [Tasks -> Statuses]
      BY DEF TypeOK
    <3>2. run[t].pc = "complete" /\ journal' = journal /\ Finish(t, "completed")
          /\ run' = [run EXCEPT ![t] = NoRun]
      BY <2>2 DEF Complete, EndRun, At
    <3>3. \A u \in Tasks : /\ run'[u].pc = "complete" => u # t /\ run'[u] = run[u]
                           /\ u # t => status'[u] = status[u]
      BY <3>1, <3>2 DEF NoRun, Finish
    <3>4. status'[t] = "completed" => status[t] \in OpenStatuses \/ status[t] = "completed"
      BY <3>2 DEF Finish
    <3>5. QED
      BY <3>2, <3>3, <3>4 DEF ReportInv, At
  <2>3. CASE UNCHANGED vars
    BY <2>3, SameReport, QuietReportStep DEF vars, rowVars, workerVars
  <2>4. QED
    BY <2>1, <2>2, <2>3, ApiReport, JobReport, WorkerReport, RunnerReport, QuietReportStep
       DEF Next, RunnerNext
<1>3. ReportInv => CompletedHasReport
  BY DEF ReportInv, CompletedHasReport
<1>4. QED
  BY <1>1, <1>2, <1>3, InsertStep, ReplayInvariant, TypeCorrect, PTL DEF Spec

=============================================================================
