-------------------------- MODULE AgentTasksProofs --------------------------
(***************************************************************************)
(* Theorems of AgentTasks, for every set of agents, tasks, approvals,      *)
(* workers and tools and every bound.                                      *)
(***************************************************************************)
EXTENDS AgentTasks, FiniteSetTheorems, TLAPS

-----------------------------------------------------------------------------
(* Type correctness.                                                        *)

LEMMA InitType == Init => TypeOK
BY NoneAssumption DEF Init, TypeOK, NoJournal, NoRun, Idle, Statuses, ApprovalStatuses,
   RunnerPcs, JobPcs, JournalRow, ApprovalRow, Runner

LEMMA RunnerUpdate ==
  ASSUME run \in [Tasks -> Runner], NEW t \in Tasks, NEW pc \in RunnerPcs, NEW i \in Nat,
         NEW x \in Approvals \cup {None}, NEW g \in SUBSET Tools
  PROVE  /\ [run EXCEPT ![t].pc = pc, ![t].at = i] \in [Tasks -> Runner]
         /\ [run EXCEPT ![t].pc = pc, ![t].gated = g] \in [Tasks -> Runner]
         /\ [run EXCEPT ![t].pc = pc, ![t].using = x, ![t].at = i, ![t].gated = g]
              \in [Tasks -> Runner]
<1>1. [run EXCEPT ![t].pc = pc, ![t].at = i] \in [Tasks -> Runner]
  BY DEF Runner
<1>2. [run EXCEPT ![t].pc = pc, ![t].gated = g] \in [Tasks -> Runner]
  BY DEF Runner
<1>3. [run EXCEPT ![t].pc = pc, ![t].using = x, ![t].at = i, ![t].gated = g]
        \in [Tasks -> Runner]
  <2> DEFINE f == [run EXCEPT ![t].pc = pc, ![t].using = x, ![t].at = i, ![t].gated = g]
  <2>1. f = [u \in Tasks |-> IF u = t THEN f[t] ELSE run[u]]
    OBVIOUS
  <2>2. run[t] \in Runner
    OBVIOUS
  <2>3. f[t] \in Runner
    BY <2>2 DEF Runner
  <2>4. QED
    BY <2>1, <2>3
<1>4. QED
  BY <1>1, <1>2, <1>3

LEMMA CallSeqsType == ASSUME NEW calls \in CallSeqs PROVE calls \in Seq(Tools)
<1>1. PICK n \in 0..MaxCalls : calls \in [1..n -> Tools]
  BY DEF CallSeqs
<1>2. n \in Nat
  BY BoundsAssumption
<1>3. QED
  BY <1>1, <1>2

LEMMA NextCallType ==
  ASSUME run \in [Tasks -> Runner], NEW t \in Tasks
  PROVE  NextCall(t) \in [Tasks -> Runner]
<1>1. run[t] \in Runner
  OBVIOUS
<1>2. run[t].at + 1 \in Nat
  BY <1>1 DEF Runner
<1>3. QED
  BY <1>1, <1>2 DEF NextCall, Runner, RunnerPcs

LEMMA ApiType == TypeOK /\ ApiNext => TypeOK'
<1> SUFFICES ASSUME TypeOK, ApiNext PROVE TypeOK'
  OBVIOUS
<1> USE DEF workerVars, handlerVars, histVars, rowVars
<1>t. /\ run \in [Tasks -> Runner]
      /\ journal \in [Tasks -> JournalRow]
      /\ appr \in [Approvals -> ApprovalRow]
  BY DEF TypeOK
<1>1. ASSUME NEW a \in Agents, ChangeAgentStatus(a) PROVE TypeOK'
  BY <1>1 DEF ChangeAgentStatus, TypeOK
<1>2. ASSUME NEW t \in Tasks, EnqueueCheck(t) PROVE TypeOK'
  BY <1>2 DEF EnqueueCheck, TypeOK
<1>3. ASSUME NEW t \in Tasks, EnqueueInsert(t) PROVE TypeOK'
  BY <1>3 DEF EnqueueInsert, TypeOK, Statuses, OpenStatuses, FinalStatuses
<1>4. ASSUME NEW t \in Tasks, CancelRead(t) PROVE TypeOK'
  BY <1>4 DEF CancelRead, TypeOK
<1>5. ASSUME NEW t \in Tasks, CancelFinish(t) PROVE TypeOK'
  BY <1>5 DEF CancelFinish, TypeOK, Finish, Statuses, OpenStatuses, FinalStatuses
<1>6. ASSUME NEW t \in Tasks, CancelFlag(t) PROVE TypeOK'
  BY <1>6 DEF CancelFlag, TypeOK
<1>7. ASSUME NEW x \in Approvals, Decide(x) PROVE TypeOK'
  <2>1. appr' \in [Approvals -> ApprovalRow]
    BY <1>t, <1>7 DEF Decide, ApprovalRow, Decisions, ApprovalStatuses
  <2>2. QED
    BY <1>7, <2>1 DEF Decide, TypeOK
<1>8. ASSUME NEW x \in Approvals, DecideRead(x) PROVE TypeOK'
  BY <1>8 DEF DecideRead, TypeOK
<1>9. ASSUME NEW x \in Approvals, DecideResume(x) PROVE TypeOK'
  BY <1>9 DEF DecideResume, TypeOK, ResumeTask, Statuses, OpenStatuses,
      FinalStatuses
<1>10. ASSUME NEW x \in Approvals, DecideFail(x) PROVE TypeOK'
  BY <1>10 DEF DecideFail, TypeOK, Finish, Statuses, OpenStatuses, FinalStatuses
<1>11. CASE BackendCrash
  BY <1>11 DEF BackendCrash, TypeOK, Idle, JobPcs
<1>12. QED
  BY <1>1, <1>2, <1>3, <1>4, <1>5, <1>6, <1>7, <1>8, <1>9, <1>10, <1>11
     DEF ApiNext

LEMMA JobType == TypeOK /\ JobNext => TypeOK'
<1> SUFFICES ASSUME TypeOK, JobNext PROVE TypeOK'
  OBVIOUS
<1> USE DEF workerVars, handlerVars, histVars, rowVars
<1>t. /\ run \in [Tasks -> Runner]
      /\ journal \in [Tasks -> JournalRow]
      /\ appr \in [Approvals -> ApprovalRow]
  BY DEF TypeOK
<1>1. ASSUME NEW x \in Approvals, ExpireDue(x) PROVE TypeOK'
  <2>1. appr' \in [Approvals -> ApprovalRow]
    BY <1>t, <1>1 DEF ExpireDue, ApprovalRow, ApprovalStatuses
  <2>2. job' \in [pc : JobPcs, on : Tasks \cup {None}]
    <3>1. appr[x].task \in Tasks \cup {None}
      BY <1>t DEF ApprovalRow
    <3>2. QED
      BY <1>1, <3>1 DEF ExpireDue, JobStep, JobPcs, Idle
  <2>3. QED
    BY <1>1, <2>1, <2>2 DEF ExpireDue, TypeOK
<1>2. ASSUME NEW t \in Tasks, ExpireReadTask(t) PROVE TypeOK'
  <2>1. job' \in [pc : JobPcs, on : Tasks \cup {None}]
    BY <1>2 DEF ExpireReadTask, JobStep, JobPcs, Idle
  <2>2. QED
    BY <1>2, <2>1 DEF ExpireReadTask, TypeOK
<1>3. ASSUME NEW t \in Tasks, ReapPick(t) PROVE TypeOK'
  <2>1. job' \in [pc : JobPcs, on : Tasks \cup {None}]
    BY <1>3 DEF ReapPick, JobStep, JobPcs, Idle
  <2>2. QED
    BY <1>3, <2>1 DEF ReapPick, TypeOK
<1>4. ASSUME NEW t \in Tasks, ReapReadPending(t) PROVE TypeOK'
  <2>1. job' \in [pc : JobPcs, on : Tasks \cup {None}]
    BY <1>4 DEF ReapReadPending, JobStep, JobPcs, Idle
  <2>2. QED
    BY <1>4, <2>1 DEF ReapReadPending, TypeOK
<1>5. ASSUME NEW t \in Tasks, ReapReadDecided(t) PROVE TypeOK'
  <2>1. job' \in [pc : JobPcs, on : Tasks \cup {None}]
    BY <1>5 DEF ReapReadDecided, JobStep, JobPcs, Idle
  <2>2. QED
    BY <1>5, <2>1 DEF ReapReadDecided, TypeOK
<1>6. ASSUME NEW t \in Tasks, ReapResume(t) PROVE TypeOK'
  <2>1. job' \in [pc : JobPcs, on : Tasks \cup {None}]
    BY <1>6 DEF ReapResume, JobStep, JobPcs, Idle
  <2>2. QED
    BY <1>6, <2>1 DEF ReapResume, TypeOK, ResumeTask, Statuses, OpenStatuses,
        FinalStatuses
<1>7. ASSUME NEW t \in Tasks, JobFail(t) PROVE TypeOK'
  <2>1. job' \in [pc : JobPcs, on : Tasks \cup {None}]
    BY <1>7 DEF JobFail, JobStep, JobPcs, Idle
  <2>2. QED
    BY <1>7, <2>1 DEF JobFail, TypeOK, Finish, Statuses, OpenStatuses, FinalStatuses
<1>8. ASSUME NEW t \in Tasks, ExpireForTask(t) PROVE TypeOK'
  <2>1. appr' \in [Approvals -> ApprovalRow]
    BY <1>t, <1>8 DEF ExpireForTask, ApprovalRow, ExpirePending, ApprovalStatuses
  <2>2. QED
    BY <1>8, <2>1 DEF ExpireForTask, TypeOK
<1>9. ASSUME NEW t \in Tasks, LoseExpireForTask(t) PROVE TypeOK'
  BY <1>9 DEF LoseExpireForTask, TypeOK
<1>10. QED
  BY <1>1, <1>2, <1>3, <1>4, <1>5, <1>6, <1>7, <1>8, <1>9
     DEF JobNext

LEMMA WorkerType == TypeOK /\ WorkerNext => TypeOK'
<1> SUFFICES ASSUME TypeOK, WorkerNext PROVE TypeOK'
  OBVIOUS
<1> USE DEF workerVars, handlerVars, histVars, rowVars
<1>t. /\ run \in [Tasks -> Runner]
      /\ journal \in [Tasks -> JournalRow]
      /\ appr \in [Approvals -> ApprovalRow]
  BY DEF TypeOK
<1>1. ASSUME NEW w \in Workers, Purge(w) PROVE TypeOK'
  BY <1>1 DEF Purge, TypeOK, Runners
<1>2. ASSUME NEW w \in Workers, Close(w) PROVE TypeOK'
  <2>1. run' \in [Tasks -> Runner]
    BY <1>t, <1>2 DEF Close, Runner, StopRunners, NoRun, RunnerPcs
  <2>2. QED
    BY <1>2, <2>1 DEF Close, TypeOK
<1>3. ASSUME NEW w \in Workers, WorkerCrash(w) PROVE TypeOK'
  <2>1. run' \in [Tasks -> Runner]
    BY <1>t, <1>3 DEF WorkerCrash, Runner, StopRunners, NoRun, RunnerPcs
  <2>2. QED
    BY <1>3, <2>1 DEF WorkerCrash, TypeOK
<1>4. ASSUME NEW w \in Workers, NEW t \in Tasks, Claim(w, t) PROVE TypeOK'
  <2>1. run' \in [Tasks -> Runner]
    BY <1>t, <1>4 DEF Claim, Runner, NoRun, RunnerPcs, Runners
  <2>2. held' \in [Workers -> SUBSET Tasks]
    <3>1. held \in [Workers -> SUBSET Tasks]
      BY DEF TypeOK
    <3>2. QED
      BY <1>4, <3>1 DEF Claim, Runners
  <2>3. QED
    BY <1>4, <2>1, <2>2 DEF Claim, TypeOK, Statuses, OpenStatuses, FinalStatuses
<1>5. ASSUME NEW w \in Workers, NEW t \in Tasks, CloseTask(w, t) PROVE TypeOK'
  BY <1>5 DEF CloseTask, TypeOK, Finish, Statuses, OpenStatuses, FinalStatuses
<1>6. ASSUME NEW t \in Tasks, Beat(t) PROVE TypeOK'
  BY <1>6 DEF Beat, TypeOK
<1>7. ASSUME NEW t \in Tasks, HardStop(t) PROVE TypeOK'
  <2>1. run' \in [Tasks -> Runner]
    BY <1>t, <1>7 DEF HardStop, Runner
  <2>2. QED
    BY <1>7, <2>1 DEF HardStop, TypeOK
<1>8. ASSUME NEW t \in Tasks, GoStale(t) PROVE TypeOK'
  BY <1>8 DEF GoStale, TypeOK
<1>9. ASSUME NEW t \in Tasks, SweepSelect(t) PROVE TypeOK'
  BY <1>9 DEF SweepSelect, TypeOK
<1>10. ASSUME NEW t \in Tasks, SweepFinish(t) PROVE TypeOK'
  BY <1>10 DEF SweepFinish, TypeOK, Finish, Statuses, OpenStatuses, FinalStatuses
<1>11. ASSUME NEW t \in Tasks, SweepCrash(t) PROVE TypeOK'
  BY <1>11 DEF SweepCrash, TypeOK
<1>12. QED
  BY <1>1, <1>2, <1>3, <1>4, <1>5, <1>6, <1>7, <1>8, <1>9, <1>10, <1>11
     DEF WorkerNext

LEMMA RunnerType == TypeOK /\ RunnerNext => TypeOK'
<1> SUFFICES ASSUME TypeOK, RunnerNext PROVE TypeOK'
  OBVIOUS
<1> USE DEF workerVars, handlerVars, histVars, rowVars
<1>t. /\ run \in [Tasks -> Runner]
      /\ journal \in [Tasks -> JournalRow]
      /\ appr \in [Approvals -> ApprovalRow]
  BY DEF TypeOK
<1>1. ASSUME NEW t \in Tasks, RunStart(t) PROVE TypeOK'
  <2>1. run' \in [Tasks -> Runner]
    <3>1. \A x \in Approvals : appr[x].index \in Nat
      BY <1>t DEF ApprovalRow
    <3>2. PICK gated \in GatedSets :
            \/ \E x \in DecidedUnconsumed(t) :
                 run' = [run EXCEPT ![t].pc = "resume", ![t].using = x,
                                    ![t].at = appr[x].index, ![t].gated = gated]
            \/ run' = [run EXCEPT ![t].pc = IF journal[t].planned THEN "fail" ELSE "plan",
                                   ![t].gated = gated]
      BY <1>1 DEF RunStart
    <3>3. gated \in SUBSET Tools
      BY GatedAssumption
    <3>4. ASSUME NEW x \in DecidedUnconsumed(t),
                 run' = [run EXCEPT ![t].pc = "resume", ![t].using = x,
                                    ![t].at = appr[x].index, ![t].gated = gated]
          PROVE  run' \in [Tasks -> Runner]
      <4>1. x \in Approvals /\ "resume" \in RunnerPcs
        BY DEF DecidedUnconsumed, ApprovalsOf, RunnerPcs
      <4>2. QED
        BY <1>t, <3>1, <3>3, <3>4, <4>1, RunnerUpdate
    <3>5. CASE run' = [run EXCEPT ![t].pc = IF journal[t].planned THEN "fail" ELSE "plan",
                                  ![t].gated = gated]
      <4>1. PICK pc \in RunnerPcs : run' = [run EXCEPT ![t].pc = pc, ![t].gated = gated]
        BY <3>5 DEF RunnerPcs
      <4>2. QED
        BY <1>t, <3>3, <4>1, RunnerUpdate
    <3>6. QED
      BY <3>2, <3>4, <3>5
  <2>2. QED
    BY <1>1, <2>1 DEF RunStart, TypeOK
<1>2. ASSUME NEW t \in Tasks, Plan(t) PROVE TypeOK'
  <2>1. run' \in [Tasks -> Runner]
    BY <1>t, <1>2 DEF Plan, Runner, Go, RunnerPcs
  <2>2. journal' \in [Tasks -> JournalRow]
    BY <1>t, <1>2 DEF Plan, JournalRow
  <2>3. QED
    BY <1>2, <2>1, <2>2 DEF Plan, TypeOK
<1>3. ASSUME NEW t \in Tasks, Resume(t) PROVE TypeOK'
  <2>1. run' \in [Tasks -> Runner]
    BY <1>t, <1>3 DEF Resume, Runner, Go, RunnerPcs
  <2>2. QED
    BY <1>3, <2>1 DEF Resume, TypeOK
<1>4. ASSUME NEW t \in Tasks, LoopTop(t) PROVE TypeOK'
  <2>1. run' \in [Tasks -> Runner]
    BY <1>t, <1>4 DEF LoopTop, Runner, Go, RunnerPcs
  <2>2. QED
    BY <1>4, <2>1 DEF LoopTop, TypeOK
<1>5. ASSUME NEW t \in Tasks, Turn(t) PROVE TypeOK'
  <2>0. PICK calls \in CallSeqs :
          /\ journal' = [journal EXCEPT ![t].turns = @ + 1, ![t].calls = calls,
                                        ![t].recorded = 0]
          /\ run' = [run EXCEPT ![t].pc = IF calls = <<>> THEN "final" ELSE "call",
                                ![t].at = 0]
    BY <1>5 DEF Turn
  <2>1. run' \in [Tasks -> Runner]
    <3> DEFINE pc == IF calls = <<>> THEN "final" ELSE "call"
    <3>1. pc \in RunnerPcs
      BY DEF RunnerPcs
    <3>2. run' = [run EXCEPT ![t].pc = pc, ![t].at = 0]
      BY <2>0
    <3> HIDE DEF pc
    <3>3. QED
      BY <1>t, <3>1, <3>2 DEF Runner
  <2>2. journal' \in [Tasks -> JournalRow]
    <3>1. calls \in Seq(Tools)
      BY CallSeqsType
    <3>2. journal[t].turns + 1 \in Nat
      BY <1>t DEF JournalRow
    <3>3. QED
      BY <1>t, <2>0, <3>1, <3>2 DEF JournalRow
  <2>3. answered' \in [Tasks -> Nat]
    BY <1>5 DEF Turn, TypeOK
  <2>4. QED
    BY <1>5, <2>1, <2>2, <2>3 DEF Turn, TypeOK
<1>6. ASSUME NEW t \in Tasks, CallRefused(t) PROVE TypeOK'
  <2>1. run' \in [Tasks -> Runner]
    BY <1>t, <1>6 DEF CallRefused, Runner, Go, RunnerPcs
  <2>2. answered' \in [Tasks -> Nat]
    <3>1. answered \in [Tasks -> Nat]
      BY DEF TypeOK
    <3>2. QED
      BY <1>6, <3>1 DEF CallRefused
  <2>3. QED
    BY <1>6, <2>1, <2>2 DEF CallRefused, TypeOK
<1>7. ASSUME NEW t \in Tasks, CallRequest(t) PROVE TypeOK'
  <2>1. run' \in [Tasks -> Runner]
    BY <1>t, <1>7 DEF CallRequest, Runner, Go, RunnerPcs
  <2>2. appr' \in [Approvals -> ApprovalRow]
    <3>1. PICK x \in Approvals :
            appr' = [appr EXCEPT ![x] = [status |-> "pending", task |-> t, tool |-> ToolAt(t),
                                         index |-> run[t].at, consumed |-> FALSE]]
      BY <1>7 DEF CallRequest
    <3>2. run[t].at \in Nat /\ ToolAt(t) \in Tools
      BY <1>t, <1>7 DEF CallRequest, Runner
    <3>3. QED
      BY <1>t, <3>1, <3>2 DEF ApprovalRow, ApprovalStatuses
  <2>3. QED
    BY <1>7, <2>1, <2>2 DEF CallRequest, TypeOK
<1>8. ASSUME NEW t \in Tasks, CallExecute(t) PROVE TypeOK'
  <2>1. run' \in [Tasks -> Runner]
    BY <1>t, <1>8 DEF CallExecute, Runner, Go, RunnerPcs
  <2>2. answered' \in [Tasks -> Nat]
    <3>1. answered \in [Tasks -> Nat]
      BY DEF TypeOK
    <3>2. QED
      BY <1>8, <3>1 DEF CallExecute
  <2>3. ran' \in [Approvals -> Nat]
    <3>1. ran \in [Approvals -> Nat]
      BY DEF TypeOK
    <3>2. CASE run[t].using = None
      BY <1>8, <3>1, <3>2 DEF CallExecute
    <3>3. CASE run[t].using # None
      <4>1. run[t].using \in Approvals
        BY <1>t, <3>3 DEF Runner
      <4>2. ran' = [ran EXCEPT ![run[t].using] = @ + 1]
        BY <1>8, <3>3 DEF CallExecute
      <4>3. QED
        BY <3>1, <4>1, <4>2
    <3>4. QED
      BY <3>2, <3>3
  <2>4. QED
    BY <1>8, <2>1, <2>2, <2>3 DEF CallExecute, TypeOK
<1>9. ASSUME NEW t \in Tasks, RecordCall(t) PROVE TypeOK'
  <2>1. run' \in [Tasks -> Runner]
    <3>1. CASE run' = NextCall(t)
      BY <1>t, <3>1, NextCallType
    <3>2. CASE Go(t, "consume")
      BY <1>t, <3>2 DEF Go, Runner, RunnerPcs
    <3>3. QED
      BY <1>9, <3>1, <3>2 DEF RecordCall
  <2>2. journal' \in [Tasks -> JournalRow]
    <3>1. journal[t].recorded + 1 \in Nat
      BY <1>t DEF JournalRow
    <3>2. QED
      BY <1>t, <1>9, <3>1 DEF RecordCall, JournalRow
  <2>3. QED
    BY <1>9, <2>1, <2>2 DEF RecordCall, TypeOK
<1>10. ASSUME NEW t \in Tasks, MarkConsumed(t) PROVE TypeOK'
  <2>1. run' \in [Tasks -> Runner]
    BY <1>t, <1>10, NextCallType DEF MarkConsumed
  <2>2. appr' \in [Approvals -> ApprovalRow]
    BY <1>t, <1>10 DEF MarkConsumed, ApprovalRow
  <2>3. QED
    BY <1>10, <2>1, <2>2 DEF MarkConsumed, TypeOK
<1>11. ASSUME NEW t \in Tasks, Park(t) PROVE TypeOK'
  <2>1. run' \in [Tasks -> Runner]
    <3>1. CASE run' = [run EXCEPT ![t] = NoRun]
      BY <1>t, <3>1 DEF NoRun, Runner, RunnerPcs
    <3>2. CASE Go(t, "unpark")
      BY <1>t, <3>2 DEF Go, Runner, RunnerPcs
    <3>3. QED
      BY <1>11, <3>1, <3>2 DEF Park
  <2>2. QED
    BY <1>11, <2>1 DEF Park, TypeOK, Statuses, OpenStatuses, FinalStatuses
<1>12. ASSUME NEW t \in Tasks, Unpark(t) PROVE TypeOK'
  <2>1. run' \in [Tasks -> Runner]
    BY <1>t, <1>12 DEF Unpark, Runner, NoRun, RunnerPcs
  <2>2. appr' \in [Approvals -> ApprovalRow]
    BY <1>t, <1>12 DEF Unpark, ApprovalRow, ExpirePending, ApprovalStatuses
  <2>3. QED
    BY <1>12, <2>1, <2>2 DEF Unpark, TypeOK
<1>13. ASSUME NEW t \in Tasks, FinalCheck(t) PROVE TypeOK'
  <2>1. run' \in [Tasks -> Runner]
    BY <1>t, <1>13 DEF FinalCheck, Runner, Go, RunnerPcs
  <2>2. QED
    BY <1>13, <2>1 DEF FinalCheck, TypeOK
<1>14. ASSUME NEW t \in Tasks, Critique(t) PROVE TypeOK'
  <2>1. run' \in [Tasks -> Runner]
    BY <1>t, <1>14 DEF Critique, Runner, Go, RunnerPcs
  <2>2. QED
    BY <1>14, <2>1 DEF Critique, TypeOK
<1>15. ASSUME NEW t \in Tasks, Report(t) PROVE TypeOK'
  <2>1. run' \in [Tasks -> Runner]
    BY <1>t, <1>15 DEF Report, Runner, Go, RunnerPcs
  <2>2. journal' \in [Tasks -> JournalRow]
    BY <1>t, <1>15 DEF Report, SetPhaseOutput, JournalRow
  <2>3. QED
    BY <1>15, <2>1, <2>2 DEF Report, TypeOK
<1>16. ASSUME NEW t \in Tasks, Complete(t) PROVE TypeOK'
  <2>1. run' \in [Tasks -> Runner]
    BY <1>t, <1>16 DEF Complete, Runner, EndRun, NoRun, RunnerPcs
  <2>2. QED
    BY <1>16, <2>1 DEF Complete, TypeOK, EndRun, Finish, Statuses, OpenStatuses,
        FinalStatuses
<1>17. ASSUME NEW t \in Tasks, EndCancelled(t) PROVE TypeOK'
  <2>1. run' \in [Tasks -> Runner]
    BY <1>t, <1>17 DEF EndCancelled, Runner, EndRun, NoRun, RunnerPcs
  <2>2. QED
    BY <1>17, <2>1 DEF EndCancelled, TypeOK, EndRun, Finish, Statuses, OpenStatuses,
        FinalStatuses
<1>18. ASSUME NEW t \in Tasks, EndFailed(t) PROVE TypeOK'
  <2>1. run' \in [Tasks -> Runner]
    BY <1>t, <1>18 DEF EndFailed, Runner, EndRun, NoRun, RunnerPcs
  <2>2. QED
    BY <1>18, <2>1 DEF EndFailed, TypeOK, EndRun, Finish, Statuses, OpenStatuses,
        FinalStatuses
<1>19. ASSUME NEW t \in Tasks, RunError(t) PROVE TypeOK'
  <2>1. run' \in [Tasks -> Runner]
    BY <1>t, <1>19 DEF RunError, Runner, Go, RunnerPcs
  <2>2. QED
    BY <1>19, <2>1 DEF RunError, TypeOK
<1>20. ASSUME NEW t \in Tasks, RunLost(t) PROVE TypeOK'
  <2>1. run' \in [Tasks -> Runner]
    BY <1>t, <1>20 DEF RunLost, Runner, NoRun, RunnerPcs
  <2>2. QED
    BY <1>20, <2>1 DEF RunLost, TypeOK
<1>21. QED
  BY <1>1, <1>2, <1>3, <1>4, <1>5, <1>6, <1>7, <1>8, <1>9, <1>10, <1>11, <1>12,
      <1>13, <1>14, <1>15, <1>16, <1>17, <1>18, <1>19, <1>20
     DEF RunnerNext, RunnerStep

\* Every reachable state is typed: each column holds one of its statuses and each
\* process one of its program points, whatever is interleaved.
THEOREM TypeCorrect == Spec => []TypeOK
<1>1. TypeOK /\ [Next]_vars => TypeOK'
  <2>1. TypeOK /\ UNCHANGED vars => TypeOK'
    BY DEF TypeOK, vars, rowVars, workerVars, handlerVars, histVars
  <2>2. QED
    BY <2>1, ApiType, JobType, WorkerType, RunnerType DEF Next
<1>2. QED
  BY <1>1, InitType, PTL DEF Spec

-----------------------------------------------------------------------------
(* The life of a task.                                                      *)

\* An insert in flight is for a row that does not exist yet.
InsertInv == \A t \in Tasks : inserting[t] => status[t] = "absent"

\* The moves a step other than an insert can make in the status of a task.
Moves(t) ==
  \/ status' = status
  \/ Lifecycle!Start(t) \/ Lifecycle!Ask(t) \/ Lifecycle!Requeue(t) \/ Lifecycle!End(t)

LEMMA FinishMoves ==
  ASSUME NEW t \in Tasks, NEW final \in FinalStatuses, Finish(t, final)
  PROVE  Moves(t)
BY DEF Finish, Moves, Lifecycle!End, Lifecycle!Move, OpenStatuses, FinalStatuses,
   Lifecycle!OpenStatuses, Lifecycle!FinalStatuses

LEMMA ResumeMoves == ASSUME NEW t \in Tasks, ResumeTask(t) PROVE Moves(t)
BY DEF ResumeTask, Moves, Lifecycle!Requeue, Lifecycle!Move

LEMMA StepMoves ==
  ASSUME TypeOK, Next
  PROVE  status' = status \/ \E t \in Tasks : EnqueueInsert(t) \/ Moves(t)
<1> USE DEF workerVars, handlerVars, histVars, rowVars
<1>1. CASE ApiNext
  <2>2. ASSUME NEW t \in Tasks, CancelFinish(t) PROVE Moves(t)
    BY <2>2, FinishMoves DEF CancelFinish, FinalStatuses
  <2>3. ASSUME NEW x \in Approvals, DecideResume(x) PROVE status' = status \/ \E t \in Tasks : Moves(t)
    <3>1. CASE appr[x].task \in Tasks
      BY <2>3, <3>1, ResumeMoves DEF DecideResume
    <3>2. CASE appr[x].task \notin Tasks
      BY <2>3, <3>2 DEF DecideResume, ResumeTask, TypeOK
    <3>3. QED
      BY <3>1, <3>2
  <2>4. ASSUME NEW x \in Approvals, DecideFail(x) PROVE status' = status \/ \E t \in Tasks : Moves(t)
    <3>1. CASE appr[x].task \in Tasks
      BY <2>4, <3>1, FinishMoves DEF DecideFail, FinalStatuses
    <3>2. CASE appr[x].task \notin Tasks
      BY <2>4, <3>2 DEF DecideFail, Finish, TypeOK
    <3>3. QED
      BY <3>1, <3>2
  <2>5. QED
    BY <1>1, <2>2, <2>3, <2>4
       DEF ApiNext, ChangeAgentStatus, EnqueueCheck, CancelRead, CancelFlag, Decide,
           DecideRead, BackendCrash
<1>2. CASE JobNext
  <2>1. ASSUME NEW t \in Tasks, ReapResume(t) PROVE Moves(t)
    BY <2>1, ResumeMoves DEF ReapResume
  <2>2. ASSUME NEW t \in Tasks, JobFail(t) PROVE Moves(t)
    BY <2>2, FinishMoves DEF JobFail, FinalStatuses
  <2>3. QED
    BY <1>2, <2>1, <2>2
       DEF JobNext, ExpireDue, ExpireReadTask, ReapPick, ReapReadPending, ReapReadDecided,
           ExpireForTask, LoseExpireForTask
<1>3. CASE WorkerNext
  <2>1. ASSUME NEW w \in Workers, NEW t \in Tasks, Claim(w, t) PROVE Moves(t)
    BY <2>1 DEF Claim, Moves, Lifecycle!Start, Lifecycle!Move
  <2>2. ASSUME NEW w \in Workers, NEW t \in Tasks, CloseTask(w, t)
        PROVE  status' = status \/ Moves(t)
    BY <2>2, FinishMoves DEF CloseTask, FinalStatuses
  <2>3. ASSUME NEW t \in Tasks, SweepFinish(t) PROVE Moves(t)
    BY <2>3, FinishMoves DEF SweepFinish, FinalStatuses
  <2>4. QED
    BY <1>3, <2>1, <2>2, <2>3
       DEF WorkerNext, Purge, Close, WorkerCrash, Beat, HardStop, GoStale, SweepSelect,
           SweepCrash
<1>4. CASE RunnerNext
  <2>1. ASSUME NEW t \in Tasks, Park(t) PROVE status' = status \/ Moves(t)
    BY <2>1 DEF Park, Moves, Lifecycle!Ask, Lifecycle!Move
  <2>2. ASSUME NEW t \in Tasks, Complete(t) \/ EndCancelled(t) \/ EndFailed(t) PROVE Moves(t)
    BY <2>2, FinishMoves DEF Complete, EndCancelled, EndFailed, EndRun, FinalStatuses
  <2>3. QED
    BY <1>4, <2>1, <2>2
       DEF RunnerNext, RunnerStep, RunStart, Plan, Resume, LoopTop, Turn, CallRefused,
           CallRequest, CallExecute, RecordCall, MarkConsumed, Unpark, FinalCheck, Critique,
           Report, RunError, RunLost
<1>5. QED
  BY <1>1, <1>2, <1>3, <1>4 DEF Next

LEMMA InsertStep == TypeOK /\ InsertInv /\ [Next]_vars => InsertInv'
<1> SUFFICES ASSUME TypeOK, InsertInv, [Next]_vars PROVE InsertInv'
  OBVIOUS
<1> USE DEF workerVars, handlerVars, histVars, rowVars
<1>1. ASSUME NEW t \in Tasks, EnqueueCheck(t) PROVE InsertInv'
  BY <1>1 DEF EnqueueCheck, InsertInv, TypeOK
<1>2. ASSUME NEW t \in Tasks, EnqueueInsert(t) PROVE InsertInv'
  BY <1>2 DEF EnqueueInsert, InsertInv, TypeOK
<1>3. CASE BackendCrash
  BY <1>3 DEF BackendCrash, InsertInv
<1>4. ASSUME inserting' = inserting, Next PROVE InsertInv'
  <2>1. ASSUME NEW t \in Tasks, Moves(t), NEW u \in Tasks, inserting[u]
        PROVE  status'[u] = "absent"
    BY <2>1 DEF InsertInv, TypeOK, Moves, Lifecycle!Start, Lifecycle!Ask, Lifecycle!Requeue,
       Lifecycle!End, Lifecycle!Move, Lifecycle!OpenStatuses
  <2>2. ~\E t \in Tasks : EnqueueInsert(t)
    BY <1>4 DEF EnqueueInsert, TypeOK
  <2>3. QED
    BY <1>4, <2>1, <2>2, StepMoves DEF InsertInv
<1>5. CASE UNCHANGED vars
  BY <1>5 DEF InsertInv, vars
<1>6. QED
  <2>1. CASE ApiNext
    BY <1>1, <1>2, <1>3, <1>4, <2>1
       DEF ApiNext, Next, ChangeAgentStatus, CancelRead, CancelFinish, CancelFlag, Decide,
           DecideRead, DecideResume, DecideFail
  <2>2. CASE JobNext
    BY <1>4, <2>2
       DEF JobNext, Next, ExpireDue, ExpireReadTask, ReapPick, ReapReadPending, ReapReadDecided,
           ReapResume, JobFail, ExpireForTask, LoseExpireForTask
  <2>3. CASE WorkerNext
    BY <1>4, <2>3
       DEF WorkerNext, Next, Purge, Close, WorkerCrash, Claim, CloseTask, Beat, HardStop,
           GoStale, SweepSelect, SweepFinish, SweepCrash
  <2>4. CASE RunnerNext
    BY <1>4, <2>4
       DEF RunnerNext, RunnerStep, Next, RunStart, Plan, Resume, LoopTop, Turn, CallRefused,
           CallRequest, CallExecute, RecordCall, MarkConsumed, Park, Unpark, FinalCheck,
           Critique, Report, Complete, EndCancelled, EndFailed, EndRun, RunError, RunLost
  <2>5. QED
    BY <1>5, <2>1, <2>2, <2>3, <2>4 DEF Next

\* The service's multi-commit code implements the life of a task that TaskLifecycle
\* promises: one open task per agent, known transitions only, no change after the end.
THEOREM LifecycleImplemented == Spec => RefinesLifecycle
<1>1. Init => Lifecycle!Init
  BY DEF Init, Lifecycle!Init
<1>2. TypeOK /\ InsertInv /\ [Next]_vars => [Lifecycle!Next]_status
  <2> SUFFICES ASSUME TypeOK, InsertInv, [Next]_vars PROVE [Lifecycle!Next]_status
    OBVIOUS
  <2>1. ASSUME NEW t \in Tasks, EnqueueInsert(t) PROVE status' = status \/ Lifecycle!Create(t)
    BY <2>1 DEF InsertInv, EnqueueInsert, OpenTasks, OpenStatuses, Lifecycle!Create,
       Lifecycle!Move, Lifecycle!OpenTasks, Lifecycle!OpenStatuses
  <2>2. ASSUME NEW t \in Tasks, Moves(t) PROVE [Lifecycle!Next]_status
    BY <2>2 DEF Moves, Lifecycle!Next
  <2>3. CASE UNCHANGED vars
    BY <2>3 DEF vars, rowVars
  <2>4. QED
    BY <2>1, <2>2, <2>3, StepMoves DEF Lifecycle!Next
<1>3. Init => InsertInv
  BY DEF Init, InsertInv
<1>4. QED
  BY <1>1, <1>2, <1>3, InsertStep, TypeCorrect, PTL DEF Spec, RefinesLifecycle, Lifecycle!Spec

\* An agent never has two open tasks, for every number of cron ticks, manual runs and
\* workers: the invariant of every behaviour of TaskLifecycle, which Spec implements.
THEOREM OneOpenTask == Spec => []OneOpenTaskPerAgent
<1>1. Init => OneOpenTaskPerAgent
  BY DEF Init, OneOpenTaskPerAgent, OpenStatuses
<1>2. TypeOK /\ OneOpenTaskPerAgent /\ [Lifecycle!Next]_status => OneOpenTaskPerAgent'
  <2> SUFFICES ASSUME TypeOK, OneOpenTaskPerAgent, NEW t \in Tasks,
                      \/ Lifecycle!Create(t) \/ Lifecycle!Start(t) \/ Lifecycle!Ask(t)
                      \/ Lifecycle!Requeue(t) \/ Lifecycle!End(t)
               PROVE  OneOpenTaskPerAgent'
    BY DEF Lifecycle!Next, OneOpenTaskPerAgent
  <2> USE DEF OneOpenTaskPerAgent, TypeOK, OpenStatuses, FinalStatuses, Lifecycle!Move,
              Lifecycle!OpenStatuses, Lifecycle!FinalStatuses
  <2>1. CASE Lifecycle!Create(t)
    BY <2>1 DEF Lifecycle!Create, Lifecycle!OpenTasks
  <2>2. CASE Lifecycle!Start(t) \/ Lifecycle!Ask(t) \/ Lifecycle!Requeue(t)
    BY <2>2 DEF Lifecycle!Start, Lifecycle!Ask, Lifecycle!Requeue
  <2>3. CASE Lifecycle!End(t)
    BY <2>3 DEF Lifecycle!End
  <2>4. QED
    BY <2>1, <2>2, <2>3
<1>3. QED
  BY <1>1, <1>2, TypeCorrect, LifecycleImplemented, PTL DEF Spec, RefinesLifecycle, Lifecycle!Spec

=============================================================================
