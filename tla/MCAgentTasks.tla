---------------------------- MODULE MCAgentTasks ----------------------------
(* Small instances of AgentTasks for TLC. *)
EXTENDS AgentTasks, TLC

\* Approval ids are interchangeable, and so are workers.
Symmetry == Permutations(Approvals) \cup Permutations(Workers)

\* With every task of the same agent, so are the tasks.
TaskSymmetry == Symmetry \cup Permutations(Tasks)

\* The tasks of these instances all belong to one agent.
OnlyAgentOf == [t \in Tasks |-> CHOOSE a \in Agents : TRUE]

\* What lies above the ceiling is the same at every run, or may have been edited.
FixedGate  == {{"risky"}}
EditedGate == {{"risky"}, {}}

\* Sub-specifications: fewer kinds of step, so that longer turns, more approvals
\* or more tasks can be explored.  AgentTasks!Next itself is checked by the run
\* on the smallest instance.

\* Decisions, their expiry and recovery against runners and lost workers.
DecisionNext ==
  \/ \E t \in Tasks : EnqueueCheck(t) \/ EnqueueInsert(t)
  \/ \E x \in Approvals : Decide(x) \/ DecideRead(x) \/ DecideResume(x)
  \/ JobNext \/ BackendCrash \/ RunnerNext
  \/ \E w \in Workers : WorkerCrash(w) \/ \E t \in Tasks : Claim(w, t)
  \/ \E t \in Tasks : GoStale(t) \/ SweepSelect(t) \/ SweepFinish(t)

DecisionSpec == Init /\ [][DecisionNext]_vars

\* Two tasks of one agent: cron ticks, manual runs, cancellations, lost workers
\* and swept runners that go on, with no decision: a parked task stays parked.
QueueNext ==
  \/ \E t \in Tasks : \/ EnqueueCheck(t) \/ EnqueueInsert(t)
                      \/ CancelRead(t) \/ CancelFinish(t) \/ CancelFlag(t)
                      \/ GoStale(t) \/ SweepSelect(t) \/ SweepFinish(t)
  \/ RunnerNext
  \/ \E w \in Workers : WorkerCrash(w) \/ \E t \in Tasks : Claim(w, t)

QueueSpec == Init /\ [][QueueNext]_vars

\* A fair specification, with every step but the late heartbeat of a live run
\* and the operator's changes of agent status.
LiveNext ==
  \/ \E t \in Tasks : \/ EnqueueCheck(t) \/ EnqueueInsert(t)
                      \/ CancelRead(t) \/ CancelFinish(t) \/ CancelFlag(t)
                      \/ Beat(t) \/ HardStop(t) \/ GoStale(t)
                      \/ SweepSelect(t) \/ SweepFinish(t) \/ SweepCrash(t)
  \/ \E x \in Approvals : Decide(x) \/ DecideRead(x) \/ DecideResume(x)
  \/ BackendCrash \/ JobNext \/ RunnerNext
  \/ \E w \in Workers : WorkerCrash(w) \/ \E t \in Tasks : Claim(w, t)

LiveSpec == Init /\ [][LiveNext]_vars /\ SweepFairness /\ JobFairness /\ WorkerFairness

\* Every step, with no fairness but that of the sweep and the clock.
SweepSpec == Spec /\ SweepFairness

=============================================================================
