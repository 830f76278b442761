--------------------------- MODULE TaskLifecycle ---------------------------
(***************************************************************************)
(* What the agent task queue promises: the life of a row of agent_task as  *)
(* its readers may rely on it, without workers, approvals or commits.      *)
(* A task is created only while its agent has no other open task, moves    *)
(* queued -> running -> (waiting_approval -> queued -> running)*, and ends *)
(* once: a final status never changes.  AgentTasks implements it.          *)
(***************************************************************************)
EXTENDS FiniteSets

CONSTANTS
  Agents,    \* ids of agents
  Tasks,     \* ids of agent_task rows, inserted or not
  AgentOf    \* the agent each row belongs to

VARIABLE status    \* status[t]: the status column, "absent" before the insert

OpenStatuses  == {"queued", "running", "waiting_approval"}
FinalStatuses == {"completed", "failed", "cancelled"}
Statuses      == {"absent"} \cup OpenStatuses \cup FinalStatuses

OpenTasks(a) == {t \in Tasks : AgentOf[t] = a /\ status[t] \in OpenStatuses}

Move(t, from, to) == status[t] \in from /\ status' = [status EXCEPT ![t] = to]

Create(t)  == OpenTasks(AgentOf[t]) = {} /\ Move(t, {"absent"}, "queued")
Start(t)   == Move(t, {"queued"}, "running")
Ask(t)     == Move(t, {"running"}, "waiting_approval")
Requeue(t) == Move(t, {"waiting_approval"}, "queued")
End(t)     == \E final \in FinalStatuses : Move(t, OpenStatuses, final)

Init == status = [t \in Tasks |-> "absent"]

Next == \E t \in Tasks : Create(t) \/ Start(t) \/ Ask(t) \/ Requeue(t) \/ End(t)

Spec == Init /\ [][Next]_status

=============================================================================
