------------------------------ MODULE TaskFeed ------------------------------
(***************************************************************************)
(* What the event stream of a task promises its client: the steps of the    *)
(* journal in order and without a gap, each status as it was when it was       *)
(* told, a status again only when it has changed or ends the task, and          *)
(* nothing once the task has been told to be over.                             *)
(***************************************************************************)
EXTENDS Naturals

CONSTANTS Open, Final    \* statuses of a task

VARIABLES
  journal,    \* steps committed so far
  status,     \* of the task
  seen,       \* steps told on the stream
  told,       \* last status told on the stream
  over        \* there is no stream, or no more of it

feedVars == <<journal, status, seen, told, over>>

Init ==
  /\ journal = 0 /\ status \in Open
  /\ seen = 0 /\ told = "none" /\ over = TRUE

\* The task goes on, whoever looks: a final status stays, or its row is deleted.
Advance ==
  /\ \/ journal' = journal + 1 /\ UNCHANGED status
     \/ UNCHANGED journal /\ status \in Open /\ status' \in Open \cup Final
     \/ UNCHANGED journal /\ status \in Final /\ status' = "gone"
  /\ UNCHANGED <<seen, told, over>>

Connect ==
  /\ over
  /\ seen' = 0 /\ told' = "none" /\ over' = FALSE
  /\ UNCHANGED <<journal, status>>

TellSteps ==
  /\ ~over
  /\ seen' = journal
  /\ UNCHANGED <<journal, status, told, over>>

TellStatus ==
  /\ ~over
  /\ status # told \/ status \notin Open
  /\ told' = status
  /\ over' = (status \notin Open)
  /\ UNCHANGED <<journal, status, seen>>

Disconnect ==
  /\ over' = TRUE /\ seen' = 0 /\ told' = "none"
  /\ UNCHANGED <<journal, status>>

Next == Advance \/ Connect \/ TellSteps \/ TellStatus \/ Disconnect

Spec == Init /\ [][Next]_feedVars

=============================================================================
