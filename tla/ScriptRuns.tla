----------------------------- MODULE ScriptRuns -----------------------------
(* Executions of the scripts of prompts (services/script_executor.py), started   *)
(* by the cron jobs or by hand (routers/scripts.py), next to the requests that     *)
(* edit, switch and delete the prompts.                                        *)
EXTENDS CronJobs

CONSTANT Runs    \* bound: executions

VARIABLE run     \* an execution: its coroutine, its row and its process

runVars == <<cronVars, run>>

NoRun == [pc |-> "idle", prompt |-> CHOOSE o \in Owners : TRUE, by |-> "hand",
          status |-> "none", proc |-> "none", held |-> FALSE]

\* APScheduler runs one instance of a job at a time.
Busy(p) == \E e \in Runs : /\ run[e].prompt = p /\ run[e].by = "cron"
                           /\ run[e].pc \notin {"idle", "done", "lost"}

(* _execute_prompt_job, and POST /scripts/{id}/run. *)
Tick(e, p) ==
  /\ run[e].pc = "idle"
  /\ job[p].state = "active" /\ ~Busy(p)
  /\ row[p].life = "on" /\ scripts[p] # <<>>
  /\ run' = [run EXCEPT ![e] = [NoRun EXCEPT !.pc = "read", !.prompt = p, !.by = "cron"]]
  /\ UNCHANGED cronVars

RunByHand(e, p) ==
  /\ run[e].pc = "idle" /\ scripts[p] # <<>>
  /\ run' = [run EXCEPT ![e] = [NoRun EXCEPT !.pc = "read", !.prompt = p]]
  /\ UNCHANGED cronVars

\* The row, unless the prompt has been deleted with its scripts.
Insert(e) ==
  /\ run[e].pc = "read"
  /\ run' = IF Exists(run[e].prompt)
            THEN [run EXCEPT ![e].pc = "created", ![e].status = "running"]
            ELSE [run EXCEPT ![e].pc = "lost"]
  /\ UNCHANGED cronVars

\* An outcome is committed, to a row that is still there.
Settle(e, status) ==
  run' = [run EXCEPT ![e].pc = IF Exists(run[e].prompt) THEN "done" ELSE "lost",
                     ![e].status = IF Exists(run[e].prompt) THEN status ELSE @]

Spawn(e) ==
  /\ run[e].pc = "created"
  /\ \/ run' = [run EXCEPT ![e].pc = "waiting", ![e].proc = "running"]
     \/ Settle(e, "failed")
  /\ UNCHANGED cronVars

\* The script ends; a process of its own may hold its pipe open.
Exit(e) ==
  /\ run[e].proc = "running"
  /\ \E how \in {"object", "text", "value", "error"}, held \in BOOLEAN :
       run' = [run EXCEPT ![e].proc = how, ![e].held = held]
  /\ UNCHANGED cronVars

\* Exit code 0 is a success, but for a last line that is JSON and no object.
Outcome(proc) == IF proc \in {"object", "text"} THEN "success" ELSE "failed"

Collect(e) ==
  /\ run[e].pc = "waiting" /\ run[e].proc # "running" /\ ~run[e].held
  /\ Settle(e, Outcome(run[e].proc))
  /\ UNCHANGED cronVars

\* Bug: the outcome is stored, and the process left running.
TimeoutMildly(e) ==
  /\ run[e].pc = "waiting"
  /\ run[e].proc = "running" \/ run[e].held
  /\ Settle(e, "timeout")
  /\ UNCHANGED cronVars

\* The time is up: the process is killed, and its pipe read to the end.
Timeout(e) ==
  /\ run[e].pc = "waiting"
  /\ run[e].proc = "running" \/ run[e].held
  /\ \E held \in BOOLEAN :
       run' = [run EXCEPT ![e].pc = "draining", ![e].held = @ \/ held,
                          ![e].proc = IF @ = "running" THEN "killed" ELSE @]
  /\ UNCHANGED cronVars

Drained(e) ==
  /\ run[e].pc = "draining" /\ ~run[e].held
  /\ Settle(e, "timeout")
  /\ UNCHANGED cronVars

\* What no handler records: the environment cannot be built, or a commit fails twice.
RunLost(e) ==
  /\ run[e].pc = "created" \/ (run[e].pc = "waiting" /\ run[e].proc # "running")
  /\ run' = [run EXCEPT ![e].pc = "lost"]
  /\ UNCHANGED cronVars

RunNext(e) ==
  \/ \E p \in Prompts : Tick(e, p) \/ RunByHand(e, p)
  \/ Insert(e) \/ Spawn(e) \/ Exit(e) \/ Collect(e) \/ Timeout(e) \/ Drained(e) \/ RunLost(e)

\* The scripts die with the process that started them.
RunRestart ==
  /\ Restart
  /\ run' = [e \in Runs |->
       IF run[e].pc \in {"idle", "done", "lost"} THEN run[e]
       ELSE [run[e] EXCEPT !.pc = "lost", !.proc = IF @ = "running" THEN "killed" ELSE @]]

Init == CronInit /\ run = [e \in Runs |-> NoRun]

Next ==
  \/ CronNext /\ UNCHANGED run
  \/ \E e \in Runs : RunNext(e)
  \/ RunRestart

Spec == Init /\ [][Next]_runVars

-----------------------------------------------------------------------------
(* Properties. *)

\* An execution that has an outcome left no process running, and a success is one of
\* a script that exited with code 0, whatever was restarted or deleted meanwhile.
OutcomeIsTrue ==
  \A e \in Runs :
    /\ run[e].status \in {"success", "failed", "timeout"} => run[e].proc # "running"
    /\ run[e].status = "success" => run[e].proc \in {"object", "text", "value"}

=============================================================================
