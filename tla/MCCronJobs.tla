---------------------------- MODULE MCCronJobs ------------------------------
(* Two requests at a time on one prompt or on one agent, and one execution. *)
EXTENDS ScriptRuns

\* Prompts and agents share no row, no job and no request: one kind at a time.
OneKind == (\A p \in Prompts : row[p] = NoRow) \/ (\A a \in Agents : row[a] = NoRow)

\* Bound: while the execution is there, of the requests only a deletion is.
Calm ==
  (\E e \in Runs : run[e].pc # "idle") =>
    \A r \in Requests : work[r].op \notin {"create", "regenerate", "toggle", "edit"}

MCNext == Next /\ OneKind' /\ Calm'
MCSpec == Init /\ [][MCNext]_runVars

=============================================================================
