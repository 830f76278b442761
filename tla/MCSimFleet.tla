----------------------------- MODULE MCSimFleet -----------------------------
(***************************************************************************)
(* A small instance of SimFleet for TLC: SIM 1 shares its country with three *)
(* SIMs behind another gateway, one more than it may be paired with.  One of  *)
(* the automations works at a time, or none: then a request may sync beside   *)
(* the job, and more happens to the SIMs.                                    *)
(***************************************************************************)
EXTENDS SimFleet

At(gateway, state) == [state |-> state, tracked |-> TRUE, gateway |-> gateway]

FleetViews == << {At("g1", "IDLE")},
                 {At("g2", "IDLE"), At("g2", "OFFLINE"), At("g1", "BUSY")},
                 {At("g2", "IDLE"), At("g2", "OFFLINE")},
                 {At("g2", "IDLE")} >>
OneCountry == [g \in {"g1", "g2"} |-> "sn"]
Night == [enabled |-> TRUE, start |-> 0, end |-> 1]

\* What TmLite says of a SIM matters only to what has yet to read it.
Unread(readers) == \/ \E h \in readers : sync[h].pc = "idle"
                   \/ talk.pc = "choosing"

Automated == config.talk \/ config.call

\* Beside an automation only SIM 2 goes offline and comes back, and only the job syncs;
\* while calls are made the inventory stands still, and a run of them is shorter than a
\* tick.
BesideAutomation ==
  /\ Automated
  /\ \/ \E h \in Jobs : SyncStep(h)
     \/ Tick
     \/ EditSim(2) /\ sims'[2].state # "BUSY" /\ Unread(Jobs)
  /\ PurgeSparesRuns
  /\ config.call => sims' = sims /\ (ring.pc # "idle" => clock' = clock /\ sync' = sync)
  /\ UNCHANGED <<talk, callVars, config>>

\* With none the job and a request sync at one time, and once a first sync has given
\* names the SIMs come, go and move.
OnlySyncs ==
  /\ ~Automated
  /\ PairingNext /\ clock' = clock
  /\ sims' # sims => names[1] # 0 /\ Unread(Syncs)
  /\ UNCHANGED <<talk, callVars, config>>

FleetInit ==
  /\ Init /\ ~(config.talk /\ config.call)
  /\ sims[2].state # "BUSY"
  /\ sims[3].state = IF Automated THEN "IDLE" ELSE "OFFLINE"

FleetNext ==
  \/ BesideAutomation \/ OnlySyncs
  \/ config.talk /\ TalkNext /\ UNCHANGED <<callVars, config>>
  \/ config.call /\ CallNext /\ UNCHANGED <<talk, config>>

FleetSpec == FleetInit /\ [][FleetNext]_fleetVars

=============================================================================
