------------------------------ MODULE SimFleet ------------------------------
(***************************************************************************)
(* The three periodic jobs over the SIM pairs, in one backend process.       *)
(***************************************************************************)
EXTENDS PairConversation, PairCalls

VARIABLE config  \* pairing_conversation_enabled, pairing_call_enabled

fleetVars == <<pairingVars, talk, callVars, config>>

\* The age at which a purge deletes a pair is days; no run over it is that long.
PurgeSparesRuns == \A p \in talk.pairs \cup ring.todo : pair'[p].status # "purged"

Init == /\ PairingInit /\ TalkInit /\ CallInit
        /\ config \in [talk : BOOLEAN, call : BOOLEAN]

Next ==
  \/ PairingNext /\ PurgeSparesRuns /\ UNCHANGED <<talk, callVars, config>>
  \/ config.talk /\ TalkNext /\ UNCHANGED <<callVars, config>>
  \/ config.call /\ CallNext /\ UNCHANGED <<talk, config>>

Spec == Init /\ [][Next]_fleetVars

=============================================================================
