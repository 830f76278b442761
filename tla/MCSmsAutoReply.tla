--------------------------- MODULE MCSmsAutoReply ---------------------------
(* Small instances of SmsAutoReply for TLC. *)
EXTENDS SmsAutoReply

\* A number is its parts: a country code, a trunk zero, the subscriber.
National(n)      == <<n>>
International(n) == <<"cc", n>>

Guests == {"ann", "bob", "sim", "peer"}
Fleet  == {"sim", "peer"}
Stray  == {<<"1">>}
FleetNumber == [s \in Fleet |-> National(s)]

\* Ann writes and is called, a SIM of the fleet is called.
MixedKind   == <<"sms", "missed", "missed">>
MixedPerson == <<"ann", "ann", "sim">>
MixedNumber == <<International("ann"), National("ann"), International("sim")>>

\* Ann writes and is called, Bob is called.
TwoPerson == <<"ann", "ann", "bob">>
TwoNumber == <<International("ann"), National("ann"), National("bob")>>

\* The SIM is called at the start, and TmLite's row of the other one stays intact.
Instance == at[3] \in {Never, 0} /\ listed["peer"]
MCInit == Init /\ Instance
MCNext == Next /\ Instance'
MCSpec == MCInit /\ [][MCNext]_vars

=============================================================================
