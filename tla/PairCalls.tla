------------------------------ MODULE PairCalls ------------------------------
(***************************************************************************)
(* services/sim_pair_call_service.py: calls between the SIMs of a pair, and *)
(* what became of them, read back from the call records (CDR) of TmLite.    *)
(***************************************************************************)
EXTENDS SimPairing

CONSTANTS
  CallInterval,  \* pairing_call_interval_minutes, in ticks
  CallsPerRun,   \* pairing_call_max_per_run
  Lookback,      \* _CDR_LOOKBACK
  Patience,      \* the thirty minutes a record may take
  MaxCalls       \* bound: rows of sim_pair_call, calls placed, and records

ASSUME CallAssumption ==
  {CallInterval, CallsPerRun, Lookback, Patience, MaxCalls} \subseteq Nat

VARIABLES
  calls,         \* rows of sim_pair_call
  cdrs,          \* the call records of TmLite
  ring,          \* the run that holds _run_lock
  placed         \* history: the calls that TmLite was made to place, and whether
                 \* the commit that records each was reached

callVars == <<calls, cdrs, ring, placed>>

NoRing == [pc |-> "idle", now |-> 0, todo |-> {}, used |-> {}, started |-> 0]

-----------------------------------------------------------------------------

\* Mutant of Recent: failed calls do not set the cadence.
RecentMade(p, now) ==
  {i \in DOMAIN calls : /\ calls[i].pair = p /\ calls[i].status # "failed"
                        /\ now - calls[i].at < CallInterval}

\* The calls that set the cadence of a pair, whatever became of them.
Recent(p, now) == {i \in DOMAIN calls : calls[i].pair = p /\ now - calls[i].at < CallInterval}

\* IDLE, and neither in a call, nor resting, nor waiting for its next call.
IsCallable(s) == sims[s].state = "IDLE"

\* The caller alternates with the pair's newest call among the recent ones; a
\* pair that is due has none.
Caller(p, now) ==
  IF \E i \in Recent(p, now) : /\ calls[i].from = pair[p].a
                               /\ \A j \in Recent(p, now) : j <= i
  THEN pair[p].b ELSE pair[p].a
Callee(p, now) == CHOOSE s \in Members(p) : s # Caller(p, now)

\* The rows _reconcile_started_calls looks at.
Open(now) == {i \in DOMAIN calls : calls[i].status = "started" /\ now - calls[i].at <= Lookback}

\* The records list_calls returns for a caller: it is asked once, for what came
\* after the newest of the caller's open rows.
Listed(s, now, down) ==
  {c \in DOMAIN cdrs : /\ s \notin down
                       /\ cdrs[c].from = s
                       /\ \A i \in Open(now) : calls[i].from = s => cdrs[c].at >= calls[i].at}

\* Mutant of Matching: any record of the caller.
MatchingAny(i, now, down) ==
  {c \in Listed(calls[i].from, now, down) : cdrs[c].at >= calls[i].at}

\* _matching_cdr: the record nearest in time, to the number of the callee.
Matching(i, now, down) ==
  {c \in Listed(calls[i].from, now, down) :
     /\ cdrs[c].at >= calls[i].at
     /\ sims[calls[i].to].state # "ABSENT" => cdrs[c].to = calls[i].to}
Nearest(i, now, down) ==
  {c \in Matching(i, now, down) : \A d \in Matching(i, now, down) : cdrs[c].at <= cdrs[d].at}

Outcomes(i, now, down) ==
  IF i \notin Open(now) THEN {calls[i].status}
  ELSE IF Matching(i, now, down) = {}
  THEN {IF now - calls[i].at >= Patience THEN "failed" ELSE "started"}
  ELSE {CASE cdrs[c].verdict = "COMPLETED" -> "completed"
          [] cdrs[c].verdict = "FAILED"    -> "failed"
          [] OTHER                         -> "started" : c \in Nearest(i, now, down)}

-----------------------------------------------------------------------------
(* run_due *)

\* Up to the decision which pairs are due.
RingStart ==
  /\ ring.pc = "idle"
  /\ LET due == {p \in Active : Recent(p, clock) = {}}
     IN /\ due # {}
        /\ ring' = [NoRing EXCEPT !.pc = "listing", !.now = clock, !.todo = due]
  /\ UNCHANGED <<calls, cdrs, placed, pairingVars>>

\* list_sims, the open calls and their records, one commit; list_calls may fail
\* for some of the callers.
RingReconcile ==
  /\ ring.pc = "listing"
  /\ \E down \in SUBSET {calls[i].from : i \in Open(ring.now)} :
       /\ \E status \in [DOMAIN calls -> {"started", "completed", "failed"}] :
            /\ \A i \in DOMAIN calls : status[i] \in Outcomes(i, ring.now, down)
            /\ calls' = [i \in DOMAIN calls |-> [calls[i] EXCEPT !.status = status[i]]]
       /\ ring' = [ring EXCEPT !.pc = "calling",
            !.todo = {p \in ring.todo :
                        /\ \A s \in Members(p) : IsCallable(s)
                        /\ sims[pair[p].a].gateway # sims[pair[p].b].gateway}]
  /\ UNCHANGED <<cdrs, placed, pairingVars>>

\* The next pair of the loop, with the calls made so far.
Callable(run) == IF run.started >= CallsPerRun THEN {}
                 ELSE {p \in run.todo : Members(p) \cap run.used = {}}
IsNext(p) == p \in Callable(ring) /\ \A q \in Callable(ring) : p <= q

Proceed(run, p) ==
  LET rest == [run EXCEPT !.pc = "calling", !.todo = {q \in run.todo : q > p}]
  IN IF Callable(rest) = {} THEN NoRing ELSE rest

\* TmLite places the call; a record may or may not come of it.
RingOriginate(p) ==
  /\ ring.pc = "calling" /\ IsNext(p)
  /\ Len(cdrs) < MaxCalls /\ Len(placed) < MaxCalls               \* the bound
  /\ cdrs' \in {cdrs, Append(cdrs, [from |-> Caller(p, ring.now), to |-> Callee(p, ring.now),
                                    at |-> clock, verdict |-> "open"])}
  /\ placed' = Append(placed, [pair |-> p, at |-> clock, kept |-> FALSE])
  /\ ring' = [ring EXCEPT !.pc = "placed"]
  /\ UNCHANGED <<calls, pairingVars>>

Row(p, status) == [pair |-> p, from |-> Caller(p, ring.now), to |-> Callee(p, ring.now),
                   at |-> clock, status |-> status]

\* The call of this turn, if it was placed, has its row.
Kept == IF ring.pc = "placed" THEN [placed EXCEPT ![Len(placed)].kept = TRUE] ELSE placed

RingRecord(p) ==
  /\ ring.pc = "placed" /\ IsNext(p)
  /\ Len(calls) < MaxCalls                                       \* the bound
  /\ calls' = Append(calls, Row(p, "started"))
  /\ placed' = Kept
  /\ ring' = Proceed([ring EXCEPT !.used = @ \cup Members(p), !.started = @ + 1], p)
  /\ UNCHANGED <<cdrs, pairingVars>>

\* originate_call raised, before or after the call was placed.
RingFail(p) ==
  /\ ring.pc \in {"calling", "placed"} /\ IsNext(p)
  /\ Len(calls) < MaxCalls                                       \* the bound
  /\ calls' = Append(calls, Row(p, "failed"))
  /\ placed' = Kept
  /\ ring' = Proceed(ring, p)
  /\ UNCHANGED <<cdrs, pairingVars>>

\* Nothing left to call; or list_sims or a commit raised, or the process is lost.
\* Nothing tells of a call that has just been placed.
RingStop ==
  /\ ring.pc # "idle"
  /\ ring' = NoRing
  /\ UNCHANGED <<calls, cdrs, placed, pairingVars>>

\* TmLite finalizes a record.
Finalize(c) ==
  /\ cdrs[c].verdict = "open"
  /\ \E v \in {"COMPLETED", "FAILED"} : cdrs' = [cdrs EXCEPT ![c].verdict = v]
  /\ UNCHANGED <<calls, ring, placed, pairingVars>>

CallInit == calls = <<>> /\ cdrs = <<>> /\ ring = NoRing /\ placed = <<>>

CallNext ==
  \/ RingStart \/ RingReconcile \/ RingStop
  \/ \E p \in PairIds : RingOriginate(p) \/ RingRecord(p) \/ RingFail(p)
  \/ \E c \in DOMAIN cdrs : Finalize(c)

-----------------------------------------------------------------------------
(* Properties. *)

\* Once TmLite was made to call a pair it is not made to again within the interval,
\* whatever became of the call and of the runs after it.  The one exception is a run
\* cut short between the call and the commit of its row.
CallCadence ==
  \A i, j \in DOMAIN placed :
    i < j /\ placed[i].pair = placed[j].pair /\ placed[i].kept
      => placed[j].at - placed[i].at >= CallInterval

\* A call said to be completed was: its caller completed one to that SIM, then or
\* later, if the SIM has always been listed with its number.
CompletedWasMade ==
  \A i \in DOMAIN calls : calls[i].status = "completed" =>
    \/ \E v \in Views[calls[i].to] : v.state = "ABSENT"
    \/ \E c \in DOMAIN cdrs : /\ cdrs[c].verdict = "COMPLETED" /\ cdrs[c].at >= calls[i].at
                              /\ cdrs[c].from = calls[i].from /\ cdrs[c].to = calls[i].to

=============================================================================
