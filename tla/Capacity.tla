------------------------------ MODULE Capacity ------------------------------
(***************************************************************************)
(* The live probe of scripts/run_capacity_smoke.py: it creates a battle    *)
(* session, posts one report per tick, each after the answer to the one    *)
(* before, counts what the server shows of them and, however that ends,    *)
(* stops the session.  It sends no token: behind the API server's own      *)
(* authentication every request of it is refused.                          *)
(***************************************************************************)
EXTENDS BattleSession

CONSTANTS Gateways,  \* whether something in front of the server authenticates: set of BOOLEAN
          ProbePosts,    \* ProbePosts[t]: the request that delivers the report of tick t
          ProbeReports,  \* ProbeReports[t]: that report
          ProbeStop      \* the request that stops the session

\* The probe makes a request for each tick and one for the stop; its reports have
\* times and a state of their own and one event at most (build_radar_report_payload).
ASSUME ProbeAssumption ==
    LET ticks == 1 .. Len(ProbePosts)
    IN  /\ ProbePosts \in Seq(Deliveries) /\ Len(ProbePosts) > 0
        /\ ProbeReports \in [ticks -> Reports]
        /\ \A t, u \in ticks : t # u => ProbePosts[t] # ProbePosts[u] /\ ProbeReports[t] # ProbeReports[u]
        /\ \A t \in ticks : /\ Payload[ProbeReports[t]].state
                             /\ \A e, f \in Payload[ProbeReports[t]].events : e = f
        /\ ProbeStop \in Stops

VARIABLE probe  \* the script: pc, tick, gateway; result; session: it knows the id; lost: what it
                \* has given up waiting for

Ticks == Len(ProbePosts)
\* Ticks in which build_radar_report_payload injects an event, for two tracks or more.
EventTicks == {t \in 1..Ticks : Payload[ProbeReports[t]].events # {}}
\* build_capacity_profile
Profile == [snapshots |-> Ticks, events |-> Cardinality(EventTicks)]

ProbeInit == \E gateway \in Gateways :
    probe = [pc |-> "idle", tick |-> 1, gateway |-> gateway, session |-> FALSE,
             waiting |-> FALSE, lost |-> {}, result |-> None]

ProbeAt(place) == probe.pc = place
ProbeGoes(place) == probe' = [probe EXCEPT !.pc = place, !.waiting = FALSE]
\* The finally block stands behind everything after the id is known.
RaisesFrom(place) == IF place = "create" THEN "over" ELSE "stop"

ProbeStarts == ProbeAt("idle") /\ ProbeGoes("create") /\ UNCHANGED vars

ProbeSendsCreate == /\ ProbeAt("create") /\ ~probe.waiting
                    /\ IF probe.gateway
                       THEN InsertSession /\ probe' = [probe EXCEPT !.waiting = TRUE]
                       ELSE ProbeGoes("over") /\ UNCHANGED vars
ProbeCreated == /\ ProbeAt("create") /\ probe.waiting /\ pc[Creator] \in Over
                /\ probe' = IF pc[Creator] = "acked"
                            THEN [probe EXCEPT !.pc = "post", !.waiting = FALSE, !.session = TRUE]
                            ELSE [probe EXCEPT !.pc = "over", !.waiting = FALSE, !.lost = @ \cup {Creator}]
                /\ UNCHANGED vars

ProbeSends == /\ ProbeAt("post") /\ ~probe.waiting
              /\ Receive(ProbePosts[probe.tick], ProbeReports[probe.tick])
              /\ probe' = [probe EXCEPT !.waiting = TRUE]
\* Mutant: a report that is refused is passed over.
ProbePostedAnyway ==
    /\ ProbeAt("post") /\ probe.waiting /\ pc[ProbePosts[probe.tick]] \in Over
    /\ probe' = [probe EXCEPT !.waiting = FALSE, !.tick = IF @ < Ticks THEN @ + 1 ELSE @,
                              !.pc = IF probe.tick < Ticks THEN "post" ELSE "read"]
    /\ UNCHANGED vars
ProbePosted ==
    /\ ProbeAt("post") /\ probe.waiting /\ pc[ProbePosts[probe.tick]] \in Over
    /\ IF pc[ProbePosts[probe.tick]] = "failed" THEN ProbeGoes("stop")
       ELSE probe' = [probe EXCEPT !.waiting = FALSE, !.tick = IF @ < Ticks THEN @ + 1 ELSE @,
                                   !.pc = IF probe.tick < Ticks THEN "post" ELSE "read"]
    /\ UNCHANGED vars

\* The timeline, the snapshots and the report of the session: the report counts
\* the shots in the snapshots.
ProbeReads == /\ ProbeAt("read") /\ row # None
              /\ probe' = [probe EXCEPT !.pc = "stop",
                                        !.result = [snapshots |-> Cardinality(snapshots),
                                                    events |-> Cardinality({shown \in snapshots \X EventIds : shown[2] \in shown[1].events})]]
              /\ UNCHANGED vars

\* Mutant: only a probe that went well stops its session.
ProbeFailsUnstopped ==
    /\ probe.pc \in {"create", "post", "read"}
    /\ probe' = [probe EXCEPT !.pc = "over", !.waiting = FALSE]
    /\ UNCHANGED vars
\* A request fails or passes its deadline: the server may go on with it.
ProbeFails ==
    /\ probe.pc \in {"create", "post", "read"}
    /\ probe' = [probe EXCEPT !.pc = RaisesFrom(@), !.waiting = FALSE,
                              !.lost = IF ~probe.waiting THEN @
                                       ELSE @ \cup {IF ProbeAt("create") THEN Creator ELSE ProbePosts[probe.tick]}]
    /\ UNCHANGED vars

ProbeSendsStop == /\ ProbeAt("stop") /\ ~probe.waiting
                  /\ StopSession(ProbeStop)
                  /\ probe' = [probe EXCEPT !.waiting = TRUE]
\* Answered, refused, not sent at all or too late.
ProbeStopped == /\ ProbeAt("stop")
                /\ IF probe.waiting /\ pc[ProbeStop] \in Over THEN ProbeGoes("over")
                   ELSE probe' = [probe EXCEPT !.pc = "over", !.waiting = FALSE, !.lost = @ \cup {ProbeStop}]
                /\ UNCHANGED vars

ProbeStep == \/ ProbeStarts \/ ProbeSendsCreate \/ ProbeCreated \/ ProbeSends \/ ProbePosted
             \/ ProbeReads \/ ProbeFails \/ ProbeSendsStop \/ ProbeStopped
=============================================================================
