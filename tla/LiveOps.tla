------------------------------- MODULE LiveOps ------------------------------
(***************************************************************************)
(* The scripts that work on a running system, on one battle session: it is *)
(* the one of a smoke check, of a capacity probe or of a simulator, whose  *)
(* posts and stops come at any time; the retention script may run beside.  *)
(***************************************************************************)
EXTENDS Retention, Smoke, Capacity

CONSTANTS Users,       \* who makes the session: "smoke", "probe", "simulator"
          SimPosts,    \* the requests that deliver the simulator's reports
          SimReports   \* what it posts

ASSUME LiveAssumption == /\ Users \subseteq {"smoke", "probe", "simulator"}
                         /\ SimPosts \subseteq Deliveries /\ SimReports \subseteq Reports
                         /\ None \notin Rows

VARIABLE user

liveVars == <<vars, old, prune, smokeVars, probe, user>>

LiveInit == /\ Init /\ RetentionInit /\ SmokeInit /\ ProbeInit
            /\ user \in Users
            /\ user = "probe" \/ ~probe.gateway

\* The requests of the server go on by themselves once they have begun.
ServerStep(p) == \/ InsertOwnEvent(p, IF p = Creator THEN "startEvent" ELSE "stopEvent")
                 \/ UpsertRadarTargets(p) \/ UpsertBattleUnits(p) \/ UpsertBattleProjectiles(p)
                 \/ CreateBattleEvents(p) \/ UpdateBattleSessionScan(p)
                 \/ ReadSession(p) \/ ReadLists(p) \/ LockSession(p) \/ InsertSnapshot(p)
                 \/ (p \in Stops /\ (RereadState(p) \/ StopSnapshotFails(p)))
                 \/ Fail(p)
ServerMoves == /\ \E p \in Processes : \/ ServerStep(p) /\ UNCHANGED <<published, start, received>>
                                       \/ Broadcast(p) /\ Publish(p)
               /\ Disturb /\ UNCHANGED old
               /\ UNCHANGED <<smoke, probe, user>>

Smoking == user = "smoke" /\ (SmokeStep \/ Registered) /\ UNCHANGED <<retentionVars, probe, user>>
Probing == user = "probe" /\ ProbeStep /\ UNCHANGED <<retentionVars, smokeVars, user>>
\* The simulator of a session and whoever stops it.
Simulating == /\ user = "simulator"
              /\ \/ InsertSession
                 \/ \E d \in SimPosts, r \in SimReports : Receive(d, r)
                 \/ \E s \in Stops : StopSession(s)
              /\ Disturb
              /\ UNCHANGED <<old, smokeVars, probe, user>>
\* What it prunes is a session that has ended: that of a smoke check never does.
Retaining == user = "simulator" /\ (Retain \/ DaysPass) /\ UNCHANGED <<smokeVars, probe, user>>

LiveNext == ServerMoves \/ Smoking \/ Probing \/ Simulating \/ Retaining
LiveSpec == LiveInit /\ [][LiveNext]_liveVars
-----------------------------------------------------------------------------
(* Properties.                                                             *)

\* A run of the retention script (retention_maintenance.py) that no request and no
\* move of the cutoff falls into leaves no row of a session it deletes, even
\* after earlier runs that failed half way; and a run that ends has taken the
\* whole session or has only thinned out the snapshots and events of one that
\* had ended, and nothing at all without --apply.
PrunedWhole ==
    /\ row = None /\ pc[Creator] \in Over /\ ~prune.disturbed => ~HasRows
    /\ PruneDone /\ ~prune.disturbed =>
          \/ data = prune.before
          \/ prune.policy.apply /\ row = None
          \/ /\ prune.policy.apply /\ row = prune.before[1] /\ row.status # "running"
             /\ current = prune.before[2]
             /\ events \subseteq prune.before[3] /\ snapshots \subseteq prune.before[4]

\* A smoke check (smoke_check.py) of which no request failed or was late passes,
\* but for two races: the server registers the connection, whose upgrade it
\* answered, only after the report's broadcasts, or the hub hands it the state
\* that the creation of the session broadcast.
SmokeFailsOnlyByRace ==
    SmokeOver /\ ~smoke.ok /\ ~smoke.troubled => (smoke.early /\ Late) \/ ~WithTargets

\* A smoke check that passes has seen its report through: its rows and its
\* snapshot are there, and every message that the server makes of it came over
\* the connection; the session runs on, which no prune will ever touch.
SmokePassMeans ==
    SmokeOver /\ smoke.ok =>
       /\ pc[SmokePost] = "acked"
       /\ \A k \in Kinds : \A n \in Payload[SmokeReport].rows[k] : current[k][n] = SmokeReport
       /\ Payload[SmokeReport].events \subseteq events
       /\ \E s \in snapshots : s.by = SmokePost
       /\ {m \in sent : m.by = SmokePost} \subseteq ToSet(received[Connection])
       /\ row.status = "running"

\* A probe (run_capacity_smoke.py) leaves its session running only if it never
\* learned of it, its stop was lost or failed, or a report it had given up was
\* served after the stop.
LeftRunningOnlyByLoss ==
    probe.pc = "over" /\ row # None /\ row.status = "running" =>
       probe.lost \cap {Creator, ProbeStop} # {} \/ row.updatedAt \in probe.lost

\* A probe that comes to a result has seen what its estimate says of a run.
ProbeMeasuresEstimate == probe.result # None => probe.result = Profile
=============================================================================
