----------------------------- MODULE Retention ------------------------------
(***************************************************************************)
(* scripts/retention_maintenance.py beside the API server: every step is a *)
(* psql command of its own, with a cutoff of its own, and nothing ties the *)
(* battle tables to their session but the order of the steps.  A failed    *)
(* step ends the run; the next run begins again from the first.            *)
(*                                                                         *)
(* Only the battle tables are here: the steps on tracks, alarms and        *)
(* dispatch events and the cap on targets, which leave the others alone,   *)
(* are left out.                                                           *)
(***************************************************************************)
EXTENDS BattleSession

CONSTANTS Policies,   \* command lines: [apply, age : BOOLEAN, snapshots, events : Nat], 0 for no cap
          MaxPrunes   \* bound: runs of the script with --apply

VARIABLES old,    \* writes to the session row that lie before the cutoff, by their request
          prune   \* the process: pc, policy, the step it is at; runs: how many there were;
                  \* history of the run: disturbed, a request was busy during it or the cutoff
                  \* moved; before, the tables when it began, unless it is disturbed

retentionVars == <<old, prune>>
data == <<row, current, events, snapshots>>

\* Mutant: the sessions are deleted before their snapshots.
AgeStepsSessionsFirst ==
    <<"battle_sessions_age", "battle_snapshots_age", "battle_events_age",
      "radar_targets_age", "battle_projectiles_age", "battle_units_age">>
AgeSteps == <<"battle_snapshots_age", "battle_events_age", "radar_targets_age",
              "battle_projectiles_age", "battle_units_age", "battle_sessions_age">>
BuildSteps(policy) == (IF policy.age THEN AgeSteps ELSE <<>>)
                      \o (IF policy.snapshots > 0 THEN <<"battle_snapshots_cap">> ELSE <<>>)
                      \o (IF policy.events > 0 THEN <<"battle_events_cap">> ELSE <<>>)

\* The run refuses to start without a threshold.
ASSUME RetentionAssumption == \A policy \in Policies : BuildSteps(policy) # <<>>

RetentionInit == /\ old = {}
                 /\ prune = [pc |-> "idle", policy |-> None, i |-> 1, runs |-> 0,
                             disturbed |-> FALSE, before |-> None]

\* History: something moved between two steps of a run.
Disturb == prune' = IF prune.pc = "running" THEN [prune EXCEPT !.disturbed = TRUE, !.before = None]
                    ELSE prune

\* Time passes: what has been written by requests that are over lies before the cutoff.
DaysPass == /\ old' = {p \in Processes : pc[p] \in Over}
            /\ old' # old
            /\ Disturb
            /\ UNCHANGED vars

\* status <> 'running' AND COALESCE(stopped_at, updated_at, started_at) < cutoff
Ended == row # None /\ row.status # "running"
Stamp == IF row.stoppedAt # None THEN row.stoppedAt ELSE row.updatedAt
Prunable == Ended /\ Stamp \in old

\* A run begins; without a session it would find nothing.  A preview or a last run
\* beside a request would show nothing that an earlier run beside it does not.
PruneStart ==
    /\ prune.pc = "idle" /\ prune.runs < MaxPrunes
    /\ row # None
    /\ LET disturbed == \E p \in Processes : Busy(p) IN
       \E policy \in Policies :
          /\ ~disturbed \/ (policy.apply /\ prune.runs + 1 < MaxPrunes)
          /\ prune' = [pc |-> "running", policy |-> policy, i |-> 1,
                       runs |-> IF policy.apply THEN prune.runs + 1 ELSE prune.runs,
                       disturbed |-> disturbed, before |-> IF disturbed THEN None ELSE data]
    /\ UNCHANGED <<vars, old>>

PruneSteps == BuildSteps(prune.policy)
AtPruneStep == prune.pc = "running" /\ prune.i <= Len(PruneSteps)

\* row_number() over the times, newest first: reports by their time; the time of
\* a snapshot without a report may lie anywhere.
Newest(kept, n) ==
    /\ kept \subseteq snapshots
    /\ Cardinality(kept) = Min({n, Cardinality(snapshots)})
    /\ \A s \in kept, t \in snapshots \ kept : {s.time, t.time} \subseteq Reports => s.time > t.time

\* One DELETE; that of the session waits for its row lock.
RunStep(step) ==
    /\ snapshots' \in CASE step = "battle_snapshots_age" /\ Prunable -> {{}}
                        [] step = "battle_snapshots_cap" /\ Ended ->
                              {kept \in SUBSET snapshots : Newest(kept, prune.policy.snapshots)}
                        [] OTHER -> {snapshots}
    /\ events' \in CASE step = "battle_events_age" /\ Prunable -> {{}}
                     [] step = "battle_events_cap" /\ Ended ->
                           {kept \in SUBSET events : Cardinality(kept) = Min({prune.policy.events, Cardinality(events)})}
                     [] OTHER -> {events}
    /\ current' = CASE step = "radar_targets_age" /\ Prunable -> [current EXCEPT !["targets"] = NoRows]
                    [] step = "battle_projectiles_age" /\ Prunable -> [current EXCEPT !["projectiles"] = NoRows]
                    [] step = "battle_units_age" /\ Prunable -> [current EXCEPT !["units"] = NoRows]
                    [] OTHER -> current
    /\ IF step = "battle_sessions_age" /\ Prunable THEN lock = None /\ row' = None ELSE UNCHANGED row

\* run_scalar of the step's statement.  The previews of a run without --apply only
\* count, and are merged into one.
PruneStep ==
    /\ AtPruneStep
    /\ IF prune.policy.apply
       THEN RunStep(PruneSteps[prune.i]) /\ prune' = [prune EXCEPT !.i = @ + 1]
       ELSE UNCHANGED data /\ prune' = [prune EXCEPT !.i = Len(PruneSteps) + 1]
    /\ UNCHANGED <<lock, pc, loc, sent, alone, old>>

\* psql is missing or ends with an error: SystemExit.
PruneOver == /\ prune' = [prune EXCEPT !.pc = "idle", !.policy = None, !.i = 1, !.before = None]
             /\ UNCHANGED <<vars, old>>
PruneFails == AtPruneStep /\ PruneOver

PruneDone == prune.pc = "running" /\ prune.i > Len(PruneSteps)
PruneEnds == PruneDone /\ PruneOver

Retain == PruneStart \/ PruneStep \/ PruneFails \/ PruneEnds

HasRows == snapshots # {} \/ events # {} \/ current # NoTables
=============================================================================
