---------------------------- MODULE BattleSession ----------------------------
(***************************************************************************)
(* One battle session in the API server and its tables: creation, radar    *)
(* reports posted by the simulator and the stop (services.go) over the     *)
(* store (repositories/store.go).                                          *)
(*                                                                         *)
(* Atomicity: one step per statement or transaction of the database; the   *)
(* transaction of AppendBattleSnapshot takes two, with the lock on the     *)
(* session row held between them.  Sessions share nothing, so there is     *)
(* one.  Every element of Deliveries is one POST of some report: a report  *)
(* is posted again after a failure or a lost answer, and a post the client *)
(* gave up may still be running.  Report r carries the time r.             *)
(*                                                                         *)
(* Merged: the four list queries of GetBattleState, and the broadcasts of  *)
(* one handler.  The outcome of a commit is known to the handler.          *)
(***************************************************************************)
EXTENDS Integers, Sequences, FiniteSets, FiniteSetsExt

CONSTANTS Reports,     \* payloads, numbered in the order of their times
          Payload,     \* Payload[r]: what report r says
          EventIds,    \* battle events of the simulator
          RowNames,    \* keys of the rows a report may name, in any of its tables
          Deliveries,  \* requests that post a report
          Stops,       \* requests that stop the session
          Creator,     \* the request that creates it
          None

\* The statuses battle_sim.py reports, or no status.
ReportStatuses == {"", "running", "blue_victory", "red_victory"}
\* repeats: two units see one ship, so the targets name it twice; state: the report
\* carries the state of the battle and not only what the radar saw.
\* rows: the targets, units and projectiles it names.
Kinds == {"targets", "units", "projectiles"}
Payloads == [status : ReportStatuses, events : SUBSET EventIds,
             repeats : BOOLEAN, state : BOOLEAN, rows : [Kinds -> SUBSET RowNames]]

ASSUME PayloadAssumption ==
    /\ Reports \subseteq Nat \ {0}
    /\ Payload \in [Reports -> Payloads]
    /\ \A r \in Reports :
          /\ ~Payload[r].state => /\ Payload[r].events = {} /\ Payload[r].status = ""
                                 /\ \A k \in Kinds \ {"targets"} : Payload[r].rows[k] = {}
          /\ Payload[r].repeats => Payload[r].rows["targets"] # {}

Processes == Deliveries \cup Stops \cup {Creator}

\* Every request has one handler, and a time the server takes is that of no report.
ASSUME RequestAssumption ==
    /\ Deliveries \cap Stops = {}
    /\ Creator \notin Deliveries \cup Stops
    /\ None \notin Processes \cup Reports
    /\ Reports \cap Processes = {}

VARIABLES row,        \* row of battle_sessions, None before the insert
          lock,       \* who holds the lock on that row, or None
          current,    \* rows of radar_targets, battle_units and battle_projectiles:
                      \* the report that last wrote each, None for no row
          events,     \* rows of battle_events, by event id
          snapshots,  \* rows of battle_snapshots
          pc,         \* pc[p]: what request p does next
          loc,        \* loc[p]: locals of the handler of p
          sent,       \* what was passed to hub.Broadcast
          alone       \* history: posts no other request overlapped

vars == <<row, lock, current, events, snapshots, pc, loc, sent, alone>>
tables == <<row, lock, current, events, snapshots>>

Times == Reports \cup Processes
Rows == [status : {"running", "stopped", "blue_victory", "red_victory"},
         stoppedAt : Stops \cup {None}, scan : Reports \cup {None}, updatedAt : Processes]
Tables == [Kinds -> [RowNames -> Reports \cup {None}]]
\* Events written by the server itself, named by the request that writes them.
Ids == EventIds \cup Stops \cup {Creator}
Snapshots == [tick : Nat, time : Times, events : SUBSET Ids, of : Tables, by : Processes]
\* time: updatedAt of the state read; of: the tables read; inserted: rows of the
\* insert into battle_events; tick: the tick the transaction computed
Locals == [report : Reports \cup {None}, inserted : SUBSET EventIds,
           time : Times \cup {None}, of : Tables, tick : Nat]
NoRows == [n \in RowNames |-> None]
NoTables == [k \in Kinds |-> NoRows]
NoLocals == [report |-> None, inserted |-> {}, time |-> None,
             of |-> NoTables, tick |-> 0]

ReportPcs == {"targets", "units", "projectiles", "events", "scan", "session", "lists",
              "append", "insert", "broadcast"}
StopPcs == {"reread", "stopEvent", "session", "lists", "append", "insert", "broadcast"}
CreatePcs == {"startEvent", "session", "lists", "broadcast"}
Over == {"acked", "failed"}
Busy(p) == pc[p] \notin Over \cup {"idle"}

\* The lock is held between the two steps of its holder's transaction and at no other
\* time: a request that waits for it waits for one that goes on or fails.
TypeOK == /\ row \in Rows \cup {None}
          /\ lock \in Deliveries \cup Stops \cup {None}
          /\ current \in Tables
          /\ events \subseteq Ids
          /\ snapshots \subseteq Snapshots
          /\ pc \in [Processes -> ReportPcs \cup StopPcs \cup CreatePcs \cup Over \cup {"idle"}]
          /\ loc \in [Processes -> Locals]
          /\ \A p \in Processes : (lock = p) <=> pc[p] = "insert"
          /\ alone \subseteq Deliveries

Init == /\ row = None
        /\ lock = None
        /\ current = NoTables
        /\ events = {}
        /\ snapshots = {}
        /\ pc = [p \in Processes |-> "idle"]
        /\ loc = [p \in Processes |-> NoLocals]
        /\ sent = {}
        /\ alone = {}
-----------------------------------------------------------------------------
Goto(p, l) == pc' = [pc EXCEPT ![p] = l]
\* What p does not look at any more after its snapshot.
SnapshotOver(p) == loc' = [loc EXCEPT ![p].of = NoTables, ![p].tick = 0]

\* p starts: it and everyone who is busy overlap.  The id of the session is made by
\* the request that creates it: others name it when that request is over.
Begin(p) ==
    LET others == {q \in Processes \ {p} : Busy(q)}
    IN  /\ ~Busy(Creator)
        /\ alone' = IF others = {} THEN alone \cup ({p} \cap Deliveries) ELSE alone \ others

\* An error of the database, a canceled request or the death of the server ends p;
\* what it committed stays, and an open transaction is rolled back.
Fail(p) ==
    /\ Busy(p)
    /\ Goto(p, "failed")
    /\ loc' = [loc EXCEPT ![p] = [NoLocals EXCEPT !.report = loc[p].report]]
    /\ lock' = IF lock = p THEN None ELSE lock
    /\ UNCHANGED <<row, current, events, snapshots, sent, alone>>
-----------------------------------------------------------------------------
(* CreateBattleSession.                                                    *)

InsertSession ==
    /\ pc[Creator] = "idle"
    /\ Begin(Creator)
    /\ row' = [status |-> "running", stoppedAt |-> None, scan |-> None,
               updatedAt |-> Creator]
    /\ Goto(Creator, "startEvent")
    /\ UNCHANGED <<lock, current, events, snapshots, loc, sent>>

\* The error of this insert is thrown away, at the start as at the stop.
InsertOwnEvent(p, from) ==
    /\ pc[p] = from
    /\ events' \in {events, events \cup {p}}
    /\ Goto(p, "session")
    /\ UNCHANGED <<row, lock, current, snapshots, loc, sent, alone>>
-----------------------------------------------------------------------------
(* ReceiveRadarReport up to the session row.                               *)

\* A report for a session that does not exist ends the request here.
Receive(d, r) ==
    /\ pc[d] = "idle"
    /\ Begin(d)
    /\ loc' = [loc EXCEPT ![d].report = r]
    /\ Goto(d, IF row = None THEN "failed" ELSE "targets")
    /\ UNCHANGED <<tables, sent>>

\* The rows that p's report names in table k are inserted or overwritten; the others,
\* all of them when its list is empty, stay as they are.
Upsert(p, k, next) ==
    /\ pc[p] = k
    /\ current' = [current EXCEPT ![k] = [n \in RowNames |->
                      IF n \in Payload[loc[p].report].rows[k] THEN loc[p].report ELSE @[n]]]
    /\ Goto(p, next)
    /\ UNCHANGED <<row, lock, events, snapshots, loc, sent, alone>>

\* INSERT ... ON CONFLICT DO UPDATE refuses a batch that names one row twice.
UpsertRadarTargets(d) ==
    LET r == loc[d].report
    IN  /\ pc[d] = "targets"
        /\ IF Payload[r].repeats
           THEN Fail(d)
           ELSE Upsert(d, "targets", IF Payload[r].state THEN "units" ELSE "scan")

\* Mutant: a unit is inserted by the first report that names it, never updated.
UpsertBattleUnitsOnce(d) ==
    /\ pc[d] = "units"
    /\ current' = [current EXCEPT !["units"] = [n \in RowNames |->
          IF n \in Payload[loc[d].report].rows["units"] /\ @[n] = None THEN loc[d].report ELSE @[n]]]
    /\ Goto(d, "projectiles")
    /\ UNCHANGED <<row, lock, events, snapshots, loc, sent, alone>>

UpsertBattleUnits(d) == Upsert(d, "units", "projectiles")
UpsertBattleProjectiles(d) == Upsert(d, "projectiles", "events")

\* Mutant: the rows of the payload are reported as inserted, new or not.
CreateBattleEventsReturnsAll(d) ==
    /\ pc[d] = "events"
    /\ events' = events \cup Payload[loc[d].report].events
    /\ loc' = [loc EXCEPT ![d].inserted = Payload[loc[d].report].events]
    /\ Goto(d, "scan")
    /\ UNCHANGED <<row, lock, current, snapshots, sent, alone>>

\* ON CONFLICT DO NOTHING; only the rows the insert made come back.
CreateBattleEvents(d) ==
    /\ pc[d] = "events"
    /\ events' = events \cup Payload[loc[d].report].events
    /\ loc' = [loc EXCEPT ![d].inserted = Payload[loc[d].report].events \ events]
    /\ Goto(d, "scan")
    /\ UNCHANGED <<row, lock, current, snapshots, sent, alone>>

\* Mutant: last_scan_at is written by reports that carry a status only.
UpdateBattleSessionScanLazy(d) ==
    /\ pc[d] = "scan"
    /\ lock = None
    /\ row' = IF Payload[loc[d].report].status \in {"", "running"} THEN row
              ELSE [row EXCEPT !.status = Payload[loc[d].report].status,
                               !.scan = loc[d].report, !.updatedAt = d]
    /\ Goto(d, "session")
    /\ UNCHANGED <<lock, current, events, snapshots, loc, sent, alone>>

\* A blind write: neither a stopped session nor a newer scan is looked at, and a
\* session that is gone is no error.
UpdateBattleSessionScan(d) ==
    LET r == loc[d].report
    IN  /\ pc[d] = "scan"
        /\ lock = None
        /\ row' = IF row = None THEN None
                  ELSE [row EXCEPT !.scan = r, !.updatedAt = d,
                                   !.status = IF Payload[r].status = "" THEN @ ELSE Payload[r].status]
        /\ Goto(d, "session")
        /\ UNCHANGED <<lock, current, events, snapshots, loc, sent, alone>>
-----------------------------------------------------------------------------
(* GetBattleState and the snapshot, for all three handlers.  A session that *)
(* is gone is an error (Fail).                                             *)

ReadSession(p) ==
    /\ pc[p] = "session"
    /\ row # None
    /\ loc' = [loc EXCEPT ![p].time = IF row.scan # None THEN row.scan ELSE row.updatedAt]
    /\ Goto(p, "lists")
    /\ UNCHANGED <<tables, sent, alone>>

\* Only a report with a state and a stop go on to take a snapshot; the others
\* broadcast the time of what they read.
ReadLists(p) ==
    /\ pc[p] = "lists"
    /\ IF p \in Stops \/ (p \in Deliveries /\ Payload[loc[p].report].state)
       THEN Goto(p, "append") /\ loc' = [loc EXCEPT ![p].of = current]
       ELSE Goto(p, "broadcast") /\ UNCHANGED loc
    /\ UNCHANGED <<tables, sent, alone>>

TickEvents(p) == IF p \in Stops THEN {p} ELSE Payload[loc[p].report].events
NextTick == Max({s.tick : s \in snapshots} \cup {0}) + 1

\* Mutant: the row is read without FOR UPDATE.
LockSessionShared(p) ==
    /\ pc[p] = "append"
    /\ IF \E s \in snapshots : s.time = loc[p].time
       THEN Goto(p, "broadcast") /\ SnapshotOver(p)
       ELSE /\ loc' = [loc EXCEPT ![p].tick = NextTick]
            /\ Goto(p, "insert")
    /\ UNCHANGED <<tables, sent, alone>>

\* Mutant: the early return leaves the transaction open.
LockSessionKept(p) ==
    /\ pc[p] = "append"
    /\ lock = None
    /\ lock' = p
    /\ IF \E s \in snapshots : s.time = loc[p].time
       THEN Goto(p, "broadcast") /\ SnapshotOver(p)
       ELSE /\ loc' = [loc EXCEPT ![p].tick = NextTick]
            /\ Goto(p, "insert")
    /\ UNCHANGED <<row, current, events, snapshots, sent, alone>>

\* AppendBattleSnapshot: lock the row; a time that has a snapshot ends it here.
LockSession(p) ==
    /\ pc[p] = "append"
    /\ lock = None
    /\ row # None
    /\ IF \E s \in snapshots : s.time = loc[p].time
       THEN Goto(p, "broadcast") /\ UNCHANGED lock /\ SnapshotOver(p)
       ELSE /\ lock' = p
            /\ loc' = [loc EXCEPT ![p].tick = NextTick]
            /\ Goto(p, "insert")
    /\ UNCHANGED <<row, current, events, snapshots, sent, alone>>

\* Insert the row and commit.
InsertSnapshot(p) ==
    /\ pc[p] = "insert"
    /\ snapshots' = snapshots \cup {[tick |-> loc[p].tick, time |-> loc[p].time,
                                    events |-> TickEvents(p), of |-> loc[p].of, by |-> p]}
    /\ lock' = None
    /\ Goto(p, "broadcast")
    /\ SnapshotOver(p)
    /\ UNCHANGED <<row, current, events, sent, alone>>

\* StopBattleSession throws the error of its snapshot away.
StopSnapshotFails(s) ==
    /\ pc[s] \in {"append", "insert"}
    /\ lock' = IF lock = s THEN None ELSE lock
    /\ Goto(s, "broadcast")
    /\ SnapshotOver(s)
    /\ UNCHANGED <<row, current, events, snapshots, sent, alone>>
-----------------------------------------------------------------------------
(* The stop and the ends.                                                  *)

\* Store.StopBattleSession: a stopped session is left as it is and only read for the
\* answer, any other is stopped now, whatever its status; a missing one is an error.
StopSession(s) ==
    /\ pc[s] = "idle"
    /\ lock = None
    /\ Begin(s)
    /\ IF row = None
       THEN Goto(s, "failed") /\ UNCHANGED row
       ELSE IF row.status = "stopped"
       THEN Goto(s, "reread") /\ UNCHANGED row
       ELSE /\ row' = [row EXCEPT !.status = "stopped", !.stoppedAt = s, !.updatedAt = s]
            /\ Goto(s, "stopEvent")
    /\ UNCHANGED <<lock, current, events, snapshots, loc, sent>>

RereadState(s) ==
    /\ pc[s] = "reread"
    /\ row # None
    /\ Goto(s, "acked")
    /\ UNCHANGED <<tables, loc, sent, alone>>

\* What the handler of p sends to the hub before it answers.
Messages(p) ==
    LET r == loc[p].report
        scan == {[type |-> "radar_scan_updated", by |-> p, of |-> r]}
        shots == {[type |-> "projectile_updated", by |-> p, of |-> n] :
                     n \in Payload[r].rows["projectiles"]}
        news == {[type |-> "battle_event_created", by |-> p, of |-> e] : e \in loc[p].inserted}
        state == {[type |-> "battle_state_updated", by |-> p, of |-> loc[p].time]}
    IN  IF p \notin Deliveries THEN state
        ELSE IF Payload[r].state THEN scan \cup shots \cup news \cup state
        ELSE scan

Broadcast(p) ==
    /\ pc[p] = "broadcast"
    /\ sent' = sent \cup Messages(p)
    /\ Goto(p, "acked")
    /\ loc' = [loc EXCEPT ![p] = [NoLocals EXCEPT !.report = loc[p].report,
                                                  !.inserted = loc[p].inserted]]
    /\ UNCHANGED <<tables, alone>>
-----------------------------------------------------------------------------
Create == InsertSession \/ InsertOwnEvent(Creator, "startEvent")
Deliver(d) == \/ \E r \in Reports : Receive(d, r)
              \/ UpsertRadarTargets(d) \/ UpsertBattleUnits(d) \/ UpsertBattleProjectiles(d)
              \/ CreateBattleEvents(d)
              \/ UpdateBattleSessionScan(d)
Stop(s) == StopSession(s) \/ RereadState(s) \/ InsertOwnEvent(s, "stopEvent") \/ StopSnapshotFails(s)
Shared(p) == ReadSession(p) \/ ReadLists(p) \/ LockSession(p) \/ InsertSnapshot(p) \/ Broadcast(p)

Next == \/ Create
        \/ \E d \in Deliveries : Deliver(d)
        \/ \E s \in Stops : Stop(s)
        \/ \E p \in Processes : Shared(p) \/ Fail(p)

Spec == Init /\ [][Next]_vars
-----------------------------------------------------------------------------
(* Properties.                                                             *)

\* The ticks of the replay are 1, 2, 3, ... without a gap, and no two snapshots
\* have one time, whatever requests append at once (AppendBattleSnapshot).
TicksContiguous ==
    /\ {s.tick : s \in snapshots} = 1 .. Cardinality(snapshots)
    /\ \A s, t \in snapshots : (s.time = t.time) => (s = t)

\* The messages that announce event e.
Announcing(e) == {m \in sent : m.type = "battle_event_created" /\ m.of = e}

\* An event is announced at most once, however often and at what times its report
\* is posted, and only when its row exists; the request that inserted it is the
\* one that announces it (CreateBattleEvents and the loop over insertedEvents).
AnnouncedOnce == \A e \in EventIds :
    /\ Cardinality(Announcing(e))
         + Cardinality({d \in Deliveries : Busy(d) /\ e \in loc[d].inserted}) <= 1
    /\ Announcing(e) # {} => e \in events
    /\ \A d \in Deliveries : pc[d] = "acked" /\ e \in loc[d].inserted => Announcing(e) # {}

\* No row of x is missing in y.
Within(x, y) == \A k \in Kinds, n \in RowNames : x[k][n] # None => y[k][n] # None

\* A snapshot taken by a report that no other request overlapped has the time and
\* the events of that report, and of the rows just those it names in its version,
\* even after failed or late posts of others; a row that it does not name stands as
\* another report left it, and none that was in an earlier snapshot is missing in
\* it, nor one of its own in a later (receiveRadarReportWithDeps and the upserts).
LoneSnapshotExact == \A s \in snapshots : s.by \in Deliveries \cap alone =>
    LET r == loc[s.by].report
    IN  /\ s.time = r
        /\ s.events = Payload[r].events
        /\ \A k \in Kinds, n \in RowNames : s.of[k][n] = r <=> n \in Payload[r].rows[k]
        /\ \A t \in snapshots : /\ t.tick < s.tick => Within(t.of, s.of)
                               /\ t.tick > s.tick => Within(s.of, t.of)

\* The posts of report r.
Posts(r) == {d \in Deliveries : loc[d].report = r}

\* A report that was accepted and that no other request overlapped has its events in
\* the table and a snapshot of its time in the replay, also when it is a retry,
\* comes after the stop or comes twice.  That snapshot shows its events, unless an
\* earlier post of the report wrote its time and went no further, and a stop or an
\* overlapped post took the snapshot of that time: then the retry finds the time
\* taken and the replay never shows them (AppendBattleSnapshot).
LoneAckIsReplayed == \A d \in Deliveries \cap alone :
    LET r == loc[d].report
    IN  pc[d] = "acked" /\ Payload[r].state =>
           /\ Payload[r].events \subseteq events
           /\ \E s \in snapshots :
                 /\ s.time = r
                 /\ s.events = Payload[r].events \/ (s.by \notin alone /\ Posts(r) # {d})

\* store_integration_test.go:241 "expected repeat stop not to rewrite stoppedAt",
\* openapi.yaml:516 "Stop a battle session idempotently": once written, stopped_at
\* stays (Store.StopBattleSession and UpdateBattleSessionScan).
StoppedAtWrittenOnce ==
    [][row # None /\ row.stoppedAt # None => row'.stoppedAt = row.stoppedAt]_row

\* radar_callback_test.go:233 "expected exactly one inserted battle event broadcast
\* across duplicates": when a post of a report is accepted and no other one is
\* under way, each of its events was announced once.
AnnouncedAcrossDuplicates == \A d \in Deliveries :
    (pc[d] = "acked" /\ \A q \in Deliveries : ~Busy(q)) =>
        \A e \in Payload[loc[d].report].events : Cardinality(Announcing(e)) = 1
=============================================================================
