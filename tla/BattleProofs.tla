---------------------------- MODULE BattleProofs ----------------------------
(***************************************************************************)
(* Proofs about BattleSession, for any reports, events and requests.       *)
(***************************************************************************)
EXTENDS BattleSession, FiniteSetTheorems, TLAPS

\* What a request knows at its place in the handler: which report it posts, the time of
\* the state it read, and the events its own insert may have made.
HandlerHolds(p) ==
    /\ p \in Deliveries /\ pc[p] # "idle" => loc[p].report \in Reports
    /\ pc[p] \in {"lists", "append", "insert"} => loc[p].time \in Times
    /\ p = Creator => pc[p] # "append"

\* Who holds the lock has the next tick, and the time it read has no snapshot.
TickHolds(p) == lock = p =>
    /\ loc[p].tick = Cardinality(snapshots) + 1
    /\ \A s \in snapshots : s.time # loc[p].time

SessionInv == /\ TypeOK
              /\ TicksContiguous
              /\ IsFiniteSet(snapshots)
              /\ \A p \in Processes : HandlerHolds(p) /\ TickHolds(p)

\* The highest tick of contiguous ticks is their number (nextTick in store.go).
LEMMA NextTickCounts ==
    ASSUME NEW n \in Nat, {s.tick : s \in snapshots} = 1 .. n
    PROVE  NextTick = n + 1
  <1> DEFINE ticks == {s.tick : s \in snapshots} \cup {0}
  <1>1. ticks = 0 .. n
    OBVIOUS
  <1> HIDE DEF ticks
  <1>2. \A x \in ticks : (\A y \in ticks : x >= y) <=> x = n
    BY <1>1
  <1>3. n \in ticks
    BY <1>1
  <1>4. Max(ticks) = n
    <2>1. \E x \in ticks : \A y \in ticks : x >= y
      BY <1>2, <1>3
    <2>2. Max(ticks) \in ticks /\ \A y \in ticks : Max(ticks) >= y
      BY <2>1 DEF Max
    <2>3. QED
      BY <1>2, <2>2
  <1>5. QED
    BY <1>4 DEF NextTick, ticks

\* The session does not exist yet and no request has begun.
LEMMA InitSession == Init => SessionInv
  <1> SUFFICES ASSUME Init PROVE SessionInv
    OBVIOUS
  <1>1. TypeOK
    BY RequestAssumption DEF Init, TypeOK, Tables, NoTables, NoRows, Locals, NoLocals, Processes
  <1>2. TicksContiguous /\ IsFiniteSet(snapshots)
    BY FS_EmptySet DEF Init, TicksContiguous
  <1>3. ASSUME NEW p \in Processes PROVE HandlerHolds(p) /\ TickHolds(p)
    BY <1>3, RequestAssumption DEF Init, HandlerHolds, TickHolds, Processes
  <1>4. QED
    BY <1>1, <1>2, <1>3 DEF SessionInv

\* What a step other than the insert of a snapshot has to do to keep the invariant: it
\* changes one request, and takes the lock only for a tick that is the next one.
LEMMA QuietStep ==
    ASSUME SessionInv, NEW p \in Processes, NEW place, NEW locals \in Locals,
           place \in ReportPcs \cup StopPcs \cup CreatePcs \cup Over,
           Goto(p, place), loc' = [loc EXCEPT ![p] = locals], snapshots' = snapshots,
           row' \in Rows \cup {None}, current' \in Tables, events' \subseteq Ids,
           alone' \subseteq Deliveries,
           p \in Deliveries => locals.report \in Reports,
           place \in {"lists", "append", "insert"} => locals.time \in Times,
           p = Creator => place # "append",
           IF place = "insert"
           THEN /\ lock \in {None, p} /\ lock' = p /\ p # Creator
                /\ locals.tick = Cardinality(snapshots) + 1
                /\ \A s \in snapshots : s.time # locals.time
           ELSE lock' = IF lock = p THEN None ELSE lock
    PROVE  SessionInv'
  <1>1. TypeOK'
    <2>1. lock' \in Deliveries \cup Stops \cup {None}
      BY DEF SessionInv, TypeOK, Processes
    <2>2. pc' \in [Processes -> ReportPcs \cup StopPcs \cup CreatePcs \cup Over \cup {"idle"}]
      BY DEF SessionInv, TypeOK, Goto
    <2>3. loc' \in [Processes -> Locals]
      BY DEF SessionInv, TypeOK
    <2>4. \A q \in Processes : (lock' = q) <=> pc'[q] = "insert"
      BY RequestAssumption DEF SessionInv, TypeOK, Goto
    <2>5. snapshots' \subseteq Snapshots
      BY DEF SessionInv, TypeOK
    <2>6. QED
      BY <2>1, <2>2, <2>3, <2>4, <2>5 DEF TypeOK
  <1>2. TicksContiguous' /\ IsFiniteSet(snapshots')
    BY DEF SessionInv, TicksContiguous
  <1>3. ASSUME NEW q \in Processes PROVE HandlerHolds(q)' /\ TickHolds(q)'
    <2>1. CASE q = p
      BY <2>1, RequestAssumption DEF SessionInv, TypeOK, HandlerHolds, TickHolds, Goto, Over
    <2>2. CASE q # p
      <3>1. pc'[q] = pc[q] /\ loc'[q] = loc[q] /\ (lock' = q => lock = q)
        BY <2>2, RequestAssumption DEF SessionInv, TypeOK, Goto
      <3>2. QED
        BY <3>1 DEF SessionInv, HandlerHolds, TickHolds
    <2>3. QED
      BY <2>1, <2>2
  <1>4. QED
    BY <1>1, <1>2, <1>3 DEF SessionInv

\* A request that fails, wherever it is, gives the lock back.
LEMMA FailStep == ASSUME SessionInv, NEW p \in Processes, Fail(p) PROVE SessionInv'
  <1> DEFINE locals == [NoLocals EXCEPT !.report = loc[p].report]
  <1>1. locals \in Locals /\ (p \in Deliveries => locals.report \in Reports)
    BY DEF SessionInv, TypeOK, HandlerHolds, Locals, NoLocals, NoTables, NoRows, Tables, Fail, Busy
  <1>2. loc' = [loc EXCEPT ![p] = locals]
    BY DEF Fail
  <1> HIDE DEF locals
  <1>3. QED
    BY <1>1, <1>2, QuietStep DEF SessionInv, TypeOK, Fail, Goto, Over

\* The creation of the session and the events of the server itself.
LEMMA CreateStep == ASSUME SessionInv, Create PROVE SessionInv'
  <1>1. Creator \in Processes /\ loc[Creator] \in Locals /\ loc = [loc EXCEPT ![Creator] = loc[Creator]]
    BY DEF SessionInv, TypeOK, Processes
  <1>2. pc[Creator] \in {"idle", "startEvent"} /\ lock # Creator
    BY <1>1 DEF SessionInv, TypeOK, Create, InsertSession, InsertOwnEvent
  <1>3. row' \in Rows \cup {None} /\ events' \subseteq Ids /\ alone' \subseteq Deliveries
    BY <1>1 DEF SessionInv, TypeOK, Create, InsertSession, InsertOwnEvent, Begin, Rows, Ids
  <1>4. \E place \in {"startEvent", "session"} : Goto(Creator, place)
    BY DEF Create, InsertSession, InsertOwnEvent
  <1>5. UNCHANGED <<lock, current, snapshots, loc>>
    BY DEF Create, InsertSession, InsertOwnEvent
  <1>6. Creator \notin Deliveries
    BY RequestAssumption
  <1>7. QED
    BY <1>1, <1>2, <1>3, <1>4, <1>5, <1>6, QuietStep DEF SessionInv, TypeOK, CreatePcs

\* A post arrives.
LEMMA ReceiveStep ==
    ASSUME SessionInv, NEW d \in Deliveries, NEW r \in Reports, Receive(d, r)
    PROVE  SessionInv'
  <1> DEFINE locals == [loc[d] EXCEPT !.report = r]
             place == IF row = None THEN "failed" ELSE "targets"
  <1>1. d \in Processes /\ loc[d] \in Locals
    BY DEF SessionInv, TypeOK, Processes
  <1>2. locals \in Locals /\ locals.report = r /\ loc' = [loc EXCEPT ![d] = locals]
    BY <1>1 DEF Receive, Locals
  <1>3. lock # d /\ alone' \subseteq Deliveries
    BY <1>1 DEF SessionInv, TypeOK, Receive, Begin
  <1>4. UNCHANGED <<row, lock, current, events, snapshots>>
    BY DEF Receive, tables
  <1>5. place \in {"failed", "targets"} /\ Goto(d, place)
    BY DEF Receive
  <1> HIDE DEF locals, place
  <1>6. QED
    BY <1>1, <1>2, <1>3, <1>4, <1>5, QuietStep DEF SessionInv, TypeOK, ReportPcs, Over

\* The upserts of the rows of a report.
LEMMA UpsertStep ==
    ASSUME SessionInv, NEW d \in Deliveries, NEW k \in Kinds,
           NEW next \in {"units", "projectiles", "events", "scan"}, Upsert(d, k, next)
    PROVE  SessionInv'
  <1>1. d \in Processes /\ loc[d] \in Locals /\ loc = [loc EXCEPT ![d] = loc[d]]
    BY DEF SessionInv, TypeOK, Processes
  <1>2. pc[d] = k /\ k \notin {"idle", "insert"}
    BY DEF Upsert, Kinds
  <1>3. loc[d].report \in Reports /\ lock # d
    BY <1>1, <1>2 DEF SessionInv, TypeOK, HandlerHolds
  <1>4. current' \in Tables
    <2> DEFINE r == loc[d].report
               rows == [n \in RowNames |-> IF n \in Payload[r].rows[k] THEN r ELSE current[k][n]]
    <2>1. current \in Tables /\ current' = [current EXCEPT ![k] = rows]
      BY DEF SessionInv, TypeOK, Upsert
    <2>2. rows \in [RowNames -> Reports \cup {None}]
      BY <1>3, <2>1 DEF Tables
    <2> HIDE DEF rows
    <2>3. QED
      BY <2>1, <2>2 DEF Tables
  <1>5. QED
    BY <1>1, <1>3, <1>4, QuietStep DEF SessionInv, TypeOK, Upsert, ReportPcs

\* The insert of the events of a report.
LEMMA CreateBattleEventsStep ==
    ASSUME SessionInv, NEW d \in Deliveries, CreateBattleEvents(d) PROVE SessionInv'
  <1> DEFINE locals == [loc[d] EXCEPT !.inserted = Payload[loc[d].report].events \ events]
  <1>1. d \in Processes /\ loc[d] \in Locals /\ lock # d
    BY DEF SessionInv, TypeOK, Processes, CreateBattleEvents
  <1>2. loc[d].report \in Reports /\ Payload[loc[d].report].events \subseteq EventIds
    BY <1>1, PayloadAssumption DEF SessionInv, HandlerHolds, CreateBattleEvents, Payloads
  <1>3. locals \in Locals /\ locals.report = loc[d].report /\ loc' = [loc EXCEPT ![d] = locals]
    BY <1>1, <1>2 DEF CreateBattleEvents, Locals
  <1>4. events' \subseteq Ids
    BY <1>2 DEF SessionInv, TypeOK, CreateBattleEvents, Ids
  <1> HIDE DEF locals
  <1>5. QED
    BY <1>1, <1>2, <1>3, <1>4, QuietStep DEF SessionInv, TypeOK, CreateBattleEvents, ReportPcs

\* The scan of a report is written into the session row.
LEMMA ScanStep ==
    ASSUME SessionInv, NEW d \in Deliveries, UpdateBattleSessionScan(d) PROVE SessionInv'
  <1>1. d \in Processes /\ loc[d] \in Locals /\ loc = [loc EXCEPT ![d] = loc[d]] /\ lock # d
    BY DEF SessionInv, TypeOK, Processes, UpdateBattleSessionScan
  <1>2. loc[d].report \in Reports
    BY <1>1 DEF SessionInv, HandlerHolds, UpdateBattleSessionScan
  <1>3. Payload[loc[d].report].status \in ReportStatuses
    BY <1>2, PayloadAssumption DEF Payloads
  <1>4. row' \in Rows \cup {None}
    BY <1>1, <1>2, <1>3 DEF SessionInv, TypeOK, UpdateBattleSessionScan, Rows, ReportStatuses
  <1>5. QED
    BY <1>1, <1>2, <1>4, QuietStep DEF SessionInv, TypeOK, UpdateBattleSessionScan, ReportPcs

\* The session row and the tables are read back.
LEMMA ReadStep ==
    ASSUME SessionInv, NEW p \in Processes, ReadSession(p) \/ ReadLists(p)
    PROVE  SessionInv'
  <1>1. /\ loc[p] \in Locals /\ loc = [loc EXCEPT ![p] = loc[p]] /\ lock # p
        /\ p \in Deliveries => loc[p].report \in Reports
    BY DEF SessionInv, TypeOK, HandlerHolds, ReadSession, ReadLists
  <1>2. UNCHANGED <<row, lock, current, events, snapshots, alone>>
    BY DEF ReadSession, ReadLists, tables
  <1>3. CASE ReadSession(p)
    <2> DEFINE time == IF row.scan # None THEN row.scan ELSE row.updatedAt
               locals == [loc[p] EXCEPT !.time = time]
    <2>1. row \in Rows
      BY <1>3 DEF SessionInv, TypeOK, ReadSession
    <2>2. time \in Times
      BY <2>1 DEF Rows, Times
    <2>3. locals \in Locals /\ locals.report = loc[p].report /\ locals.time = time
      BY <1>1, <2>2 DEF Locals
    <2>4. Goto(p, "lists") /\ loc' = [loc EXCEPT ![p] = locals]
      BY <1>3 DEF ReadSession
    <2> HIDE DEF locals, time
    <2>5. QED
      BY <1>1, <1>2, <2>2, <2>3, <2>4, QuietStep DEF SessionInv, TypeOK, ReportPcs
  <1>4. CASE ReadLists(p)
    <2>1. loc[p].time \in Times
      BY <1>4 DEF SessionInv, HandlerHolds, ReadLists
    <2>2. CASE p \in Stops \/ (p \in Deliveries /\ Payload[loc[p].report].state)
      <3> DEFINE locals == [loc[p] EXCEPT !.of = current]
      <3>1. locals \in Locals /\ locals.report = loc[p].report /\ locals.time = loc[p].time
        BY <1>1 DEF SessionInv, TypeOK, Locals
      <3>2. Goto(p, "append") /\ loc' = [loc EXCEPT ![p] = locals]
        BY <1>4, <2>2 DEF ReadLists
      <3>3. p # Creator
        BY <2>2, RequestAssumption
      <3> HIDE DEF locals
      <3>4. QED
        BY <1>1, <1>2, <2>1, <3>1, <3>2, <3>3, QuietStep DEF SessionInv, TypeOK, ReportPcs
    <2>3. CASE ~(p \in Stops \/ (p \in Deliveries /\ Payload[loc[p].report].state))
      BY <1>1, <1>2, <1>4, <2>3, QuietStep DEF SessionInv, TypeOK, ReadLists, ReportPcs
    <2>4. QED
      BY <2>2, <2>3
  <1>5. QED
    BY <1>3, <1>4

\* What SnapshotOver leaves of the locals.
LEMMA SnapshotOverTypes ==
    ASSUME SessionInv, NEW p \in Processes, SnapshotOver(p)
    PROVE  \E locals \in Locals : /\ loc' = [loc EXCEPT ![p] = locals]
                                  /\ locals.report = loc[p].report
  <1> DEFINE locals == [loc[p] EXCEPT !.of = NoTables, !.tick = 0]
  <1>1. locals \in Locals /\ locals.report = loc[p].report
    BY ZenonT(30) DEF SessionInv, TypeOK, Locals, NoTables, NoRows, Tables
  <1>2. loc' = [loc EXCEPT ![p] = locals]
    BY DEF SnapshotOver, SessionInv, TypeOK
  <1>3. QED
    BY <1>1, <1>2

\* The transaction of the snapshot begins: the time it read has no snapshot, or it ends
\* at once.
LEMMA LockStep == ASSUME SessionInv, NEW p \in Processes, LockSession(p) PROVE SessionInv'
  <1>1. /\ loc[p] \in Locals /\ lock # p /\ p # Creator /\ loc[p].time \in Times
        /\ p \in Deliveries => loc[p].report \in Reports
    BY DEF SessionInv, TypeOK, HandlerHolds, LockSession
  <1>2. UNCHANGED <<row, current, events, snapshots, alone>> /\ lock = None
    BY DEF LockSession
  <1>3. CASE \E s \in snapshots : s.time = loc[p].time
    <2>1. PICK locals \in Locals : /\ loc' = [loc EXCEPT ![p] = locals]
                                   /\ locals.report = loc[p].report
      BY <1>3, SnapshotOverTypes DEF LockSession
    <2>2. QED
      BY <1>1, <1>2, <1>3, <2>1, QuietStep DEF SessionInv, TypeOK, LockSession, ReportPcs
  <1>4. CASE ~ \E s \in snapshots : s.time = loc[p].time
    <2> DEFINE locals == [loc[p] EXCEPT !.tick = NextTick]
    <2>1. NextTick = Cardinality(snapshots) + 1 /\ Cardinality(snapshots) \in Nat
      BY NextTickCounts, FS_CardinalityType DEF SessionInv, TicksContiguous
    <2>2. /\ locals \in Locals /\ locals.report = loc[p].report
          /\ locals.time = loc[p].time /\ locals.tick = Cardinality(snapshots) + 1
      BY <1>1, <2>1 DEF Locals
    <2>3. Goto(p, "insert") /\ loc' = [loc EXCEPT ![p] = locals] /\ lock' = p
      BY <1>4 DEF LockSession
    <2> HIDE DEF locals
    <2>4. QED
      BY <1>1, <1>2, <1>4, <2>2, <2>3, QuietStep DEF SessionInv, TypeOK, ReportPcs
  <1>5. QED
    BY <1>3, <1>4

\* The stop of the session: its row, its event, and its snapshot given up.
LEMMA StopStep == ASSUME SessionInv, NEW s \in Stops, Stop(s) PROVE SessionInv'
  <1>1. /\ s \in Processes /\ loc[s] \in Locals /\ loc = [loc EXCEPT ![s] = loc[s]]
        /\ s \notin Deliveries /\ s # Creator
    BY RequestAssumption DEF SessionInv, TypeOK, Processes
  <1>2. CASE StopSession(s)
    <2>1. row' \in Rows \cup {None} /\ alone' \subseteq Deliveries
      BY <1>1, <1>2, ZenonT(30) DEF SessionInv, TypeOK, StopSession, Begin, Rows
    <2>2. \E place \in {"failed", "reread", "stopEvent"} : Goto(s, place)
      BY <1>2 DEF StopSession
    <2>3. UNCHANGED <<lock, current, events, snapshots, loc>> /\ lock = None
      BY <1>2 DEF StopSession
    <2>4. lock' = IF lock = s THEN None ELSE lock
      BY <2>3
    <2>5. QED
      BY <1>1, <2>1, <2>2, <2>3, <2>4, QuietStep DEF SessionInv, TypeOK, StopPcs, Over
  <1>3. CASE InsertOwnEvent(s, "stopEvent")
    <2>1. events' \subseteq Ids /\ lock # s
      BY <1>1, <1>3 DEF SessionInv, TypeOK, InsertOwnEvent, Ids
    <2>2. UNCHANGED <<row, lock, current, snapshots, loc, alone>> /\ Goto(s, "session")
      BY <1>3 DEF InsertOwnEvent
    <2>3. QED
      BY <1>1, <2>1, <2>2, QuietStep DEF SessionInv, TypeOK, StopPcs
  <1>4. CASE StopSnapshotFails(s)
    <2>1. PICK locals \in Locals : /\ loc' = [loc EXCEPT ![s] = locals]
                                   /\ locals.report = loc[s].report
      BY <1>1, <1>4, SnapshotOverTypes DEF StopSnapshotFails
    <2>2. QED
      BY <1>1, <1>4, <2>1, QuietStep DEF SessionInv, TypeOK, StopSnapshotFails, StopPcs
  <1>5. CASE RereadState(s)
    <2>1. lock # s
      BY <1>1, <1>5 DEF SessionInv, TypeOK, RereadState
    <2>2. QED
      BY <1>1, <1>5, <2>1, QuietStep DEF SessionInv, TypeOK, RereadState, tables, Over
  <1>6. QED
    BY <1>2, <1>3, <1>4, <1>5 DEF Stop

\* The broadcasts at the end of a handler.
LEMMA BroadcastStep == ASSUME SessionInv, NEW p \in Processes, Broadcast(p) PROVE SessionInv'
  <1> DEFINE locals == [NoLocals EXCEPT !.report = loc[p].report, !.inserted = loc[p].inserted]
  <1>1. loc[p] \in Locals /\ lock # p /\ (p \in Deliveries => loc[p].report \in Reports)
    BY DEF SessionInv, TypeOK, HandlerHolds, Broadcast
  <1>2. locals \in Locals /\ locals.report = loc[p].report
    BY <1>1 DEF Locals, NoLocals, NoTables, NoRows, Tables
  <1>3. Goto(p, "acked") /\ loc' = [loc EXCEPT ![p] = locals]
    BY DEF Broadcast
  <1>4. UNCHANGED <<row, lock, current, events, snapshots, alone>>
    BY DEF Broadcast, tables
  <1> HIDE DEF locals
  <1>5. QED
    BY <1>1, <1>2, <1>3, <1>4, QuietStep DEF SessionInv, TypeOK, Over

\* The insert of the snapshot: its tick is the next one and its time is new.
LEMMA InsertSnapshotStep ==
    ASSUME SessionInv, NEW p \in Processes, InsertSnapshot(p) PROVE SessionInv'
  <1> DEFINE new == [tick |-> loc[p].tick, time |-> loc[p].time, events |-> TickEvents(p),
                     of |-> loc[p].of, by |-> p]
             n == Cardinality(snapshots)
  <1>1. /\ loc[p] \in Locals /\ lock = p /\ p # None /\ p \in Deliveries \cup Stops
        /\ loc[p].time \in Times
        /\ p \in Deliveries => loc[p].report \in Reports
    BY RequestAssumption
    DEF SessionInv, TypeOK, HandlerHolds, InsertSnapshot
  <1>2. n \in Nat /\ loc[p].tick = n + 1 /\ \A s \in snapshots : s.time # loc[p].time
    BY <1>1, FS_CardinalityType DEF SessionInv, TickHolds
  <1>3. new \in Snapshots
    <2>1. TickEvents(p) \subseteq Ids
      BY <1>1, PayloadAssumption DEF TickEvents, Ids, Payloads
    <2>2. QED
      BY <1>1, <1>2, <2>1 DEF Snapshots, Locals
  <1>4. new.tick = n + 1 /\ new.time = loc[p].time
    BY <1>2
  <1>5. snapshots' = snapshots \cup {new}
    BY DEF InsertSnapshot
  <1> HIDE DEF new
  <1>6. new \notin snapshots
    BY <1>2, <1>4
  <1>7. IsFiniteSet(snapshots') /\ Cardinality(snapshots') = n + 1
    BY <1>5, <1>6, FS_AddElement DEF SessionInv
  <1>8. TicksContiguous'
    <2>1. {s.tick : s \in snapshots} = 1 .. n
      BY DEF SessionInv, TicksContiguous
    <2>2. {s.tick : s \in snapshots'} = {s.tick : s \in snapshots} \cup {n + 1}
      BY <1>4, <1>5
    <2>3. {s.tick : s \in snapshots'} = 1 .. n + 1
      BY <1>2, <2>1, <2>2
    <2>4. \A s, t \in snapshots' : (s.time = t.time) => (s = t)
      BY <1>2, <1>4, <1>5 DEF SessionInv, TicksContiguous
    <2>5. QED
      BY <1>7, <2>3, <2>4 DEF TicksContiguous
  <1>9. PICK locals \in Locals : /\ loc' = [loc EXCEPT ![p] = locals]
                                 /\ locals.report = loc[p].report
    BY SnapshotOverTypes DEF InsertSnapshot
  <1>10. TypeOK'
    <2>1. lock' = None /\ \A q \in Processes : (lock' = q) <=> pc'[q] = "insert"
      BY <1>1, RequestAssumption DEF SessionInv, TypeOK, InsertSnapshot, Goto
    <2>2. pc' \in [Processes -> ReportPcs \cup StopPcs \cup CreatePcs \cup Over \cup {"idle"}]
      BY DEF SessionInv, TypeOK, InsertSnapshot, Goto, ReportPcs
    <2>3. loc' \in [Processes -> Locals]
      BY <1>9 DEF SessionInv, TypeOK
    <2>4. QED
      BY <1>3, <1>5, <2>1, <2>2, <2>3 DEF SessionInv, TypeOK, InsertSnapshot
  <1>11. ASSUME NEW q \in Processes PROVE HandlerHolds(q)' /\ TickHolds(q)'
    <2>1. lock' # q
      BY RequestAssumption DEF InsertSnapshot
    <2>2. HandlerHolds(q)'
      BY <1>1, <1>9 DEF SessionInv, TypeOK, HandlerHolds, InsertSnapshot, Goto
    <2>3. QED
      BY <2>1, <2>2 DEF TickHolds
  <1>12. QED
    BY <1>7, <1>8, <1>10, <1>11 DEF SessionInv

\* Every step keeps the invariant.
LEMMA NextSession == SessionInv /\ [Next]_vars => SessionInv'
  <1> SUFFICES ASSUME SessionInv, [Next]_vars PROVE SessionInv'
    OBVIOUS
  <1>1. CASE Create
    BY <1>1, CreateStep
  <1>2. ASSUME NEW d \in Deliveries, Deliver(d) PROVE SessionInv'
    <2> d \in Processes
      BY DEF Processes
    <2>1. CASE \E r \in Reports : Receive(d, r)
      BY <2>1, ReceiveStep
    <2>2. CASE UpsertRadarTargets(d) \/ UpsertBattleUnits(d) \/ UpsertBattleProjectiles(d)
      <3>1. CASE Fail(d)
        BY <3>1, FailStep
      <3>2. CASE ~Fail(d)
        <4>1. \E k \in Kinds, next \in {"units", "projectiles", "events", "scan"} : Upsert(d, k, next)
          BY <2>2, <3>2 DEF UpsertRadarTargets, UpsertBattleUnits, UpsertBattleProjectiles, Kinds
        <4>2. QED
          BY <4>1, UpsertStep
      <3>3. QED
        BY <3>1, <3>2
    <2>3. CASE CreateBattleEvents(d)
      BY <2>3, CreateBattleEventsStep
    <2>4. CASE UpdateBattleSessionScan(d)
      BY <2>4, ScanStep
    <2>5. QED
      BY <1>2, <2>1, <2>2, <2>3, <2>4 DEF Deliver
  <1>3. ASSUME NEW s \in Stops, Stop(s) PROVE SessionInv'
    BY <1>3, StopStep
  <1>4. ASSUME NEW p \in Processes, Shared(p) \/ Fail(p) PROVE SessionInv'
    BY <1>4, ReadStep, LockStep, InsertSnapshotStep, BroadcastStep, FailStep DEF Shared
  <1>5. CASE UNCHANGED vars
    BY <1>5 DEF vars, SessionInv, TypeOK, TicksContiguous, HandlerHolds, TickHolds
  <1>6. QED
    BY <1>1, <1>2, <1>3, <1>4, <1>5 DEF Next

\* The tables and requests of a session keep their types: in particular the lock on
\* the session row is held by exactly the request that is between the two steps of its
\* transaction (TypeOK); and the ticks of its snapshots are 1, 2, 3, ... with one
\* snapshot for a time, whatever reports and stops run at once (TicksContiguous).
THEOREM BattleTicks == Spec => [](TypeOK /\ TicksContiguous)
  <1>1. SessionInv => TypeOK /\ TicksContiguous
    BY DEF SessionInv
  <1>2. QED
    BY <1>1, InitSession, NextSession, PTL DEF Spec
-----------------------------------------------------------------------------
(* Who announces an event.                                                 *)

\* Request d is under way and its insert made the row of event e.
Claims(d, e) == Busy(d) /\ e \in loc[d].inserted

\* A report has inserted no event before it gets there, and only events it names.
InsertedHolds(d) ==
    /\ pc[d] \in {"idle", "targets", "units", "projectiles", "events"} => loc[d].inserted = {}
    /\ pc[d] # "idle" => loc[d].inserted \subseteq Payload[loc[d].report].events

\* Whoever inserted an event is the only one to announce it, and does so once.
EventHolds(e) ==
    /\ \A m, n \in Announcing(e) : m = n
    /\ \A c, d \in Deliveries : Claims(c, e) /\ Claims(d, e) => c = d
    /\ \A d \in Deliveries : Claims(d, e) => Announcing(e) = {} /\ e \in events
    /\ Announcing(e) # {} => e \in events
    /\ \A d \in Deliveries : pc[d] = "acked" /\ e \in loc[d].inserted => Announcing(e) # {}

EventInv == /\ SessionInv
            /\ \A d \in Deliveries : InsertedHolds(d)
            /\ \A e \in EventIds : EventHolds(e)

\* A step of request p.
StepOf(p) == \/ p = Creator /\ Create
             \/ p \in Deliveries /\ Deliver(p)
             \/ p \in Stops /\ Stop(p)
             \/ Shared(p)
             \/ Fail(p)

\* Every step is the step of a request, and leaves the place and the locals of the
\* others alone.
LEMMA StepOfOne ==
    ASSUME SessionInv, Next
    PROVE  \E p \in Processes :
               /\ StepOf(p)
               /\ \A q \in Processes \ {p} : pc'[q] = pc[q] /\ loc'[q] = loc[q]
  <1>1. PICK p \in Processes : StepOf(p)
    BY DEF Next, StepOf, Processes
  <1>2. pc' = [pc EXCEPT ![p] = pc'[p]]
    <2>1. \E place : Goto(p, place)
      <3>1. CASE p = Creator /\ Create
        BY <3>1 DEF Create, InsertSession, InsertOwnEvent
      <3>2. CASE Deliver(p)
        BY <3>2 DEF Deliver, Receive, UpsertRadarTargets, UpsertBattleUnits, UpsertBattleProjectiles,
                    Upsert, CreateBattleEvents, UpdateBattleSessionScan, Fail
      <3>3. CASE Stop(p)
        BY <3>3 DEF Stop, StopSession, RereadState, InsertOwnEvent, StopSnapshotFails
      <3>4. CASE Shared(p) \/ Fail(p)
        BY <3>4 DEF Shared, ReadSession, ReadLists, LockSession, InsertSnapshot, Broadcast, Fail
      <3>5. QED
        BY <1>1, <3>1, <3>2, <3>3, <3>4 DEF StepOf
    <2>2. QED
      BY <2>1 DEF Goto, SessionInv, TypeOK
  <1>3. loc' = [loc EXCEPT ![p] = loc'[p]]
    <2>1. loc' = loc \/ \E locals : loc' = [loc EXCEPT ![p] = locals]
      <3>1. CASE p = Creator /\ Create
        BY <3>1 DEF Create, InsertSession, InsertOwnEvent
      <3>2. CASE Deliver(p)
        BY <3>2 DEF Deliver, Receive, UpsertRadarTargets, UpsertBattleUnits, UpsertBattleProjectiles,
                    Upsert, CreateBattleEvents, UpdateBattleSessionScan, Fail
      <3>3. CASE Stop(p)
        BY <3>3, SnapshotOverTypes DEF Stop, StopSession, RereadState, InsertOwnEvent, StopSnapshotFails
      <3>4. CASE Shared(p) \/ Fail(p)
        BY <3>4, SnapshotOverTypes DEF Shared, ReadSession, ReadLists, LockSession, InsertSnapshot, Broadcast, Fail
      <3>5. QED
        BY <1>1, <3>1, <3>2, <3>3, <3>4 DEF StepOf
    <2>2. QED
      BY <2>1 DEF SessionInv, TypeOK
  <1>4. QED
    BY <1>1, <1>2, <1>3 DEF SessionInv, TypeOK

\* A delivery that neither inserts its events nor broadcasts comes by no event and loses
\* none but by failing.
LEMMA InsertedKept ==
    ASSUME SessionInv, NEW d \in Deliveries, InsertedHolds(d), StepOf(d),
           ~CreateBattleEvents(d), ~Broadcast(d)
    PROVE  /\ InsertedHolds(d)'
           /\ \/ loc'[d].inserted = {}
              \/ /\ loc'[d].inserted = loc[d].inserted
                 /\ Busy(d)' => Busy(d)
                 /\ pc'[d] # "acked"
           /\ sent' = sent
           /\ events' = events
  <1>0. /\ d \in Processes /\ d \notin Stops /\ d # Creator
        /\ pc \in [Processes -> ReportPcs \cup StopPcs \cup CreatePcs \cup Over \cup {"idle"}]
        /\ loc \in [Processes -> Locals]
    BY RequestAssumption DEF SessionInv, TypeOK, Processes
  <1> USE <1>0 DEF InsertedHolds, Goto, Busy, Over
  <1>1. CASE Fail(d)
    <2>1. loc'[d] = [NoLocals EXCEPT !.report = loc[d].report] /\ pc'[d] = "failed"
      BY <1>1 DEF Fail
    <2>2. loc'[d].inserted = {}
      BY <2>1 DEF NoLocals
    <2>3. QED
      BY <1>1, <2>1, <2>2 DEF Fail
  <1>2. CASE \E r \in Reports : Receive(d, r)
    BY <1>2 DEF Receive, tables
  <1>3. CASE \E k \in Kinds, next \in {"units", "projectiles", "events", "scan"} : Upsert(d, k, next)
    BY <1>3 DEF Upsert, Kinds
  <1>4. CASE UpdateBattleSessionScan(d)
    BY <1>4 DEF UpdateBattleSessionScan
  <1>5. CASE ReadSession(d) \/ ReadLists(d)
    BY <1>5 DEF ReadSession, ReadLists, tables, Locals
  <1>6. CASE LockSession(d)
    BY <1>6 DEF LockSession, SnapshotOver, Locals
  <1>7. CASE InsertSnapshot(d)
    BY <1>7 DEF InsertSnapshot, SnapshotOver, Locals
  <1>8. QED
    BY <1>1, <1>2, <1>3, <1>4, <1>5, <1>6, <1>7
    DEF StepOf, Deliver, Shared, UpsertRadarTargets, UpsertBattleUnits, UpsertBattleProjectiles, Kinds

\* The insert of events: those that are new have one claim, the others are left alone.
LEMMA CreateBattleEventsClaims ==
    ASSUME EventInv, NEW d \in Deliveries, CreateBattleEvents(d),
           \A q \in Processes \ {d} : pc'[q] = pc[q] /\ loc'[q] = loc[q]
    PROVE  (\A c \in Deliveries : InsertedHolds(c)') /\ (\A e \in EventIds : EventHolds(e)')
  <1>1. /\ loc'[d].inserted = Payload[loc[d].report].events \ events
        /\ loc'[d].report = loc[d].report
        /\ pc[d] = "events" /\ pc'[d] = "scan" /\ loc[d].inserted = {}
    BY DEF EventInv, SessionInv, TypeOK, InsertedHolds, CreateBattleEvents, Goto, Processes, Locals
  <1>2. /\ events' = events \cup Payload[loc[d].report].events
        /\ sent' = sent
    BY DEF CreateBattleEvents
  <1>3. \A c \in Deliveries \ {d} : pc'[c] = pc[c] /\ loc'[c] = loc[c]
    BY DEF Processes
  <1>4. ASSUME NEW c \in Deliveries PROVE InsertedHolds(c)'
    BY <1>1, <1>3 DEF EventInv, InsertedHolds
  <1>5. ASSUME NEW e \in EventIds PROVE EventHolds(e)'
    <2>1. Announcing(e)' = Announcing(e)
      BY <1>2 DEF Announcing
    <2>2. \A c \in Deliveries \ {d} : Claims(c, e)' <=> Claims(c, e)
      BY <1>3 DEF Claims, Busy
    <2>3. Claims(d, e)' => e \notin events /\ e \in events'
      BY <1>1, <1>2 DEF Claims
    <2>4. EventHolds(e)
      BY DEF EventInv
    <2>5. e \in events => e \in events'
      BY <1>2
    <2>6. \A c \in Deliveries : pc'[c] = "acked" => pc[c] = "acked" /\ loc'[c] = loc[c]
      BY <1>1, <1>3
    <2> HIDE DEF Announcing, Claims
    <2>7. QED
      BY <2>1, <2>2, <2>3, <2>4, <2>5, <2>6 DEF EventHolds
  <1>6. QED
    BY <1>4, <1>5

\* The broadcasts of a delivery turn its claims into announcements.
LEMMA BroadcastClaims ==
    ASSUME EventInv, NEW d \in Deliveries, Broadcast(d),
           \A q \in Processes \ {d} : pc'[q] = pc[q] /\ loc'[q] = loc[q]
    PROVE  (\A c \in Deliveries : InsertedHolds(c)') /\ (\A e \in EventIds : EventHolds(e)')
  <1>0. d \in Processes /\ loc[d].report \in Reports
    BY DEF EventInv, SessionInv, HandlerHolds, Broadcast, Processes
  <1>1. /\ loc'[d].inserted = loc[d].inserted
        /\ loc'[d].report = loc[d].report
        /\ pc[d] = "broadcast" /\ pc'[d] = "acked"
    BY <1>0 DEF EventInv, SessionInv, TypeOK, Broadcast, Goto, NoLocals
  <1>2. events' = events /\ sent' = sent \cup Messages(d)
    BY DEF Broadcast, tables
  <1>3. \A c \in Deliveries \ {d} : pc'[c] = pc[c] /\ loc'[c] = loc[c]
    BY DEF Processes
  <1>4. ASSUME NEW c \in Deliveries PROVE InsertedHolds(c)'
    BY <1>1, <1>3 DEF EventInv, InsertedHolds
  <1>5. loc[d].inserted # {} => Payload[loc[d].report].state
    BY <1>0, <1>1, PayloadAssumption DEF EventInv, InsertedHolds
  <1>6. ASSUME NEW e \in EventIds PROVE EventHolds(e)'
    <2> DEFINE m == [type |-> "battle_event_created", by |-> d, of |-> e]
               new == {n \in Messages(d) : n.type = "battle_event_created" /\ n.of = e}
    <2>1. Announcing(e)' = Announcing(e) \cup new
      BY <1>2 DEF Announcing
    <2>2. new = IF e \in loc[d].inserted THEN {m} ELSE {}
      BY <1>5 DEF Messages
    <2>3. Claims(d, e) <=> e \in loc[d].inserted
      BY <1>1 DEF Claims, Busy, Over
    <2>4. \A c \in Deliveries : Claims(c, e)' <=> c # d /\ Claims(c, e)
      BY <1>1, <1>3 DEF Claims, Busy, Over
    <2>5. EventHolds(e)
      BY DEF EventInv
    <2>6. \A c \in Deliveries \ {d} : pc'[c] = "acked" => pc[c] = "acked" /\ loc'[c] = loc[c]
      BY <1>3
    <2> HIDE DEF m, new
    <2>7. QED
      BY <1>1, <1>2, <2>1, <2>2, <2>3, <2>4, <2>5, <2>6 DEF EventHolds
  <1>7. QED
    BY <1>4, <1>6

\* A step that neither inserts events of a report nor announces any.
LEMMA OtherClaims ==
    ASSUME EventInv, NEW p \in Processes, StepOf(p),
           p \in Deliveries => ~CreateBattleEvents(p) /\ ~Broadcast(p),
           \A q \in Processes \ {p} : pc'[q] = pc[q] /\ loc'[q] = loc[q]
    PROVE  (\A c \in Deliveries : InsertedHolds(c)') /\ (\A e \in EventIds : EventHolds(e)')
  <1>1. events \subseteq events'
    <2>1. CASE p \in Deliveries
      BY <2>1, InsertedKept DEF EventInv
    <2>2. CASE p \notin Deliveries
      BY <2>2 DEF StepOf, Create, InsertSession, InsertOwnEvent, Stop, StopSession, RereadState, StopSnapshotFails,
         Shared, ReadSession, ReadLists, LockSession, InsertSnapshot, Broadcast, Fail, tables
    <2>3. QED
      BY <2>1, <2>2
  <1>2. ASSUME NEW e \in EventIds PROVE Announcing(e)' = Announcing(e)
    <2>1. CASE sent' = sent
      BY <2>1 DEF Announcing
    <2>2. CASE p \notin Deliveries /\ Broadcast(p)
      <3>1. sent' = sent \cup {[type |-> "battle_state_updated", by |-> p, of |-> loc[p].time]}
        BY <2>2 DEF Broadcast, Messages
      <3>2. QED
        BY <3>1 DEF Announcing
    <2>3. sent' = sent \/ (p \notin Deliveries /\ Broadcast(p))
      <3>1. CASE p \in Deliveries
        BY <3>1, InsertedKept DEF EventInv
      <3>2. CASE p \notin Deliveries
        BY <3>2 DEF StepOf, Create, InsertSession, InsertOwnEvent, Stop, StopSession, RereadState,
           StopSnapshotFails, Shared, ReadSession, ReadLists, LockSession, InsertSnapshot, Fail
      <3>3. QED
        BY <3>1, <3>2
    <2>4. QED
      BY <2>1, <2>2, <2>3
  <1>3. ASSUME NEW c \in Deliveries
        PROVE  /\ InsertedHolds(c)'
               /\ \/ loc'[c].inserted = {}
                  \/ /\ loc'[c].inserted = loc[c].inserted
                     /\ Busy(c)' => Busy(c)
                     /\ pc'[c] = "acked" => pc[c] = "acked"
    <2>1. CASE c = p
      BY <2>1, InsertedKept DEF EventInv
    <2>2. CASE c # p
      BY <2>2 DEF EventInv, InsertedHolds, Processes, Busy
    <2>3. QED
      BY <2>1, <2>2
  <1>4. ASSUME NEW e \in EventIds PROVE EventHolds(e)'
    <2>1. \A c \in Deliveries : Claims(c, e)' => Claims(c, e)
      BY <1>3 DEF Claims
    <2>2. EventHolds(e)
      BY DEF EventInv
    <2> HIDE DEF Announcing, Claims
    <2>3. QED
      BY <1>1, <1>2, <1>3, <2>1, <2>2 DEF EventHolds
  <1>5. QED
    BY <1>3, <1>4

\* Each step keeps who may announce what.
LEMMA NextEvents == EventInv /\ [Next]_vars => EventInv'
  <1> SUFFICES ASSUME EventInv, [Next]_vars PROVE EventInv'
    OBVIOUS
  <1>1. SessionInv'
    BY NextSession DEF EventInv
  <1>2. CASE Next
    <2>1. PICK p \in Processes :
              StepOf(p) /\ \A q \in Processes \ {p} : pc'[q] = pc[q] /\ loc'[q] = loc[q]
      BY <1>2, StepOfOne DEF EventInv
    <2>2. QED
      BY <1>1, <2>1, CreateBattleEventsClaims, BroadcastClaims, OtherClaims DEF EventInv
  <1>3. CASE UNCHANGED vars
    BY <1>1, <1>3 DEF vars, EventInv, InsertedHolds, EventHolds, Claims, Busy, Announcing
  <1>4. QED
    BY <1>2, <1>3

\* Nothing is inserted or sent before the first request.
LEMMA InitEvents == Init => EventInv
  <1> SUFFICES ASSUME Init PROVE EventInv
    OBVIOUS
  <1>1. \A p \in Processes : pc[p] = "idle" /\ loc[p].inserted = {}
    BY DEF Init, NoLocals
  <1>2. sent = {}
    BY DEF Init
  <1>3. QED
    BY <1>1, <1>2, InitSession DEF EventInv, InsertedHolds, EventHolds, Claims, Announcing, Processes

\* An event of the battle is announced at most once, by the request whose insert made
\* its row, and an accepted request has announced the events it inserted, whatever
\* posts of whatever reports overlap, fail or come twice (CreateBattleEvents and the
\* loop over insertedEvents).
THEOREM BattleAnnouncements == Spec => []AnnouncedOnce
  <1>1. ASSUME EventInv PROVE AnnouncedOnce
    <2>1. ASSUME NEW e \in EventIds
          PROVE  Cardinality(Announcing(e))
                     + Cardinality({d \in Deliveries : Busy(d) /\ e \in loc[d].inserted}) <= 1
      <3> DEFINE A == Announcing(e)
                 C == {d \in Deliveries : Busy(d) /\ e \in loc[d].inserted}
      <3>1. EventHolds(e)
        BY <1>1 DEF EventInv
      <3>2. A = {} \/ \E m : A = {m}
        BY <3>1 DEF EventHolds
      <3>3. C = {} \/ \E d : C = {d}
        <4>1. \A c, d \in C : c = d
          BY <3>1 DEF EventHolds, Claims
        <4> HIDE DEF C
        <4>2. QED
          BY <4>1
      <3>4. A = {} \/ C = {}
        BY <3>1 DEF EventHolds, Claims
      <3> HIDE DEF A, C
      <3>5. Cardinality(A) + Cardinality(C) <= 1
        BY <3>2, <3>3, <3>4, FS_EmptySet, FS_Singleton
      <3>6. QED
        BY <3>5 DEF A, C
    <2>2. QED
      BY <1>1, <2>1 DEF EventInv, EventHolds, AnnouncedOnce
  <1>2. QED
    BY <1>1, InitEvents, NextEvents, PTL DEF Spec
-----------------------------------------------------------------------------
(* What a post without company leaves.                                     *)

\* Every row comes from a report that names it.
RowsNamed == \A k \in Kinds, n \in RowNames :
    current[k][n] # None => n \in Payload[current[k][n]].rows[k]

\* A time of a report comes from a post of that report.
TimesPosted ==
    /\ \A d \in Deliveries : pc[d] = "idle" => loc[d].report = None
    /\ row # None /\ row.scan # None => Posts(row.scan) # {}
    /\ \A s \in snapshots : s.time \in Reports => Posts(s.time) # {}
    /\ \A p \in Processes : loc[p].time \in Reports => Posts(loc[p].time) # {}

\* No row goes missing: what is in a snapshot, or in the tables that a request has read
\* for one, is in the tables; and where one of the two had no company, what is in an
\* earlier snapshot is in the later one.
RowsStay ==
    /\ \A s \in snapshots : Within(s.of, current)
    /\ \A p \in Processes : pc[p] \in {"append", "insert"} =>
          /\ Within(loc[p].of, current)
          /\ \A s \in snapshots : s.by \in alone \/ p \in alone => Within(s.of, loc[p].of)
    /\ \A s, t \in snapshots :
          t.tick < s.tick /\ (s.by \in alone \/ t.by \in alone) => Within(t.of, s.of)

\* The rows of x that report r wrote are those it names.
Names(x, r, k) == \A n \in RowNames : x[k][n] = r <=> n \in Payload[r].rows[k]

\* The tables a report with a state has written before it does step l.
Written(l) == CASE l = "units" -> {"targets"}
                [] l = "projectiles" -> {"targets", "units"}
                [] l \in {"events", "scan", "session", "lists"} -> Kinds
                [] OTHER -> {}

\* Snapshot s has the time, the events and the rows of the report of d.
Shows(s, d) == /\ s.time = loc[d].report
               /\ s.events = Payload[loc[d].report].events
               /\ \A k \in Kinds : Names(s.of, loc[d].report, k)

\* What a post without company has written, and read back, by the time of each step; a
\* snapshot of its time that is there before its own was brought on by another post.
AloneHolds(d) ==
    LET r == loc[d].report
    IN  /\ \A q \in Processes \ {d} : ~Busy(q)
        /\ Payload[r].state => \A k \in Written(pc[d]) : Names(current, r, k)
        /\ pc[d] = "session" /\ row # None => row.scan = r
        /\ pc[d] \in {"lists", "append", "insert"} => loc[d].time = r
        /\ pc[d] \in {"append", "insert"} => \A k \in Kinds : Names(loc[d].of, r, k)
        /\ pc[d] # "broadcast" => \A s \in snapshots : s.time = r => Posts(r) # {d}

\* Snapshot s stands for the report of d: it has its events, or another post brought it on.
Stands(s, d) == /\ s.time = loc[d].report
               /\ \/ s.events = Payload[loc[d].report].events
                  \/ s.by \notin alone /\ Posts(loc[d].report) # {d}

\* A lone report that got this far is in the replay.
ReplayedHolds(d) == Payload[loc[d].report].state =>
    /\ pc[d] \in {"scan", "session", "lists", "append", "insert", "broadcast", "acked"} =>
           Payload[loc[d].report].events \subseteq events
    /\ pc[d] \in {"broadcast", "acked"} => \E s \in snapshots : Stands(s, d)

\* A post that took a snapshot is past its transaction.
TakenHolds(d) == (\E s \in snapshots : s.by = d) => pc[d] \in {"broadcast"} \cup Over

LoneHolds(d) == d \in alone =>
    /\ pc[d] # "idle"
    /\ Busy(d) => AloneHolds(d)
    /\ ReplayedHolds(d)
    /\ \A s \in snapshots : s.by = d => Shows(s, d)

LoneInv == /\ SessionInv /\ RowsNamed /\ TimesPosted /\ RowsStay
           /\ \A d \in Deliveries : TakenHolds(d) /\ LoneHolds(d)

\* A step either begins its request or is that of a busy one, which keeps its report; it
\* takes no event and no snapshot away, and adds a snapshot by InsertSnapshot only.
LEMMA StepEffects ==
    ASSUME SessionInv, NEW p \in Processes, StepOf(p)
    PROVE  /\ \/ pc[p] = "idle" /\ Begin(p) /\ UNCHANGED snapshots
              \/ Busy(p) /\ alone' = alone
           /\ events \subseteq events'
           /\ UNCHANGED snapshots \/ InsertSnapshot(p)
           /\ snapshots \subseteq snapshots'
           /\ \A s \in snapshots' : s \in snapshots \/ s.by = p
  <1>1. \/ pc[p] = "idle" /\ Begin(p) /\ UNCHANGED snapshots
        \/ Busy(p) /\ alone' = alone
    <2>1. CASE p = Creator /\ Create
      BY <2>1 DEF Create, InsertSession, InsertOwnEvent, Busy, Over
    <2>2. CASE Deliver(p)
      BY <2>2 DEF Deliver, Receive, UpsertRadarTargets, UpsertBattleUnits, UpsertBattleProjectiles,
                  Upsert, CreateBattleEvents, UpdateBattleSessionScan, Fail, Busy, Over, tables
    <2>3. CASE Stop(p)
      BY <2>3 DEF Stop, StopSession, RereadState, InsertOwnEvent, StopSnapshotFails, Busy, Over
    <2>4. CASE Shared(p) \/ Fail(p)
      BY <2>4 DEF Shared, ReadSession, ReadLists, LockSession, InsertSnapshot, Broadcast, Fail, Busy, Over
    <2>5. QED
      BY <2>1, <2>2, <2>3, <2>4 DEF StepOf
  <1>2. events \subseteq events'
    BY DEF StepOf, Create, InsertSession, InsertOwnEvent, Deliver, Receive, UpsertRadarTargets,
       UpsertBattleUnits, UpsertBattleProjectiles, Upsert, CreateBattleEvents,
       UpdateBattleSessionScan, Stop, StopSession, RereadState, StopSnapshotFails, Shared,
       ReadSession, ReadLists, LockSession, InsertSnapshot, Broadcast, Fail, tables
  <1>3. UNCHANGED snapshots \/ InsertSnapshot(p)
    BY DEF StepOf, Create, InsertSession, InsertOwnEvent, Deliver, Receive, UpsertRadarTargets,
       UpsertBattleUnits, UpsertBattleProjectiles, Upsert, CreateBattleEvents,
       UpdateBattleSessionScan, Stop, StopSession, RereadState, StopSnapshotFails, Shared,
       ReadSession, ReadLists, LockSession, Broadcast, Fail, tables
  <1>4. snapshots \subseteq snapshots' /\ \A s \in snapshots' : s \in snapshots \/ s.by = p
    BY <1>3 DEF InsertSnapshot
  <1>5. QED
    BY <1>1, <1>2, <1>3, <1>4

\* An upsert leaves the report's rows as it names them, and takes no row away.
LEMMA Upserted ==
    ASSUME SessionInv, RowsNamed, NEW d \in Deliveries, NEW k \in Kinds, NEW next, Upsert(d, k, next)
    PROVE  /\ RowsNamed' /\ Within(current, current')
           /\ Names(current', loc[d].report, k)
           /\ \A j \in Kinds \ {k} : \A q : Names(current, q, j) => Names(current', q, j)
  <1> DEFINE r == loc[d].report
             rows == [n \in RowNames |-> IF n \in Payload[r].rows[k] THEN r ELSE current[k][n]]
  <1>1. r \in Reports /\ r # None
    BY RequestAssumption DEF SessionInv, HandlerHolds, Upsert, Kinds, Processes
  <1>2. current' = [j \in Kinds |-> IF j = k THEN rows ELSE current[j]]
    BY DEF SessionInv, TypeOK, Tables, Upsert
  <1>3. \A n \in RowNames : rows[n] = IF n \in Payload[r].rows[k] THEN r ELSE current[k][n]
    OBVIOUS
  <1> HIDE DEF rows
  <1>4. /\ \A n \in RowNames : current'[k][n] = IF n \in Payload[r].rows[k] THEN r ELSE current[k][n]
        /\ \A j \in Kinds \ {k} : current'[j] = current[j]
    BY <1>2, <1>3
  <1> HIDE DEF r
  <1>5. RowsNamed'
    BY <1>4 DEF RowsNamed
  <1>6. Within(current, current')
    BY <1>1, <1>4 DEF Within
  <1>7. Names(current', r, k)
    BY <1>1, <1>4 DEF RowsNamed, Names
  <1>8. \A j \in Kinds \ {k} : \A x : Names(current, x, j) => Names(current', x, j)
    BY <1>4 DEF Names
  <1>9. QED
    BY <1>5, <1>6, <1>7, <1>8 DEF r

\* Rows come with the upserts, and none goes.
LEMMA RowsStep ==
    ASSUME SessionInv, RowsNamed, NEW p \in Processes, StepOf(p)
    PROVE  RowsNamed' /\ Within(current, current')
  <1>1. current' = current \/ \E k \in Kinds : \E next : p \in Deliveries /\ Upsert(p, k, next)
    BY DEF StepOf, Create, InsertSession, InsertOwnEvent, Deliver, Receive, UpsertRadarTargets,
       UpsertBattleUnits, UpsertBattleProjectiles, CreateBattleEvents, UpdateBattleSessionScan,
       Stop, StopSession, RereadState, StopSnapshotFails, Shared, ReadSession, ReadLists,
       LockSession, InsertSnapshot, Broadcast, Fail, tables, Kinds
  <1>2. CASE current' = current
    BY <1>2 DEF RowsNamed, Within
  <1>3. QED
    BY <1>1, <1>2, Upserted

\* What a step leaves of a post's report and of the times.
LEMMA TimesStep ==
    ASSUME SessionInv, NEW p \in Processes, StepOf(p)
    PROVE  /\ pc[p] # "idle" => loc'[p].report = loc[p].report
           /\ pc'[p] # "idle"
           /\ \/ row' = None \/ (row # None /\ row'.scan = row.scan) \/ row'.scan = None
              \/ p \in Deliveries /\ row'.scan = loc[p].report /\ pc[p] # "idle"
           /\ \/ loc'[p].time = loc[p].time \/ loc'[p].time = None
              \/ /\ row # None /\ row' = row
                 /\ (loc'[p].time = row.scan /\ row.scan # None) \/ loc'[p].time = row.updatedAt
           /\ \A s \in snapshots' : s \in snapshots \/ s.time = loc[p].time
  <1>0. /\ pc \in [Processes -> ReportPcs \cup StopPcs \cup CreatePcs \cup Over \cup {"idle"}]
        /\ loc \in [Processes -> Locals] /\ loc[p] \in Locals /\ row \in Rows \cup {None}
    BY DEF SessionInv, TypeOK
  <1>1. CASE p = Creator /\ Create
    <2>1. loc' = loc /\ snapshots' = snapshots /\ pc'[p] \in {"startEvent", "session"}
      BY <1>0, <1>1 DEF Create, InsertSession, InsertOwnEvent, Goto
    <2>2. row' = row \/ row'.scan = None
      BY <1>1 DEF Create, InsertSession, InsertOwnEvent
    <2>3. QED
      BY <2>1, <2>2
  <1>2. CASE \E r \in Reports : Receive(p, r)
    <2>1. PICK r \in Reports : Receive(p, r)
      BY <1>2
    <2>2. loc'[p] = [loc[p] EXCEPT !.report = r] /\ pc[p] = "idle" /\ pc'[p] \in {"failed", "targets"}
      BY <1>0, <2>1 DEF Receive, Goto
    <2>3. row' = row /\ snapshots' = snapshots
      BY <2>1 DEF Receive, tables
    <2>4. loc'[p].time = loc[p].time
      BY <1>0, <2>2 DEF Locals
    <2>5. QED
      BY <2>2, <2>3, <2>4
  <1>3. CASE \E k, next : /\ next \in {"units", "projectiles", "events", "scan"}
                          /\ Upsert(p, k, next)
    BY <1>0, <1>3 DEF Upsert, Goto
  <1>4. CASE CreateBattleEvents(p)
    <2>1. loc'[p] = [loc[p] EXCEPT !.inserted = Payload[loc[p].report].events \ events]
      BY <1>0, <1>4 DEF CreateBattleEvents
    <2>2. loc'[p].time = loc[p].time /\ loc'[p].report = loc[p].report
      BY <1>0, <2>1 DEF Locals
    <2>3. row' = row /\ snapshots' = snapshots /\ pc'[p] = "scan"
      BY <1>0, <1>4 DEF CreateBattleEvents, Goto
    <2>4. QED
      BY <2>2, <2>3
  <1>5. CASE p \in Deliveries /\ UpdateBattleSessionScan(p)
    <2>1. loc' = loc /\ snapshots' = snapshots /\ pc[p] = "scan" /\ pc'[p] = "session"
      BY <1>0, <1>5 DEF UpdateBattleSessionScan, Goto
    <2>2. row' = None \/ row'.scan = loc[p].report
      BY <1>0, <1>5 DEF UpdateBattleSessionScan, Rows
    <2>3. QED
      BY <1>5, <2>1, <2>2
  <1>6. CASE ReadSession(p)
    <2>1. /\ loc'[p] = [loc[p] EXCEPT !.time = IF row.scan # None THEN row.scan ELSE row.updatedAt]
          /\ row # None /\ row' = row /\ snapshots' = snapshots /\ pc'[p] = "lists"
      BY <1>0, <1>6 DEF ReadSession, Goto, tables
    <2>2. /\ loc'[p].time = IF row.scan # None THEN row.scan ELSE row.updatedAt
          /\ loc'[p].report = loc[p].report
      BY <1>0, <2>1 DEF Locals
    <2>3. QED
      BY <2>1, <2>2
  <1>7. CASE ReadLists(p)
    <2>1. /\ loc'[p] = loc[p] \/ loc'[p] = [loc[p] EXCEPT !.of = current]
          /\ row' = row /\ snapshots' = snapshots /\ pc'[p] \in {"append", "broadcast"}
      BY <1>0, <1>7 DEF ReadLists, Goto, tables
    <2>2. loc'[p].time = loc[p].time /\ loc'[p].report = loc[p].report
      BY <1>0, <2>1 DEF Locals
    <2>3. QED
      BY <2>1, <2>2
  <1>8. CASE LockSession(p) \/ InsertSnapshot(p) \/ StopSnapshotFails(p)
    <2>1. \/ loc'[p] = [loc[p] EXCEPT !.of = NoTables, !.tick = 0]
          \/ loc'[p] = [loc[p] EXCEPT !.tick = NextTick]
      BY <1>0, <1>8 DEF LockSession, InsertSnapshot, StopSnapshotFails, SnapshotOver
    <2>2. loc'[p].time = loc[p].time /\ loc'[p].report = loc[p].report
      BY <1>0, <2>1 DEF Locals
    <2>3. /\ row' = row /\ pc'[p] \in {"broadcast", "insert"}
          /\ \A s \in snapshots' : s \in snapshots \/ s.time = loc[p].time
      BY <1>0, <1>8 DEF LockSession, InsertSnapshot, StopSnapshotFails, Goto
    <2>4. QED
      BY <2>2, <2>3
  <1>9. CASE StopSession(p)
    <2>1. loc' = loc /\ snapshots' = snapshots /\ pc'[p] \in {"failed", "reread", "stopEvent"}
      BY <1>0, <1>9 DEF StopSession, Goto
    <2>2. row' = row \/ (row # None /\ row'.scan = row.scan)
      BY <1>0, <1>9 DEF StopSession, Rows
    <2>3. QED
      BY <2>1, <2>2
  <1>10. CASE RereadState(p) \/ InsertOwnEvent(p, "stopEvent")
    BY <1>0, <1>10 DEF RereadState, InsertOwnEvent, Goto, tables
  <1>11. CASE Broadcast(p) \/ Fail(p)
    <2>1. \/ loc'[p] = [NoLocals EXCEPT !.report = loc[p].report, !.inserted = loc[p].inserted]
          \/ loc'[p] = [NoLocals EXCEPT !.report = loc[p].report]
      BY <1>0, <1>11 DEF Broadcast, Fail
    <2>2. loc'[p].report = loc[p].report /\ loc'[p].time = None
      BY <2>1 DEF NoLocals
    <2>3. row' = row /\ snapshots' = snapshots /\ pc'[p] \in {"acked", "failed"}
      BY <1>0, <1>11 DEF Broadcast, Fail, Goto, tables
    <2>4. QED
      BY <2>2, <2>3
  <1>12. QED
    BY <1>1, <1>2, <1>3, <1>4, <1>5, <1>6, <1>7, <1>8, <1>9, <1>10, <1>11
    DEF StepOf, Deliver, Stop, Shared, UpsertRadarTargets, UpsertBattleUnits, UpsertBattleProjectiles

\* The posts of a report stay posts of it.
LEMMA PostsStay ==
    ASSUME SessionInv, TimesPosted, NEW p \in Processes, StepOf(p),
           \A q \in Processes \ {p} : pc'[q] = pc[q] /\ loc'[q] = loc[q]
    PROVE  \A r \in Reports : Posts(r) \subseteq Posts(r)'
  <1>1. ASSUME NEW r \in Reports, NEW c \in Posts(r) PROVE c \in Posts(r)'
    <2>1. c \in Deliveries /\ c \in Processes /\ loc[c].report = r /\ pc[c] # "idle"
      BY RequestAssumption DEF Posts, TimesPosted, Processes
    <2>2. loc'[c].report = r
      BY <2>1, TimesStep
    <2>3. QED
      BY <2>1, <2>2 DEF Posts
  <1>2. QED
    BY <1>1

\* The times in the row, the snapshots and the requests stay times of posted reports.
LEMMA NextTimes ==
    ASSUME SessionInv, TimesPosted, NEW p \in Processes, StepOf(p),
           \A q \in Processes \ {p} : pc'[q] = pc[q] /\ loc'[q] = loc[q]
    PROVE  TimesPosted'
  <1>1. \A r \in Reports : Posts(r) # {} => Posts(r)' # {}
    BY PostsStay
  <1>2. /\ row \in Rows \cup {None} /\ row' \in Rows \cup {None}
        /\ pc[p] # "idle" /\ p \in Deliveries => loc[p].report \in Reports
    <2>1. Next
      BY DEF StepOf, Next
    <2>2. QED
      BY <2>1, NextSession DEF SessionInv, TypeOK, HandlerHolds
  <1>3. \A c \in Deliveries : pc'[c] = "idle" => loc'[c].report = None
    BY TimesStep DEF TimesPosted, Processes
  <1>4. ASSUME NEW r, row' # None, row'.scan # None, r = row'.scan PROVE Posts(r)' # {}
    <2>1. r \in Reports
      BY <1>2, <1>4 DEF Rows
    <2>2. CASE row # None /\ r = row.scan
      BY <1>1, <1>4, <2>1, <2>2 DEF TimesPosted
    <2>3. CASE p \in Deliveries /\ r = loc[p].report /\ pc[p] # "idle"
      BY <1>1, <2>1, <2>3 DEF Posts
    <2>4. QED
      BY <1>4, <2>2, <2>3, TimesStep
  <1>5. ASSUME NEW s \in snapshots', NEW r \in Reports, s.time = r PROVE Posts(r)' # {}
    BY <1>1, <1>5, TimesStep DEF TimesPosted
  <1>6. ASSUME NEW q \in Processes, NEW r \in Reports, loc'[q].time = r PROVE Posts(r)' # {}
    <2>1. CASE r = loc[q].time
      BY <1>1, <2>1 DEF TimesPosted
    <2>2. CASE r # loc[q].time
      <3>1. q = p
        BY <1>6, <2>2
      <3>2. row # None /\ (r = row.scan \/ r = row.updatedAt)
        BY <1>6, <2>2, <3>1, TimesStep, RequestAssumption
      <3>3. row.updatedAt \notin Reports
        BY <1>2, <3>2, RequestAssumption DEF Rows
      <3>4. QED
        BY <1>1, <3>2, <3>3, RequestAssumption DEF TimesPosted
    <2>3. QED
      BY <2>1, <2>2
  <1>7. QED
    <2>1. \A r : row' # None /\ row'.scan # None /\ r = row'.scan => Posts(r)' # {}
      BY <1>4
    <2>2. \A s \in snapshots', r \in Reports : s.time = r => Posts(r)' # {}
      BY <1>5
    <2>3. \A q \in Processes, r \in Reports : loc'[q].time = r => Posts(r)' # {}
      BY <1>6
    <2>4. QED
      BY <1>3, <2>1, <2>2, <2>3 DEF TimesPosted, Posts

\* Who is alone after a step and took a snapshot, or is about to, was alone before.
LEMMA AloneBefore ==
    ASSUME LoneInv, NEW p \in Processes, StepOf(p)
    PROVE  /\ \A s \in snapshots : s.by \in alone' => s.by \in alone
           /\ \A q \in Processes : q # p \/ pc[p] # "idle" => (q \in alone' => q \in alone)
  <1>1. alone' = alone \/ (pc[p] = "idle" /\ alone' \subseteq alone \cup ({p} \cap Deliveries))
    BY StepEffects DEF Begin, LoneInv
  <1>2. \A s \in snapshots : pc[p] = "idle" /\ p \in Deliveries => s.by # p
    BY DEF LoneInv, TakenHolds, Over
  <1>3. QED
    BY <1>1, <1>2

\* Requests that take snapshots, of which one has no company, take them one after the
\* other, and the rows only grow.
LEMMA NextRows ==
    ASSUME LoneInv, NEW p \in Processes, StepOf(p),
           \A q \in Processes \ {p} : pc'[q] = pc[q] /\ loc'[q] = loc[q]
    PROVE  RowsStay'
  <1>0. /\ pc \in [Processes -> ReportPcs \cup StopPcs \cup CreatePcs \cup Over \cup {"idle"}]
        /\ loc \in [Processes -> Locals] /\ loc[p] \in Locals /\ alone \subseteq Deliveries
    BY DEF LoneInv, SessionInv, TypeOK
  <1>1. Within(current, current')
    BY RowsStep DEF LoneInv
  <1>2. RowsStay
    BY DEF LoneInv
  <1>3. /\ \A s \in snapshots : s.by \in alone' => s.by \in alone
        /\ \A q \in Processes : q # p \/ pc[p] # "idle" => (q \in alone' => q \in alone)
    BY AloneBefore
  <1>4. \A x, y, z : Within(x, y) /\ Within(y, z) => Within(x, z)
    BY DEF Within
  <1>5. CASE snapshots' = snapshots
    <2>1. \A s \in snapshots' : Within(s.of, current')
      BY <1>1, <1>2, <1>4, <1>5 DEF RowsStay
    <2>2. \A s, t \in snapshots' :
             t.tick < s.tick /\ (s.by \in alone' \/ t.by \in alone') => Within(t.of, s.of)
      BY <1>2, <1>3, <1>5 DEF RowsStay
    <2>3. ASSUME NEW q \in Processes, pc'[q] \in {"append", "insert"}
          PROVE  /\ Within(loc'[q].of, current')
                 /\ \A s \in snapshots' : s.by \in alone' \/ q \in alone' => Within(s.of, loc'[q].of)
      <3>1. CASE pc[q] \in {"append", "insert"} /\ loc'[q].of = loc[q].of
        <4>1. Within(loc'[q].of, current')
          BY <1>1, <1>2, <1>4, <3>1 DEF RowsStay
        <4>2. q # p \/ pc[p] # "idle"
          BY <3>1
        <4>3. \A s \in snapshots : s.by \in alone' \/ q \in alone' => s.by \in alone \/ q \in alone
          BY <1>3, <4>2
        <4>4. \A s \in snapshots' : s.by \in alone' \/ q \in alone' => Within(s.of, loc'[q].of)
          BY <1>2, <1>5, <3>1, <4>3 DEF RowsStay
        <4>5. QED
          BY <4>1, <4>4
      <3>2. CASE q = p /\ ReadLists(p)
        <4>1. pc'[p] = "append" => loc'[p] = [loc[p] EXCEPT !.of = current] /\ current' = current
          BY <1>0, <3>2 DEF ReadLists, Goto, tables
        <4>2. pc'[p] \in {"append", "broadcast"}
          BY <1>0, <3>2 DEF ReadLists, Goto
        <4>3. loc'[q].of = current /\ current' = current
          BY <1>0, <2>3, <3>2, <4>1, <4>2 DEF Locals
        <4>4. QED
          BY <1>2, <1>5, <4>3 DEF RowsStay, Within
      <3>3. CASE q = p /\ LockSession(p)
        <4>1. pc[p] = "append" /\ (pc'[p] = "insert" => loc'[p] = [loc[p] EXCEPT !.tick = NextTick])
          BY <1>0, <3>3 DEF LockSession, Goto
        <4>2. pc'[p] \in {"insert", "broadcast"}
          BY <1>0, <3>3 DEF LockSession, Goto
        <4>3. loc'[p].of = loc[p].of
          BY <1>0, <2>3, <3>3, <4>1, <4>2 DEF Locals
        <4>4. QED
          BY <3>1, <3>3, <4>1, <4>3
      <3>4. CASE q = p /\ ~ReadLists(p) /\ ~LockSession(p)
        <4>1. pc'[p] \notin {"append", "insert"}
          BY <1>0, <3>4
          DEF StepOf, Create, InsertSession, InsertOwnEvent, Deliver, Receive, UpsertRadarTargets,
              UpsertBattleUnits, UpsertBattleProjectiles, Upsert, CreateBattleEvents,
              UpdateBattleSessionScan, Stop, StopSession, RereadState, StopSnapshotFails, Shared,
              ReadSession, InsertSnapshot, Broadcast, Fail, Goto
        <4>2. QED
          BY <2>3, <3>4, <4>1
      <3>5. QED
        BY <2>3, <3>1, <3>2, <3>3, <3>4
    <2>4. QED
      BY <2>1, <2>2, <2>3 DEF RowsStay
  <1>6. CASE InsertSnapshot(p)
    <2> DEFINE new == [tick |-> loc[p].tick, time |-> loc[p].time, events |-> TickEvents(p),
                       of |-> loc[p].of, by |-> p]
    <2>1. /\ pc[p] = "insert" /\ pc'[p] = "broadcast" /\ current' = current /\ alone' = alone
          /\ snapshots' = snapshots \cup {new} /\ lock = p
      BY <1>0, <1>6 DEF InsertSnapshot, Goto, LoneInv, SessionInv, TypeOK
    <2>2. \A s \in snapshots : s.tick < loc[p].tick /\ s.tick \in Nat
      <3>1. loc[p].tick = Cardinality(snapshots) + 1 /\ Cardinality(snapshots) \in Nat
        BY <2>1, FS_CardinalityType DEF LoneInv, SessionInv, TickHolds
      <3>2. \A s \in snapshots : s.tick \in 1 .. Cardinality(snapshots)
        BY DEF LoneInv, SessionInv, TicksContiguous
      <3>3. QED
        BY <3>1, <3>2
    <2>3. new.of = loc[p].of /\ new.by = p /\ new.tick = loc[p].tick /\ loc[p].tick \in Nat
      BY <1>0 DEF Locals
    <2> HIDE DEF new
    <2>4. \A s \in snapshots' : Within(s.of, current')
      BY <1>2, <2>1, <2>3 DEF RowsStay
    <2>5. ASSUME NEW q \in Processes, pc'[q] \in {"append", "insert"}
          PROVE  /\ Within(loc'[q].of, current')
                 /\ \A s \in snapshots' : s.by \in alone' \/ q \in alone' => Within(s.of, loc'[q].of)
      <3>1. q # p /\ pc[q] \in {"append", "insert"} /\ loc'[q] = loc[q]
        BY <2>1, <2>5
      <3>2. Busy(p) /\ Busy(q)
        BY <2>1, <3>1 DEF Busy, Over
      <3>3. p \notin alone /\ q \notin alone
        BY <1>0, <3>1, <3>2 DEF LoneInv, LoneHolds, AloneHolds
      <3>4. QED
        BY <1>2, <2>1, <2>3, <3>1, <3>3 DEF RowsStay
    <2>6. \A s, t \in snapshots' :
             t.tick < s.tick /\ (s.by \in alone' \/ t.by \in alone') => Within(t.of, s.of)
      BY <1>2, <2>1, <2>2, <2>3 DEF RowsStay
    <2>7. QED
      BY <2>4, <2>5, <2>6 DEF RowsStay
  <1>7. QED
    BY <1>5, <1>6, StepEffects DEF LoneInv

\* The step of another request finds the post over, and takes nothing from it.
LEMMA OthersStep ==
    ASSUME LoneInv, NEW p \in Processes, StepOf(p), NEW d \in Deliveries, d # p,
           \A q \in Processes \ {p} : pc'[q] = pc[q] /\ loc'[q] = loc[q]
    PROVE  TakenHolds(d)' /\ LoneHolds(d)'
  <1>1. d \in Processes /\ pc'[d] = pc[d] /\ loc'[d] = loc[d]
    BY DEF Processes
  <1>2. /\ \/ pc[p] = "idle" /\ Begin(p)
           \/ Busy(p) /\ alone' = alone
        /\ events \subseteq events'
        /\ snapshots \subseteq snapshots'
        /\ \A s \in snapshots' : s.by = d => s \in snapshots
    BY StepEffects DEF LoneInv
  <1>7. \A s \in snapshots : s.by \in alone' => s.by \in alone
    BY AloneBefore
  <1>3. TakenHolds(d) /\ LoneHolds(d)
    BY DEF LoneInv
  <1>4. TakenHolds(d)'
    BY <1>1, <1>2, <1>3 DEF TakenHolds
  <1>5. ASSUME d \in alone' PROVE LoneHolds(d)'
    <2>1. d \in alone /\ ~Busy(d)
      <3>1. CASE pc[p] = "idle" /\ Begin(p)
        BY <1>1, <1>5, <3>1 DEF Begin
      <3>2. CASE Busy(p) /\ alone' = alone
        BY <1>3, <1>5, <3>2 DEF LoneHolds, AloneHolds
      <3>3. QED
        BY <1>2, <3>1, <3>2
    <2>2. ~Busy(d)' /\ pc'[d] # "idle"
      BY <1>1, <1>3, <2>1 DEF Busy, LoneHolds
    <2>3. ReplayedHolds(d)'
      <3> DEFINE r == loc[d].report
      <3>1. r \in Reports /\ d \in Posts(r) /\ loc'[d].report = r
        BY <1>1, <1>3, <2>1 DEF LoneInv, SessionInv, HandlerHolds, LoneHolds, Posts
      <3> HIDE DEF r
      <3>2. \A c \in Posts(r) : c \in Deliveries /\ loc'[c].report = r
        BY <3>1, PostsStay DEF LoneInv, Posts
      <3>3. \A s \in snapshots : Stands(s, d) => Stands(s, d)'
        BY <1>1, <1>7, <3>1, <3>2 DEF Stands, Posts, r
      <3>4. QED
        BY <1>1, <1>2, <1>3, <2>1, <3>3 DEF LoneHolds, ReplayedHolds
    <2>4. \A s \in snapshots' : s.by = d => Shows(s, d)'
      BY <1>1, <1>2, <1>3, <2>1 DEF LoneHolds, Shows, Names
    <2>5. QED
      BY <2>2, <2>3, <2>4 DEF LoneHolds
  <1>6. QED
    BY <1>4, <1>5 DEF LoneHolds

\* A post arrives: it is alone when nobody else is at work, and has no snapshot yet.
LEMMA BeginsAlone ==
    ASSUME LoneInv, NEW d \in Deliveries, NEW r \in Reports, Receive(d, r),
           \A q \in Processes \ {d} : pc'[q] = pc[q] /\ loc'[q] = loc[q]
    PROVE  TakenHolds(d)' /\ LoneHolds(d)'
  <1>1. d \in Processes /\ pc[d] = "idle" /\ pc'[d] \in {"failed", "targets"} /\ snapshots' = snapshots
    BY DEF LoneInv, SessionInv, TypeOK, Receive, Goto, tables, Processes
  <1>2. TakenHolds(d)' /\ \A s \in snapshots' : s.by # d
    BY <1>1 DEF LoneInv, TakenHolds, Over
  <1>3. ASSUME d \in alone' PROVE \A q \in Processes \ {d} : ~Busy(q)'
    <2>1. d \notin alone
      BY <1>1 DEF LoneInv, LoneHolds
    <2>2. {q \in Processes \ {d} : Busy(q)} = {}
      BY <1>3, <2>1 DEF Receive, Begin
    <2>3. QED
      BY <2>2 DEF Busy
  <1>4. ReplayedHolds(d)'
    BY <1>1 DEF ReplayedHolds
  <1>5. ASSUME NEW s \in snapshots', s.time = loc'[d].report
        PROVE  \E c \in Deliveries \ {d} : loc'[c].report = loc'[d].report
    <2>1. loc'[d].report = r /\ d \in Deliveries /\ r # None
      BY RequestAssumption DEF LoneInv, SessionInv, TypeOK, Receive, Processes, Locals
    <2>2. PICK c : c \in Posts(r)
      BY <1>1, <1>5, <2>1 DEF LoneInv, TimesPosted
    <2>3. c # d /\ c \in Deliveries /\ loc'[c].report = r
      BY <1>1, <2>1, <2>2 DEF LoneInv, TimesPosted, Posts, Processes
    <2>4. QED
      BY <2>1, <2>3
  <1>6. Busy(d)' /\ d \in alone' => AloneHolds(d)'
    BY <1>1, <1>3, <1>5 DEF AloneHolds, Written, Posts
  <1>7. QED
    BY <1>1, <1>2, <1>4, <1>6 DEF LoneHolds

\* A step of a post without company brings it one step further, or ends it.
LEMMA WorksAlone ==
    ASSUME LoneInv, NEW d \in Deliveries, d \in alone, Busy(d), StepOf(d),
           \A q \in Processes \ {d} : pc'[q] = pc[q] /\ loc'[q] = loc[q]
    PROVE  LoneHolds(d)'
  <1> DEFINE r == loc[d].report
  <1>1. /\ d \in Processes /\ d \notin Stops /\ d # Creator
        /\ pc \in [Processes -> ReportPcs \cup StopPcs \cup CreatePcs \cup Over \cup {"idle"}]
        /\ loc \in [Processes -> Locals] /\ loc[d] \in Locals /\ current \in Tables
        /\ r \in Reports /\ r # None
    BY RequestAssumption DEF LoneInv, SessionInv, TypeOK, HandlerHolds, Busy, Processes
  <1>2. /\ AloneHolds(d) /\ ReplayedHolds(d)
        /\ \A s \in snapshots : s.by = d => Shows(s, d)
    BY DEF LoneInv, LoneHolds
  <1>3. \A q \in Processes \ {d} : ~Busy(q)'
    BY <1>2 DEF AloneHolds, Busy
  <1>18. alone' = alone /\ Posts(r)' = Posts(r)
    <2>1. alone' = alone
      BY <1>1, StepEffects DEF LoneInv, Busy
    <2>2. \A c \in Deliveries : loc'[c].report = loc[c].report
      BY <1>1, TimesStep DEF LoneInv, Busy, Processes
    <2>3. QED
      BY <2>1, <2>2 DEF Posts
  <1>4. SUFFICES /\ pc'[d] # "idle" /\ ReplayedHolds(d)'
                 /\ Busy(d)' => AloneHolds(d)'
                 /\ \A s \in snapshots' : s.by = d => Shows(s, d)'
    BY DEF LoneHolds
  <1>5. CASE Fail(d)
    <2>1. loc'[d] = [NoLocals EXCEPT !.report = loc[d].report]
      BY <1>1, <1>5 DEF Fail
    <2>2. pc'[d] = "failed" /\ loc'[d].report = loc[d].report /\ snapshots' = snapshots
      BY <1>1, <1>5, <2>1 DEF Fail, Goto, NoLocals
    <2>3. QED
      BY <1>2, <2>2 DEF ReplayedHolds, Shows, Names, Busy, Over
  <1>6. CASE Upsert(d, "targets", IF Payload[r].state THEN "units" ELSE "scan")
    <2>1. /\ pc'[d] = IF Payload[r].state THEN "units" ELSE "scan"
          /\ loc' = loc /\ snapshots' = snapshots
          /\ Names(current', r, "targets")
      BY <1>1, <1>6, Upserted DEF LoneInv, Upsert, Goto, Kinds
    <2>2. pc[d] = "targets"
      BY <1>6 DEF Upsert
    <2>3. AloneHolds(d)'
      BY <1>2, <1>3, <1>18, <2>1, <2>2 DEF AloneHolds, Names, Written
    <2>4. ReplayedHolds(d)'
      BY <1>2, <1>18, <2>1, <2>2 DEF ReplayedHolds
    <2>5. QED
      BY <1>2, <2>1, <2>3, <2>4 DEF Shows, Names
  <1>7. CASE Upsert(d, "units", "projectiles")
    <2>1. /\ pc[d] = "units" /\ pc'[d] = "projectiles"
          /\ loc' = loc /\ snapshots' = snapshots
          /\ Names(current', r, "units")
          /\ Names(current, r, "targets") => Names(current', r, "targets")
      BY <1>1, <1>7, Upserted DEF LoneInv, Upsert, Goto, Kinds
    <2>2. QED
      BY <1>2, <1>3, <1>18, <2>1 DEF ReplayedHolds, Stands, AloneHolds, Shows, Names, Written
  <1>8. CASE Upsert(d, "projectiles", "events")
    <2>1. /\ pc[d] = "projectiles" /\ pc'[d] = "events"
          /\ loc' = loc /\ snapshots' = snapshots
          /\ Names(current', r, "projectiles")
          /\ \A k \in {"targets", "units"} : Names(current, r, k) => Names(current', r, k)
      BY <1>1, <1>8, Upserted DEF LoneInv, Upsert, Goto, Kinds
    <2>2. QED
      BY <1>2, <1>3, <1>18, <2>1 DEF ReplayedHolds, Stands, AloneHolds, Shows, Names, Written, Kinds
  <1>9. CASE CreateBattleEvents(d)
    <2>1. /\ pc[d] = "events" /\ pc'[d] = "scan"
          /\ loc'[d].report = r /\ snapshots' = snapshots /\ current' = current
          /\ Payload[r].events \subseteq events'
      BY <1>1, <1>9 DEF CreateBattleEvents, Goto, Locals
    <2>2. QED
      BY <1>2, <1>3, <1>18, <2>1 DEF ReplayedHolds, Stands, AloneHolds, Shows, Names, Written
  <1>10. CASE UpdateBattleSessionScan(d)
    <2>1. /\ pc[d] = "scan" /\ pc'[d] = "session"
          /\ loc' = loc /\ snapshots' = snapshots /\ current' = current /\ events' = events
      BY <1>1, <1>10 DEF UpdateBattleSessionScan, Goto
    <2>2. row' # None => row'.scan = r
      BY <1>10 DEF UpdateBattleSessionScan, LoneInv, SessionInv, TypeOK, Rows
    <2>3. QED
      BY <1>2, <1>3, <1>18, <2>1, <2>2 DEF ReplayedHolds, Stands, AloneHolds, Shows, Names, Written
  <1>11. CASE ReadSession(d)
    <2>1. /\ pc[d] = "session" /\ pc'[d] = "lists"
          /\ snapshots' = snapshots /\ current' = current /\ events' = events
          /\ row # None /\ loc'[d] = [loc[d] EXCEPT !.time = IF row.scan # None THEN row.scan ELSE row.updatedAt]
      BY <1>1, <1>11 DEF ReadSession, Goto, tables
    <2>2. loc'[d].report = r /\ loc'[d].time = r
      BY <1>1, <1>2, <2>1 DEF AloneHolds, Locals
    <2>3. QED
      BY <1>2, <1>3, <1>18, <2>1, <2>2 DEF ReplayedHolds, Stands, AloneHolds, Shows, Names, Written
  <1>12. CASE ReadLists(d)
    <2>1. /\ pc[d] = "lists" /\ pc'[d] = IF Payload[r].state THEN "append" ELSE "broadcast"
          /\ snapshots' = snapshots /\ events' = events
          /\ loc'[d] = IF Payload[r].state THEN [loc[d] EXCEPT !.of = current] ELSE loc[d]
      BY <1>1, <1>12 DEF ReadLists, Goto, tables
    <2>2. /\ loc'[d].report = r /\ loc'[d].time = loc[d].time
          /\ Payload[r].state => loc'[d].of = current
      BY <1>1, <2>1 DEF Locals
    <2>3. QED
      BY <1>2, <1>3, <1>18, <2>1, <2>2 DEF ReplayedHolds, Stands, AloneHolds, Shows, Names, Written
  <1>13. CASE LockSession(d)
    <2>1. /\ pc[d] = "append"
          /\ snapshots' = snapshots /\ events' = events
          /\ \/ pc'[d] = "broadcast" /\ \E s \in snapshots : s.time = loc[d].time
             \/ pc'[d] = "insert"
      BY <1>1, <1>13 DEF LockSession, Goto
    <2>2. loc'[d].report = r
      BY <1>1, <1>13 DEF LockSession, SnapshotOver, Locals
    <2>3. pc'[d] = "insert" => loc'[d] = [loc[d] EXCEPT !.tick = NextTick]
      BY <1>1, <1>13 DEF LockSession, Goto
    <2>4. pc'[d] = "insert" => loc'[d].time = loc[d].time /\ loc'[d].of = loc[d].of
      BY <1>1, <2>3 DEF Locals
    <2>5. ASSUME NEW s \in snapshots, s.time = r, pc[d] = "append" PROVE Stands(s, d)
      <3>1. CASE s.by \in alone
        <4>1. s.by \in Deliveries /\ Shows(s, s.by)
          BY <3>1 DEF LoneInv, SessionInv, TypeOK, LoneHolds
        <4>2. QED
          BY <2>5, <4>1 DEF Shows, Stands
      <3>2. CASE s.by \notin alone
        BY <1>2, <2>5, <3>2 DEF AloneHolds, Stands
      <3>3. QED
        BY <3>1, <3>2
    <2>6. pc'[d] = "broadcast" => \E s \in snapshots : Stands(s, d)'
      <3>1. pc'[d] = "broadcast" => \E s \in snapshots : Stands(s, d)
        BY <1>2, <2>1, <2>5 DEF AloneHolds
      <3>2. \A s \in snapshots : Stands(s, d) => Stands(s, d)'
        BY <1>18, <2>2 DEF Stands
      <3>3. QED
        BY <3>1, <3>2
    <2>7. ReplayedHolds(d)'
      BY <1>2, <2>1, <2>2, <2>6 DEF ReplayedHolds
    <2>8. \A s \in snapshots' : s.by = d => Shows(s, d)'
      BY <1>2, <2>1, <2>2 DEF Shows, Names
    <2>9. AloneHolds(d)'
      BY <1>2, <1>3, <1>18, <2>1, <2>2, <2>4 DEF AloneHolds, Names, Written
    <2>10. QED
      BY <2>1, <2>7, <2>8, <2>9
  <1>14. CASE InsertSnapshot(d)
    <2> DEFINE new == [tick |-> loc[d].tick, time |-> loc[d].time, events |-> TickEvents(d),
                       of |-> loc[d].of, by |-> d]
    <2>1. /\ pc[d] = "insert" /\ pc'[d] = "broadcast" /\ events' = events
          /\ snapshots' = snapshots \cup {new}
      BY <1>1, <1>14 DEF InsertSnapshot, Goto
    <2>2. loc'[d].report = r
      BY <1>1, <1>14 DEF InsertSnapshot, SnapshotOver, Locals
    <2>3. new.time = r /\ new.events = Payload[r].events /\ \A k \in Kinds : Names(new.of, r, k)
      BY <1>1, <1>2, <2>1 DEF AloneHolds, TickEvents, Names
    <2> HIDE DEF new
    <2>4. \A s \in snapshots' : s.by = d => Shows(s, d)'
      BY <1>2, <2>1, <2>2, <2>3 DEF Shows, Names
    <2>5. \E s \in snapshots' : Stands(s, d)'
      BY <2>1, <2>2, <2>3 DEF Stands
    <2>6. QED
      BY <1>2, <1>3, <2>1, <2>2, <2>3, <2>4, <2>5 DEF ReplayedHolds, AloneHolds, Written
  <1>15. CASE Broadcast(d)
    <2>1. /\ pc[d] = "broadcast" /\ pc'[d] = "acked" /\ events' = events /\ snapshots' = snapshots
          /\ loc'[d] = [NoLocals EXCEPT !.report = loc[d].report, !.inserted = loc[d].inserted]
      BY <1>1, <1>15 DEF Broadcast, Goto, tables
    <2>2. loc'[d].report = r
      BY <2>1 DEF NoLocals
    <2>3. QED
      BY <1>2, <1>18, <2>1, <2>2 DEF ReplayedHolds, Stands, Shows, Names, Busy, Over
  <1>16. ~ \E q \in Reports : Receive(d, q)
    BY DEF Receive, Busy
  <1>17. QED
    BY <1>1, <1>5, <1>6, <1>7, <1>8, <1>9, <1>10, <1>11, <1>12, <1>13, <1>14, <1>15, <1>16
    DEF StepOf, Deliver, Shared, UpsertRadarTargets, UpsertBattleUnits, UpsertBattleProjectiles

\* A post that took a snapshot is past its transaction, whatever company it had.
LEMMA TakenStep ==
    ASSUME LoneInv, NEW d \in Deliveries, Busy(d), StepOf(d) PROVE TakenHolds(d)'
  <1>1. /\ d \in Processes /\ d \notin Stops /\ d # Creator
        /\ pc \in [Processes -> ReportPcs \cup StopPcs \cup CreatePcs \cup Over \cup {"idle"}]
    BY RequestAssumption DEF LoneInv, SessionInv, TypeOK, Processes
  <1>2. CASE InsertSnapshot(d)
    BY <1>1, <1>2 DEF InsertSnapshot, Goto, TakenHolds
  <1>3. CASE Broadcast(d) \/ Fail(d)
    BY <1>1, <1>3 DEF Broadcast, Fail, Goto, TakenHolds, Over
  <1>4. CASE ~(InsertSnapshot(d) \/ Broadcast(d) \/ Fail(d))
    <2>1. snapshots' = snapshots /\ pc[d] \notin {"broadcast"} \cup Over
      BY <1>1, <1>4 DEF StepOf, Deliver, Receive, UpsertRadarTargets, UpsertBattleUnits,
         UpsertBattleProjectiles, Upsert, CreateBattleEvents, UpdateBattleSessionScan, Shared,
         ReadSession, ReadLists, LockSession, tables, Over, Busy
    <2>2. QED
      BY <2>1 DEF LoneInv, TakenHolds
  <1>5. QED
    BY <1>2, <1>3, <1>4

\* Each step keeps what lone posts leave.
LEMMA NextLone == LoneInv /\ [Next]_vars => LoneInv'
  <1> SUFFICES ASSUME LoneInv, [Next]_vars PROVE LoneInv'
    OBVIOUS
  <1>1. SessionInv'
    BY NextSession DEF LoneInv
  <1>2. CASE Next
    <2>1. PICK p \in Processes :
              StepOf(p) /\ \A q \in Processes \ {p} : pc'[q] = pc[q] /\ loc'[q] = loc[q]
      BY <1>2, StepOfOne DEF LoneInv
    <2>2. ASSUME NEW d \in Deliveries PROVE TakenHolds(d)' /\ LoneHolds(d)'
      <3>1. CASE d # p
        BY <2>1, <3>1, OthersStep
      <3>2. CASE d = p /\ \E r \in Reports : Receive(d, r)
        BY <2>1, <3>2, BeginsAlone
      <3>3. CASE d = p /\ ~ \E r \in Reports : Receive(d, r)
        <4>1. Busy(d) /\ alone' = alone
          <5>1. d \notin Stops /\ d # Creator
            BY RequestAssumption
          <5>2. ~Begin(d) \/ pc[d] # "idle"
            BY <2>1, <3>3, <5>1 DEF StepOf, Deliver, UpsertRadarTargets, UpsertBattleUnits,
               UpsertBattleProjectiles, Upsert, CreateBattleEvents, UpdateBattleSessionScan,
               Shared, ReadSession, ReadLists, LockSession, InsertSnapshot, Broadcast, Fail, Busy
          <5>3. QED
            BY <2>1, <3>3, <5>2, StepEffects DEF LoneInv
        <4>2. TakenHolds(d)'
          BY <2>1, <3>3, <4>1, TakenStep
        <4>3. CASE d \in alone
          BY <2>1, <3>3, <4>1, <4>2, <4>3, WorksAlone
        <4>4. CASE d \notin alone
          BY <4>1, <4>2, <4>4 DEF LoneHolds
        <4>5. QED
          BY <4>3, <4>4
      <3>4. QED
        BY <3>1, <3>2, <3>3
    <2>3. RowsNamed' /\ TimesPosted' /\ RowsStay'
      BY <2>1, RowsStep, NextTimes, NextRows DEF LoneInv
    <2>4. QED
      BY <1>1, <2>2, <2>3 DEF LoneInv
  <1>3. CASE UNCHANGED vars
    <2>1. RowsNamed' /\ TimesPosted' /\ RowsStay'
      BY <1>3 DEF vars, LoneInv, RowsNamed, TimesPosted, RowsStay, Within, Posts
    <2>2. ASSUME NEW d \in Deliveries PROVE TakenHolds(d)' /\ LoneHolds(d)'
      BY <1>3 DEF vars, LoneInv, TakenHolds, LoneHolds, AloneHolds, ReplayedHolds, Stands, Shows,
                  Names, Written, Busy, Posts
    <2>3. QED
      BY <1>1, <2>1, <2>2 DEF LoneInv
  <1>4. QED
    BY <1>2, <1>3

\* Nothing is stored and nobody at work before the first request.
LEMMA InitLone == Init => LoneInv
  <1> SUFFICES ASSUME Init PROVE LoneInv
    OBVIOUS
  <1>1. RowsNamed
    BY DEF Init, NoTables, NoRows, RowsNamed
  <1>2. TimesPosted
    BY RequestAssumption DEF Init, NoLocals, TimesPosted, Processes
  <1>3. RowsStay
    BY DEF Init, RowsStay
  <1>4. QED
    BY <1>1, <1>2, <1>3, InitSession DEF LoneInv, Init, TakenHolds, LoneHolds

\* A report that no other request overlapped is accepted only with its events in the
\* table and a snapshot of its time in the replay, which tells of its events unless an
\* earlier post of it had written that time and a stop or an overlapped post took the
\* snapshot; and a snapshot that such a report took has its time, its events and its
\* rows, and all rows of every earlier one (receiveRadarReportWithDeps from its upserts
\* to AppendBattleSnapshot).
THEOREM BattleLonePosts == Spec => [](LoneSnapshotExact /\ LoneAckIsReplayed)
  <1>1. Init => LoneInv
    BY InitLone
  <1>2. LoneInv => LoneSnapshotExact
    BY DEF LoneInv, LoneHolds, RowsStay, Shows, Names, LoneSnapshotExact
  <1>3. LoneInv => LoneAckIsReplayed
    BY DEF LoneInv, LoneHolds, ReplayedHolds, Stands, LoneAckIsReplayed
  <1>4. QED
    BY <1>1, <1>2, <1>3, NextLone, PTL DEF Spec
=============================================================================
