---------------------------- MODULE LiveOpsProofs ---------------------------
(***************************************************************************)
(* Proofs about LiveOps: what a prune leaves, what a capacity probe leaves *)
(* and measures, and what the result of a smoke check says, for any        *)
(* reports, requests, command lines and ticks.                             *)
(*                                                                         *)
(* The base (LiveBase) is what all rest on: every request is at a place    *)
(* of its own handler, and only the script whose session it is has begun.  *)
(* All that a smoke check or a probe sees of its session are steps of      *)
(* BattleSession, so what BattleProofs proves of posts without company and *)
(* of announced events holds there too; a prune takes rows away, so it     *)
(* does not hold beside the retention script, and is not needed there.     *)
(*                                                                         *)
(* PruneInv says what the statements of a run have left so far, ProbeInv   *)
(* which requests a probe has made by the place it is at, and SmokeInv     *)
(* what the tables, the hub and the connection hold at each check of a     *)
(* smoke check that nothing troubled.                                      *)
(***************************************************************************)
EXTENDS LiveOps, BattleProofs, SequenceTheorems

\* The places of the handler of p.
PlacesOf(p) == IF p \in Deliveries THEN ReportPcs \cup Over
               ELSE IF p \in Stops THEN StopPcs \cup Over ELSE CreatePcs \cup Over

\* Locals, whatever a handler has read.
Shaped(x) == x \in [report : Reports \cup {None}, inserted : {x.inserted}, time : {x.time},
                    of : {x.of}, tick : {x.tick}]

\* Every request is at a place of its own handler and knows its report; the row has its
\* columns; and a snapshot was taken by a report or a stop.
Handled(p) == /\ pc[p] \in PlacesOf(p) \cup {"idle"}
              /\ Shaped(loc[p])
              /\ p \in Deliveries /\ pc[p] # "idle" => loc[p].report \in Reports
Served == /\ pc = [p \in Processes |-> pc[p]] /\ loc = [p \in Processes |-> loc[p]]
          /\ \A p \in Processes : Handled(p)
          /\ row \in Rows \cup {None}
          /\ \A s \in snapshots : s.by \in Deliveries \cup Stops /\ pc[s.by] # "idle"

\* What a scan makes of the row.
Scans(p) == /\ p \in Deliveries /\ row # None /\ row' # None
            /\ row'.updatedAt = p /\ row'.stoppedAt = row.stoppedAt
            /\ row'.status = IF Payload[loc[p].report].status = "" THEN row.status
                             ELSE Payload[loc[p].report].status

\* A step of the handler of p: nobody else moves, it keeps its report, and of the row it
\* writes no more than that of a scan.
Handles(p) == /\ Busy(p) /\ pc'[p] \in PlacesOf(p)
              /\ \A q \in Processes \ {p} : pc'[q] = pc[q]
              /\ \A q \in Processes : loc'[q].report = loc[q].report
              /\ row' = row \/ Scans(p)
              /\ alone' = alone

\* The handler of p goes to a place of its own and changes its own locals only.
Moves(p, place, locals) ==
    /\ Busy(p) /\ place \in PlacesOf(p) /\ Goto(p, place)
    /\ Shaped(locals) /\ locals.report = loc[p].report /\ loc' = [loc EXCEPT ![p] = locals]
\* The rest of a step: the row, and a snapshot that p takes.
Writes(p) == /\ row' \in Rows \cup {None}
             /\ row' = row \/ Scans(p)
             /\ alone' = alone
             /\ \A s \in snapshots' : s \in snapshots \/ (s.by = p /\ p \in Deliveries \cup Stops)

LEMMA HandlerMoves ==
    ASSUME Served, NEW p \in Processes, NEW place, NEW locals, Moves(p, place, locals)
    PROVE  /\ pc' = [q \in Processes |-> pc'[q]] /\ loc' = [q \in Processes |-> loc'[q]]
           /\ \A q \in Processes : Handled(q)'
           /\ pc'[p] \in PlacesOf(p) /\ \A q \in Processes \ {p} : pc'[q] = pc[q]
           /\ \A q \in Processes : loc'[q].report = loc[q].report
<1>1. /\ pc' = [q \in Processes |-> IF q = p THEN place ELSE pc[q]]
      /\ loc' = [q \in Processes |-> IF q = p THEN locals ELSE loc[q]]
  BY DEF Served, Goto, Moves
<1>2. \A q \in Processes : /\ pc'[q] = IF q = p THEN place ELSE pc[q]
                           /\ loc'[q] = IF q = p THEN locals ELSE loc[q]
  BY <1>1
<1>3. ASSUME NEW q \in Processes PROVE Handled(q)'
  <2>1. CASE q = p
    BY <1>2, <2>1 DEF Served, Handled, Busy, Shaped, Moves
  <2>2. CASE q # p
    BY <1>2, <2>2 DEF Served, Handled, Shaped
  <2> QED  BY <2>1, <2>2
<1>4. pc'[p] \in PlacesOf(p) /\ \A q \in Processes \ {p} : pc'[q] = pc[q]
  BY <1>2 DEF Moves
<1>5. \A q \in Processes : loc'[q].report = loc[q].report
  BY <1>2 DEF Moves
<1> QED  BY <1>1, <1>2, <1>3, <1>4, <1>5

LEMMA LocalsKept ==
    ASSUME Served, NEW p \in Processes
    PROVE  Shaped(loc[p]) /\ loc = [loc EXCEPT ![p] = loc[p]]
<1>1. loc = [q \in Processes |-> loc[q]] /\ Shaped(loc[p])
  BY DEF Served, Handled
<1> QED  BY <1>1

LEMMA QuietWrites ==
    ASSUME Served, NEW p \in Processes, UNCHANGED <<row, snapshots, alone>>
    PROVE  Writes(p)
BY DEF Served, Writes

LEMMA HandlerWrites ==
    ASSUME Served, NEW p \in Processes, NEW place, NEW locals, Moves(p, place, locals), Writes(p)
    PROVE  Handles(p) /\ Served'
<1>1. /\ pc' = [q \in Processes |-> pc'[q]] /\ loc' = [q \in Processes |-> loc'[q]]
      /\ \A q \in Processes : Handled(q)'
      /\ pc'[p] \in PlacesOf(p) /\ \A q \in Processes \ {p} : pc'[q] = pc[q]
      /\ \A q \in Processes : loc'[q].report = loc[q].report
  BY HandlerMoves
<1>2. Handles(p)
  BY <1>1 DEF Handles, Writes, Moves
<1>3. ASSUME NEW s \in snapshots' PROVE s.by \in Deliveries \cup Stops /\ pc'[s.by] # "idle"
  <2>1. s.by \in Deliveries \cup Stops /\ (s.by = p \/ pc[s.by] # "idle")
    BY DEF Served, Writes
  <2>2. s.by \in Processes
    BY <2>1 DEF Processes
  <2>3. pc'[p] # "idle"
    BY <1>1 DEF PlacesOf, ReportPcs, StopPcs, CreatePcs, Over
  <2> QED  BY <1>1, <2>1, <2>2, <2>3
<1>4. row' \in Rows \cup {None}
  BY DEF Writes
<1> QED  BY <1>1, <1>2, <1>3, <1>4 DEF Served

\* What a step of the server on the tables and locals does.
LEMMA ServerHandles ==
    ASSUME Served, NEW p \in Processes, ServerStep(p) \/ Broadcast(p)
    PROVE  Handles(p) /\ Served' /\ Next
<1> USE RequestAssumption
<1>1. /\ pc[p] \in PlacesOf(p) \cup {"idle"}
      /\ p \in Stops => p \notin Deliveries /\ p # Creator
      /\ p \in Deliveries => p \notin Stops /\ p # Creator
      /\ p \in Deliveries \/ p \in Stops \/ p = Creator
      /\ row \in Rows \cup {None}
      /\ Shaped(loc[p]) /\ loc = [loc EXCEPT ![p] = loc[p]]
  BY LocalsKept DEF Served, Handled, Processes
<1>2. Busy(p) <=> pc[p] \notin {"acked", "failed", "idle"}
  BY DEF Busy, Over
<1>3. CASE InsertOwnEvent(p, IF p = Creator THEN "startEvent" ELSE "stopEvent")
  <2>1. Moves(p, "session", loc[p])
    BY <1>1, <1>2, <1>3 DEF InsertOwnEvent, PlacesOf, ReportPcs, StopPcs, CreatePcs, Over, Moves
  <2>2. Writes(p)
    BY <1>3, QuietWrites DEF InsertOwnEvent
  <2>3. p = Creator \/ p \in Stops
    BY <1>1, <1>3 DEF InsertOwnEvent, PlacesOf, ReportPcs, Over
  <2> QED  BY <1>3, <2>1, <2>2, <2>3, HandlerWrites DEF Next, Create, Stop
<1>4. CASE Fail(p)
  <2> DEFINE locals == [NoLocals EXCEPT !.report = loc[p].report]
  <2>1. Shaped(locals) /\ locals.report = loc[p].report
    BY <1>1 DEF Shaped, NoLocals
  <2>2. loc' = [loc EXCEPT ![p] = locals]
    BY <1>4 DEF Fail
  <2> HIDE DEF locals
  <2>3. Moves(p, "failed", locals)
    BY <1>4, <2>1, <2>2 DEF Fail, PlacesOf, Over, Moves
  <2>4. Writes(p)
    BY <1>4, QuietWrites DEF Fail
  <2> QED  BY <1>4, <2>3, <2>4, HandlerWrites DEF Next
<1>5. ASSUME NEW k \in Kinds, NEW next \in {"units", "projectiles", "events", "scan"}, Upsert(p, k, next)
      PROVE  p \in Deliveries /\ Handles(p) /\ Served'
  <2>1. p \in Deliveries
    BY <1>1, <1>5 DEF Upsert, Kinds, PlacesOf, StopPcs, CreatePcs, Over
  <2>2. Moves(p, next, loc[p])
    BY <1>1, <1>2, <1>5, <2>1 DEF Upsert, PlacesOf, ReportPcs, Kinds, Moves
  <2>3. Writes(p)
    BY <1>5, QuietWrites DEF Upsert
  <2> QED  BY <2>1, <2>2, <2>3, HandlerWrites
<1>6. CASE UpsertRadarTargets(p)
  <2>1. pc[p] = "targets"
    BY <1>6 DEF UpsertRadarTargets
  <2>2. p \in Deliveries
    BY <1>1, <2>1 DEF PlacesOf, StopPcs, CreatePcs, Over
  <2>3. CASE Fail(p)
    BY <1>4, <1>6, <2>2, <2>3 DEF Next, Deliver
  <2>4. CASE ~Fail(p)
    <3>1. Upsert(p, "targets", "units") \/ Upsert(p, "targets", "scan")
      BY <1>6, <2>4 DEF UpsertRadarTargets
    <3>2. Handles(p) /\ Served'
      BY <1>5, <3>1 DEF Kinds
    <3> QED  BY <1>6, <2>2, <3>2 DEF Next, Deliver
  <2> QED  BY <2>3, <2>4
<1>7. CASE UpsertBattleUnits(p) \/ UpsertBattleProjectiles(p)
  <2>1. p \in Deliveries /\ Handles(p) /\ Served'
    BY <1>5, <1>7 DEF UpsertBattleUnits, UpsertBattleProjectiles, Kinds
  <2> QED  BY <1>7, <2>1 DEF Next, Deliver
<1>8. CASE CreateBattleEvents(p)
  <2> DEFINE locals == [loc[p] EXCEPT !.inserted = Payload[loc[p].report].events \ events]
  <2>1. p \in Deliveries
    BY <1>1, <1>8 DEF CreateBattleEvents, PlacesOf, StopPcs, CreatePcs, Over
  <2>2. loc' = [loc EXCEPT ![p] = locals]
    BY <1>8 DEF CreateBattleEvents
  <2>3. Shaped(locals) /\ locals.report = loc[p].report
    BY <1>1 DEF Shaped
  <2> HIDE DEF locals
  <2>4. Moves(p, "scan", locals)
    BY <1>2, <1>8, <2>1, <2>2, <2>3 DEF CreateBattleEvents, PlacesOf, ReportPcs, Moves
  <2>5. Writes(p)
    BY <1>8, QuietWrites DEF CreateBattleEvents
  <2> QED  BY <1>8, <2>1, <2>4, <2>5, HandlerWrites DEF Next, Deliver
<1>9. CASE UpdateBattleSessionScan(p)
  <2>1. p \in Deliveries
    BY <1>1, <1>9 DEF UpdateBattleSessionScan, PlacesOf, StopPcs, CreatePcs, Over
  <2>2. Moves(p, "session", loc[p])
    BY <1>1, <1>2, <1>9, <2>1 DEF UpdateBattleSessionScan, PlacesOf, ReportPcs, Moves
  <2>3. row' \in Rows \cup {None} /\ (row' = row \/ Scans(p))
    <3>1. CASE row = None
      BY <1>9, <3>1 DEF UpdateBattleSessionScan
    <3>2. CASE row # None
      <4> DEFINE r == loc[p].report
                 status1 == IF Payload[r].status = "" THEN row.status ELSE Payload[r].status
      <4>1. r \in Reports
        BY <1>9, <2>1 DEF Served, Handled, UpdateBattleSessionScan
      <4>2. Payload[r].status \in ReportStatuses
        BY <4>1, PayloadAssumption DEF Payloads
      <4>3. row' = [row EXCEPT !.scan = r, !.updatedAt = p, !.status = status1]
        BY <1>9, <3>2 DEF UpdateBattleSessionScan
      <4>4. row \in Rows
        BY <1>1, <3>2
      <4>5. status1 \in {"running", "stopped", "blue_victory", "red_victory"}
        BY <4>2, <4>4 DEF Rows, ReportStatuses
      <4>6. status1 = IF Payload[r].status = "" THEN row.status ELSE Payload[r].status
        OBVIOUS
      <4> HIDE DEF r, status1
      <4>7. row' \in Rows /\ row'.updatedAt = p /\ row'.stoppedAt = row.stoppedAt /\ row'.status = status1
        BY <4>1, <4>3, <4>4, <4>5 DEF Rows
      <4>8. row' # None
        BY <4>7, LiveAssumption
      <4> QED  BY <2>1, <3>2, <4>6, <4>7, <4>8 DEF Scans, r
    <3> QED  BY <3>1, <3>2
  <2>4. Writes(p)
    BY <1>9, <2>3 DEF UpdateBattleSessionScan, Writes
  <2> QED  BY <1>9, <2>1, <2>2, <2>4, HandlerWrites DEF Next, Deliver
<1>10. CASE ReadSession(p)
  <2> DEFINE locals == [loc[p] EXCEPT !.time = IF row.scan # None THEN row.scan ELSE row.updatedAt]
  <2>1. loc' = [loc EXCEPT ![p] = locals]
    BY <1>10 DEF ReadSession
  <2>2. Shaped(locals) /\ locals.report = loc[p].report
    BY <1>1 DEF Shaped
  <2> HIDE DEF locals
  <2>3. Moves(p, "lists", locals)
    BY <1>1, <1>2, <1>10, <2>1, <2>2 DEF ReadSession, PlacesOf, ReportPcs, StopPcs, CreatePcs, Moves
  <2>4. Writes(p)
    BY <1>10, QuietWrites DEF ReadSession, tables
  <2> QED  BY <1>10, <2>3, <2>4, HandlerWrites DEF Next, Shared
<1>11. CASE ReadLists(p)
  <2>1. Writes(p)
    BY <1>11, QuietWrites DEF ReadLists, tables
  <2>2. CASE p \in Stops \/ (p \in Deliveries /\ Payload[loc[p].report].state)
    <3> DEFINE locals == [loc[p] EXCEPT !.of = current]
    <3>1. loc' = [loc EXCEPT ![p] = locals]
      BY <1>11, <2>2 DEF ReadLists
    <3>2. Shaped(locals) /\ locals.report = loc[p].report
      BY <1>1 DEF Shaped
    <3> HIDE DEF locals
    <3>3. Moves(p, "append", locals)
      BY <1>1, <1>2, <1>11, <2>2, <3>1, <3>2 DEF ReadLists, PlacesOf, ReportPcs, StopPcs, Moves
    <3> QED  BY <1>11, <2>1, <3>3, HandlerWrites DEF Next, Shared
  <2>3. CASE ~(p \in Stops \/ (p \in Deliveries /\ Payload[loc[p].report].state))
    <3>1. Moves(p, "broadcast", loc[p])
      BY <1>1, <1>2, <1>11, <2>3 DEF ReadLists, PlacesOf, ReportPcs, StopPcs, CreatePcs, Moves
    <3> QED  BY <1>11, <2>1, <3>1, HandlerWrites DEF Next, Shared
  <2> QED  BY <2>2, <2>3
<1>12. pc[p] \in {"append", "insert"} => p \in Deliveries \cup Stops
  BY <1>1 DEF PlacesOf, CreatePcs, Over
<1>13. ASSUME pc[p] \in {"append", "insert"}, Goto(p, "broadcast"), SnapshotOver(p),
              UNCHANGED <<row, alone>>, \A s \in snapshots' : s \in snapshots \/ s.by = p
       PROVE  Handles(p) /\ Served'
  <2> DEFINE locals == [loc[p] EXCEPT !.of = NoTables, !.tick = 0]
  <2>1. loc' = [loc EXCEPT ![p] = locals]
    BY <1>1, <1>13 DEF SnapshotOver, Served
  <2>2. Shaped(locals) /\ locals.report = loc[p].report
    BY <1>1 DEF Shaped
  <2> HIDE DEF locals
  <2>3. "broadcast" \in PlacesOf(p)
    BY <1>1 DEF PlacesOf, ReportPcs, StopPcs, CreatePcs
  <2>4. Moves(p, "broadcast", locals)
    BY <1>2, <1>13, <2>1, <2>2, <2>3 DEF Moves
  <2>5. Writes(p)
    BY <1>1, <1>12, <1>13 DEF Writes
  <2> QED  BY <2>4, <2>5, HandlerWrites
<1>14. CASE LockSession(p)
  <2>1. CASE \E s \in snapshots : s.time = loc[p].time
    <3>1. Handles(p) /\ Served'
      BY <1>13, <1>14, <2>1 DEF LockSession
    <3> QED  BY <1>14, <3>1 DEF Next, Shared
  <2>2. CASE ~ \E s \in snapshots : s.time = loc[p].time
    <3> DEFINE locals == [loc[p] EXCEPT !.tick = NextTick]
    <3>1. loc' = [loc EXCEPT ![p] = locals]
      BY <1>14, <2>2 DEF LockSession
    <3>2. Shaped(locals) /\ locals.report = loc[p].report
      BY <1>1 DEF Shaped
    <3> HIDE DEF locals
    <3>3. Moves(p, "insert", locals)
      BY <1>1, <1>2, <1>14, <2>2, <3>1, <3>2 DEF LockSession, PlacesOf, ReportPcs, StopPcs, CreatePcs, Over, Moves
    <3>4. Writes(p)
      BY <1>14, QuietWrites DEF LockSession
    <3> QED  BY <1>14, <3>3, <3>4, HandlerWrites DEF Next, Shared
  <2> QED  BY <2>1, <2>2
<1>15. CASE InsertSnapshot(p)
  <2>1. \A s \in snapshots' : s \in snapshots \/ s.by = p
    BY <1>15 DEF InsertSnapshot
  <2>2. Handles(p) /\ Served'
    BY <1>13, <1>15, <2>1 DEF InsertSnapshot
  <2> QED  BY <1>15, <2>2 DEF Next, Shared
<1>16. CASE p \in Stops /\ StopSnapshotFails(p)
  <2>1. Handles(p) /\ Served'
    BY <1>13, <1>16 DEF StopSnapshotFails
  <2> QED  BY <1>16, <2>1 DEF Next, Stop
<1>18. CASE p \in Stops /\ RereadState(p)
  <2>1. Moves(p, "acked", loc[p])
    BY <1>1, <1>2, <1>18 DEF RereadState, PlacesOf, Over, Moves
  <2>2. Writes(p)
    BY <1>18, QuietWrites DEF RereadState, tables
  <2> QED  BY <1>18, <2>1, <2>2, HandlerWrites DEF Next, Stop
<1>17. CASE Broadcast(p)
  <2> DEFINE locals == [NoLocals EXCEPT !.report = loc[p].report, !.inserted = loc[p].inserted]
  <2>1. loc' = [loc EXCEPT ![p] = locals]
    BY <1>17 DEF Broadcast
  <2>2. Shaped(locals) /\ locals.report = loc[p].report
    BY <1>1 DEF Shaped, NoLocals
  <2> HIDE DEF locals
  <2>3. Moves(p, "acked", locals)
    BY <1>1, <1>2, <1>17, <2>1, <2>2 DEF Broadcast, PlacesOf, Over, Moves
  <2>4. Writes(p)
    BY <1>17, QuietWrites DEF Broadcast, tables
  <2> QED  BY <1>17, <2>3, <2>4, HandlerWrites DEF Next, Shared
<1> QED  BY <1>3, <1>4, <1>6, <1>7, <1>8, <1>9, <1>10, <1>11, <1>14, <1>15, <1>16, <1>17, <1>18 DEF ServerStep

\* A request begins: it goes from idle to the first place of its handler, or is over.
Begun(p) == /\ pc[p] = "idle" /\ pc'[p] \in PlacesOf(p)
            /\ \A q \in Processes \ {p} : pc'[q] = pc[q] /\ loc'[q] = loc[q]
            /\ UNCHANGED <<current, events, snapshots, sent>>

LEMMA BeginMoves ==
    ASSUME Served, NEW p \in Processes, pc[p] = "idle", NEW place \in PlacesOf(p), Goto(p, place),
           NEW locals, Shaped(locals), p \in Deliveries => locals.report \in Reports,
           loc' = [loc EXCEPT ![p] = locals],
           row' \in Rows \cup {None}, UNCHANGED <<current, events, snapshots, sent>>
    PROVE  Begun(p) /\ Served' /\ pc'[p] = place /\ loc'[p] = locals
<1>1. /\ pc' = [q \in Processes |-> IF q = p THEN place ELSE pc[q]]
      /\ loc' = [q \in Processes |-> IF q = p THEN locals ELSE loc[q]]
  BY DEF Served, Goto
<1>2. \A q \in Processes : /\ pc'[q] = IF q = p THEN place ELSE pc[q]
                           /\ loc'[q] = IF q = p THEN locals ELSE loc[q]
  BY <1>1
<1>3. pc' = [q \in Processes |-> pc'[q]] /\ loc' = [q \in Processes |-> loc'[q]]
  BY <1>1
<1>4. ASSUME NEW q \in Processes PROVE Handled(q)'
  <2>1. CASE q = p
    BY <1>2, <2>1 DEF Handled, Shaped
  <2>2. CASE q # p
    BY <1>2, <2>2 DEF Served, Handled, Shaped
  <2> QED  BY <2>1, <2>2
<1>5. ASSUME NEW s \in snapshots' PROVE s.by \in Deliveries \cup Stops /\ pc'[s.by] # "idle"
  <2>1. s.by \in Deliveries \cup Stops /\ pc[s.by] # "idle"
    BY DEF Served
  <2> QED  BY <1>2, <2>1 DEF Processes
<1>6. Begun(p)
  BY <1>2 DEF Begun
<1> QED  BY <1>2, <1>3, <1>4, <1>5, <1>6 DEF Served

\* The session is created.
LEMMA CreateBegins ==
    ASSUME Served, InsertSession
    PROVE  /\ Begun(Creator) /\ Served' /\ Next
           /\ pc'[Creator] = "startEvent" /\ row' # None
           /\ loc' = loc
<1>1. /\ Creator \in Processes /\ Creator \notin Deliveries /\ pc[Creator] = "idle"
      /\ Goto(Creator, "startEvent") /\ loc' = loc /\ UNCHANGED <<current, events, snapshots, sent>>
  BY RequestAssumption DEF InsertSession, Processes
<1>2. "startEvent" \in PlacesOf(Creator)
  BY <1>1, RequestAssumption DEF PlacesOf, CreatePcs
<1>3. Shaped(loc[Creator]) /\ loc' = [loc EXCEPT ![Creator] = loc[Creator]]
  BY <1>1, LocalsKept
<1>4. row' \in Rows
  BY <1>1 DEF InsertSession, Rows
<1>5. Begun(Creator) /\ Served' /\ pc'[Creator] = "startEvent"
  BY <1>1, <1>2, <1>3, <1>4, BeginMoves
<1>6. row' # None
  BY <1>4, LiveAssumption
<1> QED  BY <1>1, <1>5, <1>6 DEF Next, Create

\* A report arrives.
LEMMA ReceiveBegins ==
    ASSUME Served, NEW d \in Deliveries, NEW r \in Reports, Receive(d, r)
    PROVE  /\ Begun(d) /\ Served' /\ Next
           /\ pc'[d] = IF row = None THEN "failed" ELSE "targets"
           /\ loc'[d].report = r /\ row' = row /\ lock' = lock
<1> DEFINE place == IF row = None THEN "failed" ELSE "targets"
           locals == [loc[d] EXCEPT !.report = r]
<1>1. /\ d \in Processes /\ pc[d] = "idle" /\ Goto(d, place) /\ row' = row /\ lock' = lock
      /\ UNCHANGED <<current, events, snapshots, sent>> /\ loc' = [loc EXCEPT ![d] = locals]
  BY DEF Receive, tables, Processes
<1>2. place \in PlacesOf(d)
  BY DEF PlacesOf, ReportPcs, Over
<1>3. Shaped(loc[d]) /\ row \in Rows \cup {None}
  BY <1>1 DEF Served, Handled
<1>4. Shaped(locals) /\ locals.report = r
  BY <1>3 DEF Shaped
<1> HIDE DEF place, locals
<1>5. Begun(d) /\ Served' /\ pc'[d] = place /\ loc'[d] = locals
  BY <1>1, <1>2, <1>3, <1>4, BeginMoves
<1>6. Next
  BY DEF Next, Deliver
<1> QED  BY <1>1, <1>4, <1>5, <1>6 DEF place

\* The session is stopped.
LEMMA StopBegins ==
    ASSUME Served, NEW s \in Stops, StopSession(s)
    PROVE  /\ Begun(s) /\ Served' /\ Next
           /\ row = None => row' = None /\ pc'[s] = "failed"
           /\ row # None => row' # None /\ row'.status = "stopped"
           /\ loc' = loc
<1> DEFINE place == IF row = None THEN "failed" ELSE IF row.status = "stopped" THEN "reread" ELSE "stopEvent"
<1>1. /\ s \in Processes /\ s \notin Deliveries /\ pc[s] = "idle" /\ Goto(s, place)
      /\ UNCHANGED <<current, events, snapshots, sent>> /\ loc' = loc
  BY RequestAssumption DEF StopSession, Processes
<1>2. place \in PlacesOf(s)
  BY <1>1 DEF PlacesOf, StopPcs, Over
<1>3. Shaped(loc[s]) /\ row \in Rows \cup {None} /\ loc' = [loc EXCEPT ![s] = loc[s]]
  BY <1>1, LocalsKept DEF Served
<1>4. /\ row' \in Rows \cup {None} /\ (row = None => row' = None)
      /\ row # None => row' \in Rows /\ row'.status = "stopped"
  <2>1. CASE row = None
    BY <2>1 DEF StopSession
  <2>2. CASE row # None
    <3>1. row \in Rows
      BY <1>3, <2>2
    <3>2. \/ row' = row /\ row.status = "stopped"
          \/ row' = [row EXCEPT !.status = "stopped", !.stoppedAt = s, !.updatedAt = s]
      BY <2>2 DEF StopSession
    <3>3. s \in Processes
      BY <1>1
    <3>4. row' \in Rows /\ row'.status = "stopped"
      BY <3>1, <3>2, <3>3 DEF Rows
    <3> QED  BY <2>2, <3>4
  <2> QED  BY <2>1, <2>2
<1> HIDE DEF place
<1>5. Begun(s) /\ Served' /\ pc'[s] = place
  BY <1>1, <1>2, <1>3, <1>4, BeginMoves
<1>6. Next
  BY DEF Next, Stop
<1>7. row = None => place = "failed"
  BY DEF place
<1> QED  BY <1>1, <1>4, <1>5, <1>6, <1>7, LiveAssumption
-----------------------------------------------------------------------------
(* What each script does to the session.                                   *)

ProbeShaped == /\ probe = [pc |-> probe.pc, tick |-> probe.tick, gateway |-> probe.gateway,
                           session |-> probe.session, waiting |-> probe.waiting,
                           lost |-> probe.lost, result |-> probe.result]
               /\ probe.tick \in 1 .. Ticks

\* Only the script whose session it is has begun, and all that a smoke check or a probe
\* sees of its session are steps of the server.
LiveBase ==
    /\ Served
    /\ ProbeShaped
    /\ user \in Users
    /\ user # "smoke" => smoke.at = 0
    /\ user # "probe" => probe.pc = "idle" /\ probe.result = None
    /\ user # "simulator" => /\ prune.pc = "idle"
                             /\ row = None => pc[Creator] = "idle"
                             /\ LoneInv /\ EventInv
    /\ pc[Creator] = "idle" => row = None

\* A request begins, with what it does to the row.
Starts(p) == \/ p = Creator /\ InsertSession
             \/ p \in Deliveries /\ \E r \in Reports : Receive(p, r)
             \/ p \in Stops /\ StopSession(p)

LEMMA StartsBegin ==
    ASSUME Served, NEW p, Starts(p)
    PROVE  /\ p \in Processes /\ Begun(p) /\ Served' /\ Next
           /\ p = Creator => row' # None
           /\ p # Creator => (row = None <=> row' = None)
           /\ p # Creator /\ row = None => pc'[p] = "failed"
<1>1. CASE p = Creator /\ InsertSession
  BY <1>1, CreateBegins DEF Processes
<1>2. CASE p \in Deliveries /\ \E r \in Reports : Receive(p, r)
  <2>1. PICK r \in Reports : Receive(p, r)
    BY <1>2
  <2>2. Begun(p) /\ Served' /\ Next /\ row' = row /\ (row = None => pc'[p] = "failed")
    BY <1>2, <2>1, ReceiveBegins
  <2> QED  BY <1>2, <2>2, RequestAssumption DEF Processes
<1>3. CASE p \in Stops /\ StopSession(p)
  <2>1. Begun(p) /\ Served' /\ Next /\ (row = None => row' = None /\ pc'[p] = "failed") /\ (row # None => row' # None)
    BY <1>3, StopBegins
  <2> QED  BY <1>3, <2>1, RequestAssumption DEF Processes
<1> QED  BY <1>1, <1>2, <1>3 DEF Starts

LEMMA SmokeStarts ==
    ASSUME SmokeStep \/ Registered
    PROVE  UNCHANGED vars \/ Starts(Creator) \/ Starts(SmokePost)
<1>1. SendReport => Starts(SmokePost)
  BY SmokeAssumption DEF SendReport, Starts
<1>2. SendCreate => Starts(Creator)
  BY DEF SendCreate, Starts
<1>3. ~SendReport /\ ~SendCreate => UNCHANGED vars
  BY DEF SmokeStep, Registered, SmokeStart, Login, CheckFails, CreateAnswered, ReportAnswered, Refused,
         Connects, Hears, HearEnds, Reads, Judge, Same
<1> QED  BY <1>1, <1>2, <1>3

LEMMA ProbeRequests ==
    ASSUME NEW t \in 1 .. Ticks
    PROVE  /\ ProbePosts[t] \in Deliveries /\ ProbeReports[t] \in Reports
           /\ Payload[ProbeReports[t]].state
           /\ \A e, f \in Payload[ProbeReports[t]].events : e = f
BY ProbeAssumption DEF Ticks

\* What a step of the probe leaves in its record.
Becomes(place, tick1, session1, waiting1, lost1, result1) ==
    probe' = [pc |-> place, tick |-> tick1, gateway |-> probe.gateway, session |-> session1,
              waiting |-> waiting1, lost |-> lost1, result |-> result1]

LEMMA BecomesFields ==
    ASSUME NEW place, NEW tick1 \in 1 .. Ticks, NEW session1, NEW waiting1, NEW lost1, NEW result1,
           Becomes(place, tick1, session1, waiting1, lost1, result1)
    PROVE  /\ ProbeShaped'
           /\ probe'.pc = place /\ probe'.tick = tick1 /\ probe'.waiting = waiting1
           /\ probe'.lost = lost1 /\ probe'.result = result1
<1>1. ProbeShaped'
  BY DEF Becomes, ProbeShaped
<1>2. probe'.pc = place /\ probe'.tick = tick1
  BY DEF Becomes
<1>3. probe'.waiting = waiting1
  BY DEF Becomes
<1>4. probe'.lost = lost1 /\ probe'.result = result1
  BY DEF Becomes
<1> QED  BY <1>1, <1>2, <1>3, <1>4

LEMMA ProbeBecomes ==
    ASSUME ProbeShaped, NEW place, NEW tick1, NEW session1, NEW waiting1, NEW lost1, NEW result1
    PROVE  /\ probe' = [probe EXCEPT !.pc = place, !.waiting = waiting1]
              => Becomes(place, probe.tick, probe.session, waiting1, probe.lost, probe.result)
           /\ probe' = [probe EXCEPT !.waiting = waiting1]
              => Becomes(probe.pc, probe.tick, probe.session, waiting1, probe.lost, probe.result)
           /\ probe' = [probe EXCEPT !.pc = place, !.waiting = waiting1, !.session = session1]
              => Becomes(place, probe.tick, session1, waiting1, probe.lost, probe.result)
           /\ probe' = [probe EXCEPT !.pc = place, !.waiting = waiting1, !.lost = lost1]
              => Becomes(place, probe.tick, probe.session, waiting1, lost1, probe.result)
           /\ probe' = [probe EXCEPT !.pc = place, !.result = result1]
              => Becomes(place, probe.tick, probe.session, probe.waiting, probe.lost, result1)
           /\ probe' = [probe EXCEPT !.waiting = waiting1, !.tick = tick1, !.pc = place]
              => Becomes(place, tick1, probe.session, waiting1, probe.lost, probe.result)
<1>1. probe' = [probe EXCEPT !.pc = place, !.waiting = waiting1]
      => Becomes(place, probe.tick, probe.session, waiting1, probe.lost, probe.result)
  BY DEF ProbeShaped, Becomes
<1>2. probe' = [probe EXCEPT !.waiting = waiting1]
      => Becomes(probe.pc, probe.tick, probe.session, waiting1, probe.lost, probe.result)
  BY DEF ProbeShaped, Becomes
<1>3. probe' = [probe EXCEPT !.pc = place, !.waiting = waiting1, !.session = session1]
      => Becomes(place, probe.tick, session1, waiting1, probe.lost, probe.result)
  BY DEF ProbeShaped, Becomes
<1>4. probe' = [probe EXCEPT !.pc = place, !.waiting = waiting1, !.lost = lost1]
      => Becomes(place, probe.tick, probe.session, waiting1, lost1, probe.result)
  BY DEF ProbeShaped, Becomes
<1>5. probe' = [probe EXCEPT !.pc = place, !.result = result1]
      => Becomes(place, probe.tick, probe.session, probe.waiting, probe.lost, result1)
  BY DEF ProbeShaped, Becomes
<1>6. probe' = [probe EXCEPT !.waiting = waiting1, !.tick = tick1, !.pc = place]
      => Becomes(place, tick1, probe.session, waiting1, probe.lost, probe.result)
  BY DEF ProbeShaped, Becomes
<1> QED  BY <1>1, <1>2, <1>3, <1>4, <1>5, <1>6

LEMMA TicksType == Ticks \in Nat /\ Ticks > 0
BY ProbeAssumption DEF Ticks

\* What each step of the probe leaves in its record.
LEMMA ProbeRecords ==
    ASSUME ProbeShaped
    PROVE  /\ ProbeStarts => Becomes("create", probe.tick, probe.session, FALSE, probe.lost, probe.result)
           /\ ProbeSendsCreate =>
                 IF probe.gateway
                 THEN Becomes(probe.pc, probe.tick, probe.session, TRUE, probe.lost, probe.result)
                 ELSE Becomes("over", probe.tick, probe.session, FALSE, probe.lost, probe.result)
           /\ ProbeCreated =>
                 IF pc[Creator] = "acked"
                 THEN Becomes("post", probe.tick, TRUE, FALSE, probe.lost, probe.result)
                 ELSE Becomes("over", probe.tick, probe.session, FALSE, probe.lost \cup {Creator}, probe.result)
           /\ ProbeSends => Becomes(probe.pc, probe.tick, probe.session, TRUE, probe.lost, probe.result)
           /\ ProbePosted =>
                 IF pc[ProbePosts[probe.tick]] = "failed"
                 THEN Becomes("stop", probe.tick, probe.session, FALSE, probe.lost, probe.result)
                 ELSE IF probe.tick < Ticks
                 THEN Becomes("post", probe.tick + 1, probe.session, FALSE, probe.lost, probe.result)
                 ELSE Becomes("read", probe.tick, probe.session, FALSE, probe.lost, probe.result)
           /\ ProbeReads =>
                 \E shown : Becomes("stop", probe.tick, probe.session, probe.waiting, probe.lost, shown)
           /\ ProbeFails =>
                 Becomes(RaisesFrom(probe.pc), probe.tick, probe.session, FALSE,
                         IF ~probe.waiting THEN probe.lost
                         ELSE probe.lost \cup {IF ProbeAt("create") THEN Creator ELSE ProbePosts[probe.tick]},
                         probe.result)
           /\ ProbeSendsStop => Becomes(probe.pc, probe.tick, probe.session, TRUE, probe.lost, probe.result)
           /\ ProbeStopped =>
                 IF probe.waiting /\ pc[ProbeStop] \in Over
                 THEN Becomes("over", probe.tick, probe.session, FALSE, probe.lost, probe.result)
                 ELSE Becomes("over", probe.tick, probe.session, FALSE, probe.lost \cup {ProbeStop}, probe.result)
<1> USE ProbeBecomes DEF ProbeGoes
<1>1. ProbeStarts => Becomes("create", probe.tick, probe.session, FALSE, probe.lost, probe.result)
  BY DEF ProbeStarts
<1>2. ProbeSendsCreate =>
         IF probe.gateway
         THEN Becomes(probe.pc, probe.tick, probe.session, TRUE, probe.lost, probe.result)
         ELSE Becomes("over", probe.tick, probe.session, FALSE, probe.lost, probe.result)
  BY DEF ProbeSendsCreate
<1>3. ProbeCreated =>
         IF pc[Creator] = "acked"
         THEN Becomes("post", probe.tick, TRUE, FALSE, probe.lost, probe.result)
         ELSE Becomes("over", probe.tick, probe.session, FALSE, probe.lost \cup {Creator}, probe.result)
  BY DEF ProbeCreated
<1>4. ProbeSends => Becomes(probe.pc, probe.tick, probe.session, TRUE, probe.lost, probe.result)
  BY DEF ProbeSends
<1>5. ProbePosted =>
         IF pc[ProbePosts[probe.tick]] = "failed"
         THEN Becomes("stop", probe.tick, probe.session, FALSE, probe.lost, probe.result)
         ELSE IF probe.tick < Ticks
         THEN Becomes("post", probe.tick + 1, probe.session, FALSE, probe.lost, probe.result)
         ELSE Becomes("read", probe.tick, probe.session, FALSE, probe.lost, probe.result)
  BY DEF ProbePosted
<1>6. ProbeReads => \E shown : Becomes("stop", probe.tick, probe.session, probe.waiting, probe.lost, shown)
  BY DEF ProbeReads
<1>7. ProbeFails =>
         Becomes(RaisesFrom(probe.pc), probe.tick, probe.session, FALSE,
                 IF ~probe.waiting THEN probe.lost
                 ELSE probe.lost \cup {IF ProbeAt("create") THEN Creator ELSE ProbePosts[probe.tick]},
                 probe.result)
  BY DEF ProbeFails
<1>8. ProbeSendsStop => Becomes(probe.pc, probe.tick, probe.session, TRUE, probe.lost, probe.result)
  BY DEF ProbeSendsStop
<1>9. ProbeStopped =>
         IF probe.waiting /\ pc[ProbeStop] \in Over
         THEN Becomes("over", probe.tick, probe.session, FALSE, probe.lost, probe.result)
         ELSE Becomes("over", probe.tick, probe.session, FALSE, probe.lost \cup {ProbeStop}, probe.result)
  BY DEF ProbeStopped
<1> QED  BY <1>1, <1>2, <1>3, <1>4, <1>5, <1>6, <1>7, <1>8, <1>9, Zenon

LEMMA ProbeBegins ==
    ASSUME ProbeShaped, ProbeStep
    PROVE  /\ \/ UNCHANGED vars
              \/ Starts(Creator)
              \/ Starts(ProbePosts[probe.tick])
              \/ Starts(ProbeStop)
           /\ ProbeShaped'
<1>0. probe.tick \in 1 .. Ticks /\ (probe.tick < Ticks => probe.tick + 1 \in 1 .. Ticks)
  BY TicksType DEF ProbeShaped
<1>1. ProbeSends => Starts(ProbePosts[probe.tick])
  BY <1>0, ProbeRequests DEF ProbeSends, Starts
<1>2. ProbeSendsCreate => UNCHANGED vars \/ Starts(Creator)
  BY DEF ProbeSendsCreate, Starts
<1>3. ProbeSendsStop => Starts(ProbeStop)
  BY ProbeAssumption DEF ProbeSendsStop, Starts
<1>4. ~ProbeSends /\ ~ProbeSendsCreate /\ ~ProbeSendsStop => UNCHANGED vars
  BY DEF ProbeStep, ProbeStarts, ProbeCreated, ProbePosted, ProbeReads, ProbeFails, ProbeStopped
<1>5. \E place, session1, waiting1, lost1, result1 : \E tick1 \in 1 .. Ticks :
         Becomes(place, tick1, session1, waiting1, lost1, result1)
  BY <1>0, ProbeRecords, Zenon DEF ProbeStep
<1>6. ProbeShaped'
  BY <1>5, BecomesFields
<1> QED  BY <1>1, <1>2, <1>3, <1>4, <1>6

LEMMA PruneWrites ==
    ASSUME PruneStep
    PROVE  /\ row' \in {row, None} /\ snapshots' \subseteq snapshots /\ events' \subseteq events
           /\ UNCHANGED <<lock, pc, loc, sent, alone>>
           /\ row = None => UNCHANGED data
<1>1. UNCHANGED <<lock, pc, loc, sent, alone>>
  BY DEF PruneStep
<1>2. CASE ~prune.policy.apply
  BY <1>1, <1>2 DEF PruneStep, data
<1>3. CASE RunStep(PruneSteps[prune.i])
  <2>1. snapshots' \subseteq snapshots /\ (row = None => snapshots' = snapshots)
    BY <1>3 DEF RunStep, Newest, Prunable, Ended
  <2>2. events' \subseteq events /\ (row = None => events' = events)
    BY <1>3 DEF RunStep, Prunable, Ended
  <2>3. row = None => current' = current
    BY <1>3 DEF RunStep, Prunable, Ended
  <2>4. row' \in {row, None} /\ (row = None => row' = row)
    BY <1>3 DEF RunStep, Prunable, Ended
  <2> QED  BY <1>1, <2>1, <2>2, <2>3, <2>4 DEF data
<1> QED  BY <1>2, <1>3 DEF PruneStep

LEMMA DisturbIdle ==
    ASSUME prune.pc = "idle", Disturb PROVE prune' = prune
BY DEF Disturb

LEMMA LiveInitBase == LiveInit => LiveBase
<1> SUFFICES ASSUME LiveInit PROVE LiveBase
  OBVIOUS
<1>1. /\ pc = [p \in Processes |-> "idle"] /\ loc = [p \in Processes |-> NoLocals]
      /\ row = None /\ snapshots = {} /\ alone = {} /\ Init
  BY DEF LiveInit, Init
<1>2. Served
  <2>1. \A p \in Processes : pc[p] = "idle" /\ loc[p] = NoLocals
    BY <1>1
  <2>2. Shaped(NoLocals)
    BY DEF Shaped, NoLocals
  <2>3. \A p \in Processes : Handled(p)
    BY <2>1, <2>2 DEF Handled
  <2> QED  BY <1>1, <2>1, <2>3 DEF Served
<1>3. ProbeShaped /\ probe.pc = "idle" /\ probe.result = None
  <2>1. PICK gateway \in Gateways :
            probe = [pc |-> "idle", tick |-> 1, gateway |-> gateway, session |-> FALSE,
                     waiting |-> FALSE, lost |-> {}, result |-> None]
    BY DEF LiveInit, ProbeInit
  <2>2. probe.tick = 1
    BY <2>1
  <2>3. 1 \in 1 .. Ticks
    BY TicksType
  <2> QED  BY <2>1, <2>2, <2>3 DEF ProbeShaped
<1>4. smoke.at = 0 /\ prune.pc = "idle" /\ user \in Users
  BY DEF LiveInit, SmokeInit, RetentionInit
<1>5. LoneInv
  BY <1>1, InitLone
<1>6. EventInv
  BY <1>1, InitEvents
<1>7. pc[Creator] = "idle"
  BY <1>1 DEF Processes
<1> QED  BY <1>1, <1>2, <1>3, <1>4, <1>5, <1>6, <1>7 DEF LiveBase


\* What every step keeps of the base, by what it does to the session.
LEMMA StartsBase ==
    ASSUME LiveBase, NEW p, Starts(p)
    PROVE  /\ Served' /\ (pc'[Creator] = "idle" => row' = None)
           /\ user # "simulator" => (row' = None => pc'[Creator] = "idle") /\ LoneInv' /\ EventInv'
<1>1. /\ p \in Processes /\ Begun(p) /\ Served' /\ Next
      /\ p = Creator => row' # None
      /\ p # Creator => (row = None <=> row' = None)
  BY StartsBegin DEF LiveBase
<1>2. Creator \in Processes
  BY DEF Processes
<1>3. p # Creator => pc'[Creator] = pc[Creator]
  BY <1>1, <1>2 DEF Begun
<1>4. p = Creator => pc'[Creator] # "idle"
  BY <1>1 DEF Begun, PlacesOf, ReportPcs, StopPcs, CreatePcs, Over
<1>5. user # "simulator" => LoneInv' /\ EventInv'
  BY <1>1, NextLone, NextEvents DEF LiveBase
<1> QED  BY <1>1, <1>3, <1>4, <1>5 DEF LiveBase

LEMMA ServerBase ==
    ASSUME LiveBase, NEW p \in Processes, ServerStep(p) \/ Broadcast(p)
    PROVE  /\ Served' /\ (pc'[Creator] = "idle" => row' = None)
           /\ user # "simulator" => (row' = None => pc'[Creator] = "idle") /\ LoneInv' /\ EventInv'
<1>1. Handles(p) /\ Served' /\ Next
  BY ServerHandles DEF LiveBase
<1>2. row = None <=> row' = None
  BY <1>1 DEF Handles, Scans
<1>3. Creator \in Processes
  BY DEF Processes
<1>4. pc'[Creator] = "idle" <=> pc[Creator] = "idle"
  <2>1. CASE p = Creator
    BY <1>1, <2>1 DEF Handles, Busy, PlacesOf, ReportPcs, StopPcs, CreatePcs, Over
  <2>2. CASE p # Creator
    BY <1>1, <1>3, <2>2 DEF Handles
  <2> QED  BY <2>1, <2>2
<1>5. user # "simulator" => LoneInv' /\ EventInv'
  BY <1>1, NextLone, NextEvents DEF LiveBase
<1> QED  BY <1>1, <1>2, <1>4, <1>5 DEF LiveBase

LEMMA QuietBase ==
    ASSUME LiveBase, UNCHANGED vars
    PROVE  /\ Served' /\ (pc'[Creator] = "idle" => row' = None)
           /\ user # "simulator" => (row' = None => pc'[Creator] = "idle") /\ LoneInv' /\ EventInv'
<1>1. Served'
  BY DEF LiveBase, Served, Handled, vars
<1>2. user # "simulator" => LoneInv' /\ EventInv'
  BY NextLone, NextEvents DEF LiveBase
<1>3. pc'[Creator] = pc[Creator] /\ row' = row
  BY DEF vars
<1> QED  BY <1>1, <1>2, <1>3 DEF LiveBase

LEMMA NextBase == LiveBase /\ [LiveNext]_liveVars => LiveBase'
<1> SUFFICES ASSUME LiveBase, [LiveNext]_liveVars PROVE LiveBase'
  OBVIOUS
<1>0. ASSUME Served', pc'[Creator] = "idle" => row' = None, ProbeShaped', user' = user,
             user # "simulator" => /\ row' = None => pc'[Creator] = "idle"
                                   /\ LoneInv' /\ EventInv' /\ prune' = prune,
             user # "smoke" => smoke' = smoke, user # "probe" => probe' = probe
      PROVE  LiveBase'
  BY <1>0 DEF LiveBase
<1>1. CASE ServerMoves
  <2>1. PICK p \in Processes : ServerStep(p) \/ Broadcast(p)
    BY <1>1 DEF ServerMoves
  <2>2. UNCHANGED <<smoke, probe, user>> /\ Disturb
    BY <1>1 DEF ServerMoves
  <2>3. ProbeShaped' /\ (user # "simulator" => prune' = prune)
    BY <2>2, DisturbIdle DEF LiveBase, ProbeShaped
  <2> QED  BY <1>0, <2>1, <2>2, <2>3, ServerBase
<1>2. CASE Smoking
  <2>1. UNCHANGED <<probe, user>> /\ user = "smoke" /\ prune' = prune
    BY <1>2 DEF Smoking, retentionVars
  <2>2. UNCHANGED vars \/ Starts(Creator) \/ Starts(SmokePost)
    BY <1>2, SmokeStarts DEF Smoking
  <2>3. ProbeShaped'
    BY <2>1 DEF LiveBase, ProbeShaped
  <2> QED  BY <1>0, <2>1, <2>2, <2>3, StartsBase, QuietBase
<1>3. CASE Probing
  <2>1. UNCHANGED <<smoke, user>> /\ user = "probe" /\ prune' = prune
    BY <1>3 DEF Probing, retentionVars, smokeVars
  <2>2. /\ UNCHANGED vars \/ Starts(Creator) \/ Starts(ProbePosts[probe.tick]) \/ Starts(ProbeStop)
        /\ ProbeShaped'
    BY <1>3, ProbeBegins DEF Probing, LiveBase
  <2> QED  BY <1>0, <2>1, <2>2, StartsBase, QuietBase
<1>4. CASE Simulating
  <2>1. UNCHANGED <<smoke, probe, user>> /\ user = "simulator"
    BY <1>4 DEF Simulating, smokeVars
  <2>2. \E p : Starts(p)
    BY <1>4, LiveAssumption DEF Simulating, Starts
  <2>3. ProbeShaped'
    BY <2>1 DEF LiveBase, ProbeShaped
  <2> QED  BY <1>0, <2>1, <2>2, <2>3, StartsBase
<1>5. CASE Retaining
  <2>1. UNCHANGED <<smoke, probe, user>> /\ user = "simulator"
    BY <1>5 DEF Retaining, smokeVars
  <2>2. ProbeShaped'
    BY <2>1 DEF LiveBase, ProbeShaped
  <2>3. CASE PruneStep
    <3>1. row' \in {row, None} /\ snapshots' \subseteq snapshots /\ UNCHANGED <<pc, loc>>
      BY <2>3, PruneWrites
    <3>2. Served'
      BY <3>1 DEF LiveBase, Served, Handled
    <3>3. pc'[Creator] = "idle" => row' = None
      BY <3>1 DEF LiveBase
    <3> QED  BY <1>0, <2>1, <2>2, <3>2, <3>3
  <2>4. CASE ~PruneStep
    <3>1. UNCHANGED vars
      BY <1>5, <2>4 DEF Retaining, Retain, DaysPass, PruneStart, PruneFails, PruneEnds, PruneOver
    <3> QED  BY <1>0, <2>1, <2>2, <3>1, QuietBase
  <2> QED  BY <2>3, <2>4
<1>6. CASE UNCHANGED liveVars
  <2>1. UNCHANGED vars /\ UNCHANGED <<smoke, probe, user, prune>>
    BY <1>6 DEF liveVars, smokeVars
  <2>2. ProbeShaped'
    BY <2>1 DEF LiveBase, ProbeShaped
  <2> QED  BY <1>0, <2>1, <2>2, QuietBase
<1> QED  BY <1>1, <1>2, <1>3, <1>4, <1>5, <1>6 DEF LiveNext
-----------------------------------------------------------------------------
(* What a prune leaves.                                                    *)

\* The first six steps of a command line with an age are those of AgeSteps, in this order;
\* without an age there is no such step.
LEMMA StepNames ==
    ASSUME NEW policy
    PROVE  /\ Len(BuildSteps(policy)) \in Nat
           /\ policy.age => \A i \in 1 .. 6 : i <= Len(BuildSteps(policy)) /\ BuildSteps(policy)[i] = AgeSteps[i]
           /\ ~policy.age => \A i \in 1 .. Len(BuildSteps(policy)) :
                 BuildSteps(policy)[i] \in {"battle_snapshots_cap", "battle_events_cap"}
<1> DEFINE caps == {"battle_snapshots_cap", "battle_events_cap"}
           names == caps \cup {AgeSteps[i] : i \in 1 .. 6}
           first == IF policy.age THEN AgeSteps ELSE <<>>
           second == IF policy.snapshots > 0 THEN <<"battle_snapshots_cap">> ELSE <<>>
           third == IF policy.events > 0 THEN <<"battle_events_cap">> ELSE <<>>
<1>1. BuildSteps(policy) = (first \o second) \o third
  BY DEF BuildSteps
<1>2. AgeSteps \in Seq(names) /\ Len(AgeSteps) = 6
  <2>1. AgeSteps = [i \in 1 .. 6 |-> AgeSteps[i]]
    BY DEF AgeSteps
  <2> QED  BY <2>1
<1>3. first \in Seq(names) /\ (policy.age => first = AgeSteps) /\ (~policy.age => first = <<>>)
  BY <1>2
<1>4. ASSUME NEW a, NEW e \in caps, a = <<e>> \/ a = <<>>
      PROVE  a \in Seq(names) /\ a \in Seq(caps)
  <2>1. e \in names
    BY <1>4
  <2> HIDE DEF names, caps, first, second, third
  <2>2. CASE a = <<>>
    <3>1. <<>> \in Seq(names) /\ <<>> \in Seq(caps)
      BY EmptySeq
    <3> QED  BY <2>2, <3>1
  <2>3. CASE a = <<e>>
    <3>1. <<e>> \in Seq(names) /\ <<e>> \in Seq(caps)
      BY <2>1
    <3> QED  BY <2>3, <3>1
  <2> QED  BY <1>4, <2>2, <2>3
<1>5. second \in Seq(names) /\ second \in Seq(caps)
  BY <1>4
<1>6. third \in Seq(names) /\ third \in Seq(caps)
  BY <1>4
<1> HIDE DEF first, second, third, names, caps
<1>7. ASSUME policy.age, NEW i \in 1 .. 6
      PROVE  i <= Len(BuildSteps(policy)) /\ BuildSteps(policy)[i] = AgeSteps[i]
  <2>1. first \o second \in Seq(names) /\ Len(first \o second) >= 6 /\ (first \o second)[i] = AgeSteps[i]
    <3>1. first \in Seq(names) /\ second \in Seq(names) /\ Len(first) = 6 /\ first[i] = AgeSteps[i] /\ i \in 1 .. Len(first)
      BY <1>2, <1>3, <1>5, <1>7
    <3>2. first \o second \in Seq(names) /\ Len(first \o second) = Len(first) + Len(second)
      BY <3>1, ConcatProperties
    <3>3. (first \o second)[i] = first[i]
      <4>1. \A j \in 1 .. Len(first) + Len(second) :
               (first \o second)[j] = IF j <= Len(first) THEN first[j] ELSE second[j - Len(first)]
        BY <3>1, ConcatProperties, Zenon
      <4>2. Len(first) \in Nat /\ Len(second) \in Nat
        BY <3>1
      <4>3. i \in 1 .. Len(first) + Len(second) /\ i <= Len(first)
        BY <3>1, <4>2
      <4> QED  BY <4>1, <4>3
    <3>4. Len(second) \in Nat
      BY <3>1
    <3> QED  BY <3>1, <3>2, <3>3, <3>4
  <2> QED  BY <1>1, <1>6, <2>1
<1>8. ASSUME ~policy.age, NEW i \in 1 .. Len(BuildSteps(policy))
      PROVE  BuildSteps(policy)[i] \in caps
  <2>1. first \o second = second
    BY <1>3, <1>5, <1>8
  <2>2. second \o third \in Seq(caps)
    BY <1>5, <1>6
  <2> QED  BY <1>1, <2>1, <2>2
<1>9. Len(BuildSteps(policy)) \in Nat
  BY <1>1, <1>3, <1>5, <1>6
<1> QED  BY <1>7, <1>8, <1>9 DEF caps

PruneShaped == prune = [pc |-> prune.pc, policy |-> prune.policy, i |-> prune.i, runs |-> prune.runs,
                        disturbed |-> prune.disturbed, before |-> prune.before]

\* What the steps by age have taken before the i-th; the sixth takes the session.
AgeGone(i) == /\ i <= 6
              /\ i > 1 => snapshots = {}
              /\ i > 2 => events = {}
              /\ i > 3 => current["targets"] = NoRows
              /\ i > 4 => current["projectiles"] = NoRows
              /\ i > 5 => current["units"] = NoRows

\* A run that nothing has disturbed.
RunHolds ==
    /\ \A p \in Processes : ~Busy(p)
    /\ prune.i \in Nat \ {0}
    /\ row = None => prune.policy.apply /\ ~HasRows
    /\ row # None =>
          /\ row = prune.before[1]
          /\ \/ data = prune.before
             \/ /\ prune.policy.apply /\ row.status # "running"
                /\ events \subseteq prune.before[3] /\ snapshots \subseteq prune.before[4]
                /\ current = prune.before[2] \/ (prune.policy.age /\ Prunable)
          /\ prune.policy.apply /\ prune.policy.age /\ Prunable => AgeGone(prune.i)

PruneInv ==
    /\ PruneShaped
    /\ current = [k \in Kinds |-> current[k]]
    /\ row = None /\ pc[Creator] # "idle" /\ ~prune.disturbed => ~HasRows /\ \A p \in Processes : ~Busy(p)
    /\ prune.pc = "running" /\ ~prune.disturbed => RunHolds

LEMMA Disturbs ==
    ASSUME PruneShaped, Disturb
    PROVE  /\ PruneShaped'
           /\ prune.pc = "running" => prune'.disturbed
           /\ prune.pc # "running" => prune' = prune
BY DEF PruneShaped, Disturb

\* A request or a move of the cutoff: a run is disturbed from now on.
LEMMA DisturbedStep ==
    ASSUME PruneInv, Disturb, current' = [k \in Kinds |-> current'[k]],
           row' = None /\ pc'[Creator] # "idle" /\ (\A p \in Processes : ~Busy(p)) =>
              row = None /\ pc[Creator] # "idle" /\ (~HasRows => ~HasRows') /\ \A p \in Processes : ~Busy(p)',
           row' = None /\ pc'[Creator] # "idle" => row = None /\ pc[Creator] # "idle"
    PROVE  PruneInv'
<1>1. /\ PruneShaped'
      /\ prune.pc = "running" => prune'.disturbed
      /\ prune.pc # "running" => prune' = prune
  BY Disturbs DEF PruneInv
<1>2. ~(prune'.pc = "running" /\ ~prune'.disturbed)
  BY <1>1
<1>3. ASSUME row' = None, pc'[Creator] # "idle", ~prune'.disturbed PROVE ~HasRows' /\ \A p \in Processes : ~Busy(p)'
  <2>1. ~prune.disturbed
    BY <1>1, <1>3
  <2>2. ~HasRows /\ \A p \in Processes : ~Busy(p)
    BY <1>3, <2>1 DEF PruneInv
  <2> QED  BY <1>3, <2>2
<1> QED  BY <1>1, <1>2, <1>3 DEF PruneInv

LEMMA CurrentKept ==
    ASSUME current = [k \in Kinds |-> current[k]], NEW p, ServerStep(p) \/ Broadcast(p)
    PROVE  current' = [k \in Kinds |-> current'[k]]
<1>1. ASSUME NEW k, NEW x, current' = [current EXCEPT ![k] = x] PROVE current' = [j \in Kinds |-> current'[j]]
  BY <1>1
<1>2. CASE current' = current
  BY <1>2
<1>3. current' = current \/ \E k, x : current' = [current EXCEPT ![k] = x]
  BY DEF ServerStep, InsertOwnEvent, UpsertRadarTargets, UpsertBattleUnits, UpsertBattleProjectiles, Upsert,
         CreateBattleEvents, UpdateBattleSessionScan, ReadSession, ReadLists, LockSession, InsertSnapshot,
         StopSnapshotFails, RereadState, Fail, Broadcast, tables
<1> QED  BY <1>1, <1>2, <1>3

\* What a step of the script makes of the tables of a session.
LEMMA RunStepEffects ==
    ASSUME NEW step, RunStep(step), row # None, LiveBase, current = [k \in Kinds |-> current[k]]
    PROVE  /\ current' = [k \in Kinds |-> current'[k]]
           /\ ~Ended => UNCHANGED data
           /\ snapshots' \subseteq snapshots /\ events' \subseteq events
           /\ \/ current' = current
              \/ Prunable /\ step \in {"radar_targets_age", "battle_projectiles_age", "battle_units_age"}
           /\ \/ row' = row
              \/ row' = None /\ step = "battle_sessions_age" /\ Prunable /\ UNCHANGED <<current, events, snapshots>>
<1>1. Prunable => Ended
  BY DEF Prunable
<1>2. CASE step \in {"battle_snapshots_age", "battle_snapshots_cap"}
  <2>1. current' = current /\ row' = row /\ events' = events
    BY <1>2 DEF RunStep
  <2>2. snapshots' \subseteq snapshots /\ (~Ended => snapshots' = snapshots)
    BY <1>1, <1>2 DEF RunStep, Newest
  <2> QED  BY <2>1, <2>2 DEF data
<1>3. CASE step \in {"battle_events_age", "battle_events_cap"}
  <2>1. current' = current /\ row' = row /\ snapshots' = snapshots
    BY <1>3 DEF RunStep
  <2>2. events' \subseteq events /\ (~Ended => events' = events)
    BY <1>1, <1>3 DEF RunStep
  <2> QED  BY <2>1, <2>2 DEF data
<1>4. CASE step \in {"radar_targets_age", "battle_projectiles_age", "battle_units_age"}
  <2>1. snapshots' = snapshots /\ row' = row /\ events' = events
    BY <1>4 DEF RunStep
  <2>2. current' = current \/ (Prunable /\ \E k \in Kinds : current' = [current EXCEPT ![k] = NoRows])
    BY <1>4 DEF RunStep, Kinds
  <2> QED  BY <1>1, <1>4, <2>1, <2>2 DEF data
<1>5. CASE step = "battle_sessions_age"
  <2>1. UNCHANGED <<current, events, snapshots>>
    BY <1>5 DEF RunStep
  <2>2. row' = row \/ (Prunable /\ row' = None)
    BY <1>5 DEF RunStep
  <2> QED  BY <1>1, <1>5, <2>1, <2>2 DEF data
<1>6. CASE step \notin {"battle_snapshots_age", "battle_snapshots_cap", "battle_events_age", "battle_events_cap",
                        "radar_targets_age", "battle_projectiles_age", "battle_units_age", "battle_sessions_age"}
  <2>1. UNCHANGED <<row, current, events, snapshots>>
    BY <1>6 DEF RunStep
  <2> QED  BY <2>1 DEF data
<1> QED  BY <1>2, <1>3, <1>4, <1>5, <1>6

LEMMA AgeStepTakes ==
    ASSUME NEW i \in Nat \ {0}, AgeGone(i), Prunable, RunStep(AgeSteps[i]), row' = row,
           row # None, current = [k \in Kinds |-> current[k]]
    PROVE  AgeGone(i + 1)'
<1>1. i \in 1 .. 6
  BY DEF AgeGone
<1>2. CASE i = 1
  <2>1. snapshots' = {}
    BY <1>2 DEF RunStep, AgeSteps
  <2> QED  BY <1>2, <2>1 DEF AgeGone
<1>3. CASE i = 2
  <2>1. snapshots' = snapshots /\ events' = {}
    BY <1>3 DEF RunStep, AgeSteps
  <2> QED  BY <1>3, <2>1 DEF AgeGone
<1>4. CASE i = 3
  <2>1. snapshots' = snapshots /\ events' = events /\ current' = [current EXCEPT !["targets"] = NoRows]
    BY <1>4 DEF RunStep, AgeSteps
  <2> QED  BY <1>4, <2>1 DEF AgeGone, Kinds
<1>5. CASE i = 4
  <2>1. snapshots' = snapshots /\ events' = events /\ current' = [current EXCEPT !["projectiles"] = NoRows]
    BY <1>5 DEF RunStep, AgeSteps
  <2> QED  BY <1>5, <2>1 DEF AgeGone, Kinds
<1>6. CASE i = 5
  <2>1. snapshots' = snapshots /\ events' = events /\ current' = [current EXCEPT !["units"] = NoRows]
    BY <1>6 DEF RunStep, AgeSteps
  <2> QED  BY <1>6, <2>1 DEF AgeGone, Kinds
<1>7. CASE i = 6
  <2>1. row' = None
    BY <1>7 DEF RunStep, AgeSteps
  <2> QED  BY <2>1
<1> QED  BY <1>1, <1>2, <1>3, <1>4, <1>5, <1>6, <1>7

\* A step of the script in a run that nothing has disturbed.
LEMMA PruneStepHolds ==
    ASSUME LiveBase, PruneInv, PruneStep, ~prune.disturbed
    PROVE  RunHolds'
<1>0. PICK policy, i : policy = prune.policy /\ i = prune.i
  OBVIOUS
<1>1. prune.pc = "running" /\ i <= Len(BuildSteps(policy)) /\ RunHolds
  BY <1>0 DEF PruneStep, AtPruneStep, PruneSteps, PruneInv
<1>2. \A p \in Processes : ~Busy(p)'
  BY <1>1 DEF RunHolds, PruneStep, Busy
<1>3. i \in Nat \ {0} /\ prune'.policy = policy /\ prune'.before = prune.before /\ prune'.i \in Nat \ {0}
  <2>1. Len(BuildSteps(policy)) \in Nat
    BY StepNames
  <2>2. i \in Nat \ {0}
    BY <1>0, <1>1 DEF RunHolds
  <2>3. prune' = [prune EXCEPT !.i = i + 1] \/ prune' = [prune EXCEPT !.i = Len(BuildSteps(policy)) + 1]
    BY <1>0 DEF PruneStep, PruneSteps
  <2> QED  BY <1>0, <2>1, <2>2, <2>3 DEF PruneInv, PruneShaped
<1>4. CASE row = None
  <2>1. UNCHANGED data
    BY <1>4, PruneWrites
  <2>2. ~HasRows /\ policy.apply
    BY <1>0, <1>4, <1>1 DEF RunHolds
  <2>3. row' = None /\ ~HasRows'
    BY <1>4, <2>1, <2>2 DEF data, HasRows
  <2> QED  BY <1>2, <1>3, <2>2, <2>3 DEF RunHolds
<1>5. CASE row # None /\ ~policy.apply
  <2>1. UNCHANGED data
    BY <1>0, <1>5 DEF PruneStep
  <2>2. row' = row /\ data = prune.before /\ row = prune.before[1] /\ row' # None
    BY <1>0, <1>1, <1>5, <2>1 DEF RunHolds, data
  <2> QED  BY <1>2, <1>3, <1>5, <2>1, <2>2 DEF RunHolds
<1>6. CASE row # None /\ policy.apply
  <2> DEFINE step == BuildSteps(policy)[i]
  <2>1. RunStep(step) /\ prune'.i = i + 1
    <3>1. RunStep(step) /\ prune' = [prune EXCEPT !.i = i + 1]
      BY <1>0, <1>6 DEF PruneStep, PruneSteps
    <3> QED  BY <1>0, <3>1 DEF PruneInv, PruneShaped
  <2>2. UNCHANGED <<pc, old>>
    BY DEF PruneStep
  <2>3. /\ row = prune.before[1]
        /\ \/ data = prune.before
           \/ /\ row.status # "running"
              /\ events \subseteq prune.before[3] /\ snapshots \subseteq prune.before[4]
              /\ current = prune.before[2] \/ (policy.age /\ Prunable)
        /\ policy.age /\ Prunable => AgeGone(i)
    BY <1>0, <1>1, <1>6 DEF RunHolds
  <2>4. policy.age /\ Prunable => step = AgeSteps[i]
    <3>1. policy.age /\ Prunable => i \in 1 .. 6
      BY <1>3, <2>3 DEF AgeGone
    <3> QED  BY <3>1, StepNames
  <2>5. ~policy.age => step \in {"battle_snapshots_cap", "battle_events_cap"}
    BY <1>1, <1>3, StepNames
  <2> HIDE DEF step
  <2>6. current = [k \in Kinds |-> current[k]]
    BY DEF PruneInv
  <2>7. /\ ~Ended => UNCHANGED data
        /\ snapshots' \subseteq snapshots /\ events' \subseteq events
        /\ \/ current' = current
           \/ Prunable /\ step \in {"radar_targets_age", "battle_projectiles_age", "battle_units_age"}
        /\ \/ row' = row
           \/ row' = None /\ step = "battle_sessions_age" /\ Prunable /\ UNCHANGED <<current, events, snapshots>>
    BY <1>6, <2>1, <2>6, RunStepEffects
  <2>8. CASE row' = row
    <3>1. Prunable' = Prunable
      BY <2>2, <2>8 DEF Prunable, Ended, Stamp
    <3>2. ASSUME policy.age, Prunable PROVE AgeGone(i + 1)'
      BY <1>3, <1>6, <2>1, <2>3, <2>4, <2>6, <2>8, <3>2, AgeStepTakes
    <3>3. \/ data' = prune.before
          \/ /\ row.status # "running"
             /\ events' \subseteq prune.before[3] /\ snapshots' \subseteq prune.before[4]
             /\ current' = prune.before[2] \/ (policy.age /\ Prunable)
      <4>1. CASE ~Ended
        BY <1>6, <2>3, <2>7, <4>1 DEF Ended, data
      <4>2. CASE Ended
        <5>1. events \subseteq prune.before[3] /\ snapshots \subseteq prune.before[4]
          BY <2>3 DEF data
        <5>2. current = prune.before[2] \/ (policy.age /\ Prunable)
          BY <2>3 DEF data
        <5>3. current' = current \/ (policy.age /\ Prunable)
          BY <2>5, <2>7
        <5> QED  BY <2>7, <4>2, <5>1, <5>2, <5>3 DEF Ended
      <4> QED  BY <4>1, <4>2
    <3>4. policy.age /\ Prunable' => AgeGone(prune.i)'
      BY <2>1, <3>1, <3>2 DEF AgeGone
    <3> QED  BY <1>2, <1>3, <1>6, <2>3, <2>8, <3>1, <3>3, <3>4 DEF RunHolds
  <2>9. CASE row' # row
    <3>1. row' = None /\ step = "battle_sessions_age" /\ Prunable /\ UNCHANGED <<current, events, snapshots>>
      BY <2>7, <2>9
    <3>2. policy.age /\ AgeGone(i) /\ AgeSteps[i] = "battle_sessions_age"
      BY <2>3, <2>4, <2>5, <3>1
    <3>3. i = 6
      <4>1. i \in 1 .. 6
        BY <1>3, <3>2 DEF AgeGone
      <4> QED  BY <3>2, <4>1 DEF AgeSteps
    <3>4. snapshots = {} /\ events = {} /\ \A k \in Kinds : current[k] = NoRows
      BY <3>2, <3>3 DEF AgeGone, Kinds
    <3>5. ~HasRows'
      BY <2>6, <3>1, <3>4 DEF HasRows, NoTables
    <3> QED  BY <1>2, <1>3, <1>6, <3>1, <3>5 DEF RunHolds
  <2> QED  BY <2>8, <2>9
<1> QED  BY <1>4, <1>5, <1>6

\* A run begins with what it finds.
LEMMA PruneStartHolds ==
    ASSUME PruneInv, PruneStart PROVE PruneInv'
<1>1. PICK disturbed : disturbed = \E p \in Processes : Busy(p)
  OBVIOUS
<1>2. PICK policy \in Policies :
         prune' = [pc |-> "running", policy |-> policy, i |-> 1,
                   runs |-> IF policy.apply THEN prune.runs + 1 ELSE prune.runs,
                   disturbed |-> disturbed, before |-> IF disturbed THEN None ELSE data]
  BY <1>1 DEF PruneStart
<1>3. UNCHANGED vars /\ row # None /\ old' = old
  BY DEF PruneStart
<1>4. UNCHANGED <<row, current, events, snapshots, pc>> /\ data' = data
  BY <1>3 DEF vars, data
<1>5. /\ prune'.i = 1 /\ prune'.disturbed = disturbed /\ (~disturbed => prune'.before = data)
      /\ prune'.policy = policy
  BY <1>2
<1>6. PruneShaped'
  BY <1>2 DEF PruneShaped
<1>7. ASSUME ~disturbed PROVE RunHolds'
  <2>1. \A p \in Processes : ~Busy(p)'
    BY <1>1, <1>4, <1>7 DEF Busy
  <2>2. row' = prune'.before[1] /\ data' = prune'.before
    BY <1>4, <1>5, <1>7 DEF data
  <2>3. AgeGone(prune.i)'
    BY <1>5 DEF AgeGone
  <2> QED  BY <1>3, <1>4, <1>5, <2>1, <2>2, <2>3 DEF RunHolds
<1>8. prune'.pc = "running" /\ ~prune'.disturbed => RunHolds'
  BY <1>5, <1>7
<1>9. row' # None /\ current' = [k \in Kinds |-> current'[k]]
  BY <1>3, <1>4 DEF PruneInv
<1> QED  BY <1>6, <1>8, <1>9 DEF PruneInv

LEMMA NextPrune == LiveBase /\ PruneInv /\ [LiveNext]_liveVars => PruneInv'
<1> SUFFICES ASSUME LiveBase, PruneInv, [LiveNext]_liveVars PROVE PruneInv'
  OBVIOUS
<1>1. Served /\ current = [k \in Kinds |-> current[k]]
  BY DEF LiveBase, PruneInv
<1>2. ASSUME NEW p \in Processes, ServerStep(p) \/ Broadcast(p), Disturb PROVE PruneInv'
  <2>1. Handles(p)
    BY <1>1, <1>2, ServerHandles
  <2>2. current' = [k \in Kinds |-> current'[k]]
    BY <1>1, <1>2, CurrentKept
  <2>3. row' = None => row = None
    BY <2>1 DEF Handles, Scans
  <2>4. pc'[Creator] # "idle" => pc[Creator] # "idle"
    BY <2>1 DEF Handles, Busy, Processes
  <2>5. Busy(p)
    BY <2>1 DEF Handles
  <2> QED  BY <1>2, <2>2, <2>3, <2>4, <2>5, DisturbedStep
<1>3. ASSUME NEW p, Starts(p), Disturb PROVE PruneInv'
  <2>1. /\ p \in Processes /\ Begun(p)
        /\ p = Creator => row' # None
        /\ p # Creator => (row = None <=> row' = None)
        /\ p # Creator /\ row = None => pc'[p] = "failed"
    BY <1>1, <1>3, StartsBegin
  <2>2. UNCHANGED <<current, events, snapshots>>
    BY <2>1 DEF Begun
  <2>3. ASSUME row' = None, pc'[Creator] # "idle"
        PROVE  /\ row = None /\ pc[Creator] # "idle"
               /\ (\A q \in Processes : ~Busy(q)) => \A q \in Processes : ~Busy(q)'
    <3>1. p # Creator /\ row = None /\ pc'[p] = "failed"
      BY <2>1, <2>3
    <3>2. pc'[Creator] = pc[Creator] /\ \A q \in Processes \ {p} : pc'[q] = pc[q]
      BY <2>1, <3>1 DEF Begun, Processes
    <3> QED  BY <2>3, <3>1, <3>2 DEF Busy, Over
  <2>4. HasRows' = HasRows
    BY <2>2 DEF HasRows
  <2>5. current' = [k \in Kinds |-> current'[k]]
    BY <1>1, <2>2
  <2> QED  BY <1>3, <2>3, <2>4, <2>5, DisturbedStep
<1>4. ASSUME UNCHANGED <<row, current, events, snapshots, pc>>, Disturb PROVE PruneInv'
  <2>1. HasRows' = HasRows /\ \A p \in Processes : Busy(p)' = Busy(p)
    BY <1>4 DEF HasRows, Busy
  <2>2. current' = [k \in Kinds |-> current'[k]]
    BY <1>1, <1>4
  <2> QED  BY <1>4, <2>1, <2>2, DisturbedStep
<1>5. CASE ServerMoves
  BY <1>2, <1>5 DEF ServerMoves
<1>6. ASSUME prune.pc = "idle", prune' = prune PROVE Disturb
  BY <1>6 DEF Disturb
<1>7. CASE Smoking
  <2>1. Disturb
    BY <1>6, <1>7 DEF Smoking, LiveBase, retentionVars
  <2>2. UNCHANGED vars \/ Starts(Creator) \/ Starts(SmokePost)
    BY <1>7, SmokeStarts DEF Smoking
  <2> QED  BY <1>3, <1>4, <2>1, <2>2 DEF vars
<1>8. CASE Probing
  <2>1. Disturb
    BY <1>6, <1>8 DEF Probing, LiveBase, retentionVars
  <2>2. UNCHANGED vars \/ Starts(Creator) \/ Starts(ProbePosts[probe.tick]) \/ Starts(ProbeStop)
    BY <1>8, ProbeBegins DEF Probing, LiveBase
  <2> QED  BY <1>3, <1>4, <2>1, <2>2 DEF vars
<1>9. CASE Simulating
  <2>1. Disturb /\ \E p : Starts(p)
    BY <1>9, LiveAssumption DEF Simulating, Starts
  <2> QED  BY <1>3, <2>1
<1>10. CASE Retaining
  <2>1. CASE PruneStart
    BY <2>1, PruneStartHolds
  <2>2. CASE PruneStep
    <3>1. PruneShaped' /\ prune'.disturbed = prune.disturbed
      BY <2>2 DEF PruneStep, PruneInv, PruneShaped
    <3>2. ~prune.disturbed => RunHolds'
      BY <2>2, PruneStepHolds
    <3>3. current' = [k \in Kinds |-> current'[k]]
      <4>1. CASE row = None \/ ~prune.policy.apply
        <5>1. UNCHANGED data
          BY <2>2, <4>1, PruneWrites DEF PruneStep
        <5> QED  BY <1>1, <5>1 DEF data
      <4>2. CASE row # None /\ prune.policy.apply
        <5>1. RunStep(PruneSteps[prune.i])
          BY <2>2, <4>2 DEF PruneStep
        <5> QED  BY <1>1, <4>2, <5>1, RunStepEffects
      <4> QED  BY <4>1, <4>2
    <3>4. row' = None /\ ~prune'.disturbed => ~HasRows' /\ \A p \in Processes : ~Busy(p)'
      BY <3>1, <3>2 DEF RunHolds
    <3> QED  BY <3>1, <3>2, <3>3, <3>4 DEF PruneInv
  <2>3. CASE PruneOver
    <3>1. UNCHANGED <<row, current, events, snapshots, pc>>
      BY <2>3 DEF PruneOver, vars
    <3>2. PruneShaped' /\ prune'.pc = "idle" /\ prune'.disturbed = prune.disturbed
      BY <2>3 DEF PruneOver, PruneInv, PruneShaped
    <3>3. HasRows' = HasRows /\ \A p \in Processes : Busy(p)' = Busy(p)
      BY <3>1 DEF HasRows, Busy
    <3> QED  BY <3>1, <3>2, <3>3 DEF PruneInv
  <2>4. CASE DaysPass
    BY <1>4, <2>4 DEF DaysPass, vars
  <2> QED  BY <1>10, <2>1, <2>2, <2>3, <2>4 DEF Retaining, Retain, PruneFails, PruneEnds
<1>11. CASE UNCHANGED liveVars
  <2>1. UNCHANGED <<row, current, events, snapshots, pc, prune, old>>
    BY <1>11 DEF liveVars, vars
  <2>2. HasRows' = HasRows /\ (\A p \in Processes : Busy(p)' = Busy(p)) /\ PruneShaped' = PruneShaped
    BY <2>1 DEF HasRows, Busy, PruneShaped
  <2>3. RunHolds' = RunHolds
    BY <2>1 DEF RunHolds, AgeGone, Prunable, Ended, Stamp, data, Busy, HasRows
  <2> QED  BY <2>1, <2>2, <2>3 DEF PruneInv
<1> QED  BY <1>5, <1>7, <1>8, <1>9, <1>10, <1>11 DEF LiveNext

LEMMA PruneInvMeans == PruneInv => PrunedWhole
<1> SUFFICES ASSUME PruneInv PROVE PrunedWhole
  OBVIOUS
<1>1. row = None /\ pc[Creator] \in Over /\ ~prune.disturbed => ~HasRows
  BY DEF PruneInv, Over
<1>2. ASSUME PruneDone, ~prune.disturbed
      PROVE  \/ data = prune.before
             \/ prune.policy.apply /\ row = None
             \/ /\ prune.policy.apply /\ row = prune.before[1] /\ row.status # "running"
                /\ current = prune.before[2]
                /\ events \subseteq prune.before[3] /\ snapshots \subseteq prune.before[4]
  <2>1. RunHolds /\ prune.i > Len(BuildSteps(prune.policy))
    BY <1>2 DEF PruneDone, PruneInv, PruneSteps
  <2>2. ASSUME prune.policy.age, AgeGone(prune.i) PROVE FALSE
    <3>1. prune.i \in 1 .. 6
      BY <2>1, <2>2 DEF RunHolds, AgeGone
    <3>2. prune.i <= Len(BuildSteps(prune.policy)) /\ Len(BuildSteps(prune.policy)) \in Nat
      BY <2>2, <3>1, StepNames
    <3> QED  BY <2>1, <3>1, <3>2
  <2> QED  BY <2>1, <2>2 DEF RunHolds
<1> QED  BY <1>1, <1>2 DEF PrunedWhole

\* Whatever command lines the retention script is run with, however often a run fails
\* between two steps and whatever requests come in between: a run that no request and
\* no move of the cutoff falls into takes all of a session or, of one that has ended,
\* snapshots and events only (execute_plan of retention_maintenance.py over the steps
\* of build_steps).
THEOREM LivePrunes == LiveSpec => []PrunedWhole
<1>1. LiveInit => LiveBase /\ PruneInv
  <2>1. LiveInit => PruneInv
    BY DEF LiveInit, Init, NoTables, RetentionInit, PruneInv, PruneShaped, HasRows, Processes
  <2> QED  BY <2>1, LiveInitBase
<1>2. LiveBase /\ PruneInv /\ [LiveNext]_liveVars => (LiveBase /\ PruneInv)'
  BY NextBase, NextPrune
<1> QED  BY <1>1, <1>2, PruneInvMeans, PTL DEF LiveSpec
-----------------------------------------------------------------------------
(* What a probe leaves, and measures.                                      *)

\* Tick t went well, and nobody else was at work meanwhile.
PostedAlone(t) == /\ ProbePosts[t] \in alone
                  /\ loc[ProbePosts[t]].report = ProbeReports[t]

\* The probe is the only client: it has one request at work at a time, and one more for
\* each that it has given up waiting for.
OnlyProbe ==
    /\ probe.pc \in {"idle", "create", "post", "read", "stop", "over"}
    /\ \A p \in Processes : pc[p] # "idle" =>
          \/ p = Creator
          \/ p = ProbeStop /\ probe.pc \in {"stop", "over"}
          \/ \E t \in 1 .. probe.tick : p = ProbePosts[t]
    /\ probe.pc \in {"idle", "create"} =>
          /\ probe.tick = 1 /\ \A t \in 1 .. Ticks : pc[ProbePosts[t]] = "idle"
          /\ probe.pc = "idle" \/ ~probe.waiting => pc[Creator] = "idle"
    /\ probe.pc \in {"post", "read"} =>
          /\ pc[Creator] = "acked"
          /\ \A t \in 1 .. probe.tick - 1 : pc[ProbePosts[t]] = "acked" /\ PostedAlone(t)
    /\ probe.pc = "post" =>
          IF probe.waiting THEN pc[ProbePosts[probe.tick]] # "idle" /\ PostedAlone(probe.tick)
          ELSE pc[ProbePosts[probe.tick]] = "idle"
    /\ probe.pc = "read" =>
          /\ probe.tick = Ticks /\ pc[ProbePosts[Ticks]] = "acked" /\ PostedAlone(Ticks)
          /\ ~probe.waiting
    /\ probe.pc \in {"stop", "over"} => \A p \in Processes : Busy(p) => p \in probe.lost \cup {ProbeStop}

\* What becomes of its session.
StopSought ==
    /\ probe.pc = "stop" /\ probe.waiting => pc[ProbeStop] # "idle"
    /\ probe.pc = "over" =>
          pc[ProbeStop] # "idle" \/ probe.lost \cap {Creator, ProbeStop} # {} \/ row = None
    /\ pc[ProbeStop] # "idle" /\ row # None /\ row.status = "running" => row.updatedAt \in probe.lost

ProbeInv == user = "probe" => /\ OnlyProbe /\ StopSought
                              /\ probe.result # None => probe.result = Profile

\* As many on both sides of a one to one relation.
LEMMA Matched ==
    ASSUME NEW S, NEW T, IsFiniteSet(S), NEW f \in [S -> T],
           \A a, b \in S : f[a] = f[b] => a = b, \A c \in T : \E a \in S : f[a] = c
    PROVE  Cardinality(T) = Cardinality(S)
<1>1. f \in Bijection(S, T)
  BY DEF Bijection, Injection, Surjection, IsInjective
<1> QED  BY <1>1, FS_Bijection DEF ExistsBijection

Shown == [snapshots |-> Cardinality(snapshots),
          events |-> Cardinality({shown \in snapshots \X EventIds : shown[2] \in shown[1].events})]

\* When all ticks went well, each has one snapshot, with its event if it has one.
LEMMA ProbeMeasures ==
    ASSUME LiveBase, user = "probe", OnlyProbe, probe.pc = "read"
    PROVE  Shown = Profile
<1>1. Ticks \in Nat /\ Ticks > 0
  BY TicksType
<1>2. ASSUME NEW t \in 1 .. Ticks
      PROVE  pc[ProbePosts[t]] = "acked" /\ PostedAlone(t)
  <2>1. t \in 1 .. probe.tick - 1 \/ t = Ticks
    BY <1>1 DEF OnlyProbe
  <2> QED  BY <2>1 DEF OnlyProbe
<1>3. LoneInv
  BY DEF LiveBase
<1>4. ASSUME NEW t \in 1 .. Ticks
      PROVE  /\ \E s \in snapshots : s.time = ProbeReports[t]
             /\ \A s \in snapshots : s.by = ProbePosts[t] =>
                   s.time = ProbeReports[t] /\ s.events = Payload[ProbeReports[t]].events
  <2>1. LoneHolds(ProbePosts[t]) /\ ProbePosts[t] \in alone /\ loc[ProbePosts[t]].report = ProbeReports[t]
    BY <1>2, <1>3, ProbeRequests DEF LoneInv, PostedAlone
  <2>2. Payload[ProbeReports[t]].state /\ pc[ProbePosts[t]] = "acked"
    BY <1>2, ProbeRequests
  <2> QED  BY <2>1, <2>2 DEF LoneHolds, ReplayedHolds, Stands, Shows
<1>5. ASSUME NEW s \in snapshots
      PROVE  \E t \in 1 .. Ticks : s.time = ProbeReports[t] /\ s.events = Payload[ProbeReports[t]].events
  <2>1. s.by \in Deliveries \cup Stops /\ pc[s.by] # "idle"
    BY DEF LiveBase, Served
  <2>2. s.by # Creator /\ s.by \in Processes
    BY <2>1, RequestAssumption DEF Processes
  <2>3. \E t \in 1 .. Ticks : s.by = ProbePosts[t]
    BY <2>1, <2>2 DEF OnlyProbe
  <2> QED  BY <1>4, <2>3
<1>6. \A s, u \in snapshots : s.time = u.time => s = u
  BY <1>3 DEF LoneInv, SessionInv, TicksContiguous
<1>7. \A t, u \in 1 .. Ticks : ProbeReports[t] = ProbeReports[u] => t = u
  BY ProbeAssumption DEF Ticks
<1> DEFINE f == [t \in 1 .. Ticks |-> CHOOSE s \in snapshots : s.time = ProbeReports[t]]
<1>8. \A t \in 1 .. Ticks : f[t] \in snapshots /\ f[t].time = ProbeReports[t]
  BY <1>4
<1>9. f \in [1 .. Ticks -> snapshots]
  BY <1>8
<1> HIDE DEF f
<1>10. Cardinality(snapshots) = Ticks
  <2>1. \A a, b \in 1 .. Ticks : f[a] = f[b] => a = b
    BY <1>7, <1>8
  <2>2. \A s \in snapshots : \E a \in 1 .. Ticks : f[a] = s
    BY <1>5, <1>6, <1>8
  <2>3. IsFiniteSet(1 .. Ticks) /\ Cardinality(1 .. Ticks) = Ticks
    BY <1>1, FS_Interval
  <2>4. Cardinality(snapshots) = Cardinality(1 .. Ticks)
    BY <1>9, <2>1, <2>2, <2>3, Matched
  <2> QED  BY <2>3, <2>4
<1> DEFINE Shots == {shown \in snapshots \X EventIds : shown[2] \in shown[1].events}
           Events(t) == Payload[ProbeReports[t]].events
           g == [t \in EventTicks |-> <<f[t], CHOOSE e : e \in Events(t)>>]
<1>11. \A t \in 1 .. Ticks : Events(t) \subseteq EventIds /\ \A e, d \in Events(t) : e = d
  BY ProbeRequests, PayloadAssumption DEF Payloads
<1>12. \A t \in 1 .. Ticks : f[t].events = Events(t)
  BY <1>5, <1>7, <1>8
<1>13. EventTicks \subseteq 1 .. Ticks /\ \A t \in EventTicks : Events(t) # {}
  BY DEF EventTicks
<1>14. \A t \in 1 .. Ticks : Events(t) # {} => t \in EventTicks
  BY DEF EventTicks
<1> HIDE DEF Events
<1>15. \A t \in EventTicks : (CHOOSE e : e \in Events(t)) \in Events(t)
  BY <1>13
<1>16. \A t \in EventTicks : g[t] \in Shots /\ g[t][1] = f[t] /\ g[t][2] \in Events(t)
  <2>1. ASSUME NEW t \in EventTicks, NEW e \in Events(t) PROVE <<f[t], e>> \in Shots
    <3>1. f[t] \in snapshots /\ f[t].events = Events(t) /\ e \in EventIds
      BY <1>8, <1>11, <1>12, <1>13
    <3> QED  BY <3>1
  <2> HIDE DEF Shots
  <2> QED  BY <1>15, <2>1
<1>17. g \in [EventTicks -> Shots]
  BY <1>16
<1>18. \A a, b \in EventTicks : g[a] = g[b] => a = b
  <2>1. ASSUME NEW a \in EventTicks, NEW b \in EventTicks, g[a] = g[b] PROVE a = b
    <3>1. a \in 1 .. Ticks /\ b \in 1 .. Ticks /\ f[a] = f[b]
      BY <1>13, <1>16, <2>1
    <3> QED  BY <1>7, <1>8, <3>1
  <2> QED  BY <2>1
<1>19. ASSUME NEW c \in Shots PROVE \E a \in EventTicks : g[a] = c
  <2>1. PICK s \in snapshots, e \in EventIds : c = <<s, e>> /\ e \in s.events
    OBVIOUS
  <2>2. PICK t \in 1 .. Ticks : s.time = ProbeReports[t]
    BY <1>5
  <2>3. s = f[t]
    BY <1>6, <1>8, <2>2
  <2>4. e \in Events(t) /\ t \in EventTicks
    BY <1>12, <1>14, <2>1, <2>3
  <2>5. g[t] = <<f[t], CHOOSE d : d \in Events(t)>>
    BY <2>4
  <2>6. (CHOOSE d : d \in Events(t)) = e
    BY <1>11, <1>15, <2>4
  <2> QED  BY <2>1, <2>3, <2>4, <2>5, <2>6
<1> HIDE DEF Shots, g
<1>20. Cardinality(Shots) = Cardinality(EventTicks)
  <2>1. IsFiniteSet(EventTicks)
    <3>1. IsFiniteSet(1 .. Ticks)
      BY <1>1, FS_Interval
    <3> QED  BY <1>13, <3>1, FS_Subset
  <2> QED  BY <1>17, <1>18, <1>19, <2>1, Matched
<1> QED  BY <1>10, <1>20 DEF Shown, Profile, Shots

\* The requests of the probe are different ones.
LEMMA ProbeOwn ==
    /\ ProbeStop \in Processes /\ ProbeStop \notin Deliveries /\ ProbeStop # Creator
    /\ Creator \in Processes /\ Creator \notin Deliveries
    /\ \A t \in 1 .. Ticks : ProbePosts[t] \in Deliveries /\ ProbePosts[t] \in Processes
    /\ \A t, u \in 1 .. Ticks : t # u => ProbePosts[t] # ProbePosts[u]
    /\ Ticks \in Nat /\ Ticks > 0
<1>1. ProbeStop \in Stops
  BY ProbeAssumption
<1>2. \A t, u \in 1 .. Ticks : t # u => ProbePosts[t] # ProbePosts[u]
  BY ProbeAssumption DEF Ticks
<1> QED  BY <1>1, <1>2, ProbeRequests, TicksType, RequestAssumption DEF Processes

\* The server goes on with a request of the probe.
LEMMA ServerProbe ==
    ASSUME ProbeShaped, OnlyProbe, StopSought, NEW p \in Processes, Handles(p), probe' = probe
    PROVE  OnlyProbe' /\ StopSought'
<1>1. /\ Busy(p) /\ pc[p] \notin {"idle", "acked"} /\ pc'[p] # "idle"
      /\ \A q \in Processes \ {p} : pc'[q] = pc[q]
      /\ \A q \in Processes : loc'[q].report = loc[q].report
      /\ alone' = alone
  BY DEF Handles, Busy, Over, PlacesOf, ReportPcs, StopPcs, CreatePcs
<1>2. probe.tick \in 1 .. Ticks
  BY DEF ProbeShaped
<1>3. \A q \in Processes : /\ pc'[q] = "idle" <=> pc[q] = "idle"
                           /\ pc[q] = "acked" => pc'[q] = "acked"
                           /\ Busy(q)' => Busy(q)
  BY <1>1 DEF Busy
<1>4. \A t \in 1 .. Ticks : PostedAlone(t) => PostedAlone(t)'
  BY <1>1, ProbeOwn DEF PostedAlone
<1>5. OnlyProbe'
  <2>1. /\ probe'.pc \in {"idle", "create", "post", "read", "stop", "over"}
        /\ \A q \in Processes : pc'[q] # "idle" =>
              \/ q = Creator
              \/ q = ProbeStop /\ probe'.pc \in {"stop", "over"}
              \/ \E t \in 1 .. probe'.tick : q = ProbePosts[t]
    BY <1>3 DEF OnlyProbe
  <2>2. probe'.pc \in {"idle", "create"} =>
          /\ probe'.tick = 1 /\ \A t \in 1 .. Ticks : pc'[ProbePosts[t]] = "idle"
          /\ probe'.pc = "idle" \/ ~probe'.waiting => pc'[Creator] = "idle"
    BY <1>3, ProbeOwn DEF OnlyProbe
  <2>3. probe'.pc \in {"post", "read"} =>
          /\ pc'[Creator] = "acked"
          /\ \A t \in 1 .. probe'.tick - 1 : pc'[ProbePosts[t]] = "acked" /\ PostedAlone(t)'
    BY <1>2, <1>3, <1>4, ProbeOwn DEF OnlyProbe
  <2>4. probe'.pc = "post" =>
          IF probe'.waiting THEN pc'[ProbePosts[probe'.tick]] # "idle" /\ PostedAlone(probe.tick)'
          ELSE pc'[ProbePosts[probe'.tick]] = "idle"
    BY <1>2, <1>3, <1>4, ProbeOwn DEF OnlyProbe
  <2>5. probe'.pc = "read" =>
          /\ probe'.tick = Ticks /\ pc'[ProbePosts[Ticks]] = "acked" /\ PostedAlone(Ticks)'
          /\ ~probe'.waiting
    BY <1>2, <1>3, <1>4, ProbeOwn DEF OnlyProbe
  <2>6. probe'.pc \in {"stop", "over"} => \A q \in Processes : Busy(q)' => q \in probe'.lost \cup {ProbeStop}
    BY <1>3 DEF OnlyProbe
  <2> QED  BY <2>1, <2>2, <2>3, <2>4, <2>5, <2>6 DEF OnlyProbe
<1>6. row = None <=> row' = None
  BY DEF Handles, Scans
<1>7. ASSUME pc'[ProbeStop] # "idle", row' # None, row'.status = "running" PROVE row'.updatedAt \in probe.lost
  <2>1. CASE row' = row
    BY <1>3, <1>7, <2>1, ProbeOwn DEF StopSought
  <2>2. CASE Scans(p)
    <3>1. pc[ProbeStop] # "idle"
      BY <1>3, <1>7, ProbeOwn
    <3>2. probe.pc \in {"stop", "over"}
      <4>1. \A t \in 1 .. probe.tick : t \in 1 .. Ticks
        BY <1>2, ProbeOwn
      <4> QED  BY <3>1, <4>1, ProbeOwn DEF OnlyProbe
    <3>3. p \in probe.lost
      BY <1>1, <2>2, <3>2, ProbeOwn DEF Scans, OnlyProbe
    <3> QED  BY <2>2, <3>3 DEF Scans
  <2> QED  BY <2>1, <2>2 DEF Handles
<1>8. StopSought'
  BY <1>3, <1>6, <1>7, ProbeOwn DEF StopSought
<1> QED  BY <1>5, <1>8

\* Where the probe is, nobody but its own requests and those it has lost is at work.
LEMMA ProbeAlone ==
    ASSUME ProbeShaped, OnlyProbe
    PROVE  /\ probe.pc \notin {"stop", "over"} => pc[ProbeStop] = "idle"
           /\ probe.pc \in {"idle", "create"} => \A p \in Processes : Busy(p) => p = Creator /\ probe.waiting
           /\ probe.pc = "post" => \A p \in Processes : Busy(p) => p = ProbePosts[probe.tick] /\ probe.waiting
           /\ probe.pc = "read" => \A p \in Processes : ~Busy(p)
           /\ probe.pc = "post" /\ probe.tick < Ticks => pc[ProbePosts[probe.tick + 1]] = "idle"
<1>1. probe.tick \in 1 .. Ticks /\ \A t \in 1 .. probe.tick : t \in 1 .. Ticks
  BY TicksType DEF ProbeShaped
<1>2. probe.pc \notin {"stop", "over"} => pc[ProbeStop] = "idle"
  BY <1>1, ProbeOwn DEF OnlyProbe
<1>3. ASSUME NEW p \in Processes, Busy(p)
      PROVE  /\ pc[p] \notin {"idle", "acked", "failed"}
             /\ \/ p = Creator
                \/ p = ProbeStop /\ probe.pc \in {"stop", "over"}
                \/ \E t \in 1 .. probe.tick : p = ProbePosts[t]
  BY <1>3 DEF OnlyProbe, Busy, Over
<1>4. ASSUME probe.pc \in {"idle", "create"}, NEW p \in Processes, Busy(p)
      PROVE  p = Creator /\ probe.waiting
  BY <1>1, <1>3, <1>4 DEF OnlyProbe
<1>5. ASSUME probe.pc \in {"post", "read"}, NEW p \in Processes, Busy(p)
      PROVE  p = ProbePosts[probe.tick]
  <2>1. PICK t \in 1 .. probe.tick : p = ProbePosts[t]
    BY <1>3, <1>5 DEF OnlyProbe
  <2>2. t \notin 1 .. probe.tick - 1
    BY <1>3, <1>5, <2>1 DEF OnlyProbe
  <2> QED  BY <1>1, <2>1, <2>2
<1>6. ASSUME probe.pc = "post", NEW p \in Processes, Busy(p)
      PROVE  p = ProbePosts[probe.tick] /\ probe.waiting
  BY <1>3, <1>5, <1>6 DEF OnlyProbe
<1>7. ASSUME probe.pc = "read", NEW p \in Processes PROVE ~Busy(p)
  BY <1>3, <1>5, <1>7 DEF OnlyProbe
<1>8. ASSUME probe.pc = "post", probe.tick < Ticks PROVE pc[ProbePosts[probe.tick + 1]] = "idle"
  <2>1. probe.tick + 1 \in 1 .. Ticks /\ \A t \in 1 .. probe.tick : t # probe.tick + 1
    BY <1>1, <1>8, TicksType
  <2> QED  BY <1>1, <1>8, <2>1, ProbeOwn DEF OnlyProbe
<1> QED  BY <1>2, <1>4, <1>6, <1>7, <1>8

\* The probe moves on without a request.
LEMMA QuietProbe ==
    ASSUME LiveBase, OnlyProbe, StopSought, UNCHANGED vars,
           NEW place, NEW tick1 \in 1 .. Ticks, NEW session1, NEW waiting1, NEW lost1, NEW result1,
           Becomes(place, tick1, session1, waiting1, lost1, result1), probe.lost \subseteq lost1,
           \/ probe.pc = "idle" /\ place = "create" /\ tick1 = probe.tick
           \/ /\ probe.pc = "create" /\ place = "post" /\ ~waiting1
              /\ pc[Creator] = "acked" /\ tick1 = probe.tick
           \/ /\ probe.pc = "post" /\ place = "post" /\ ~waiting1 /\ probe.waiting
              /\ pc[ProbePosts[probe.tick]] = "acked" /\ probe.tick < Ticks /\ tick1 = probe.tick + 1
           \/ /\ probe.pc = "post" /\ place = "read" /\ ~waiting1 /\ probe.waiting
              /\ pc[ProbePosts[probe.tick]] = "acked" /\ tick1 = probe.tick /\ tick1 = Ticks
           \/ /\ probe.pc \in {"post", "read"} /\ place = "stop" /\ ~waiting1 /\ tick1 = probe.tick
              /\ \A p \in Processes : Busy(p) => p \in lost1
           \/ /\ probe.pc = "create" /\ place = "over" /\ tick1 = probe.tick
              /\ Creator \in lost1 \/ ~probe.waiting
           \/ /\ probe.pc = "stop" /\ place = "over" /\ tick1 = probe.tick
              /\ pc[ProbeStop] # "idle" \/ ProbeStop \in lost1
    PROVE  OnlyProbe' /\ StopSought'
<1>0. /\ probe'.pc = place /\ probe'.tick = tick1 /\ probe'.waiting = waiting1
      /\ probe'.lost = lost1 /\ probe'.result = result1
  BY BecomesFields
<1>1. pc' = pc /\ loc' = loc /\ alone' = alone /\ row' = row
  BY DEF vars
<1>2. \A t \in 1 .. Ticks : PostedAlone(t)' <=> PostedAlone(t)
  BY <1>1 DEF PostedAlone
<1>3. ProbeShaped /\ probe.tick \in 1 .. Ticks /\ \A t \in 1 .. probe.tick : t \in 1 .. Ticks
  BY TicksType DEF LiveBase, ProbeShaped
<1>4. \A p \in Processes : Busy(p)' <=> Busy(p)
  BY <1>1 DEF Busy
<1>5. /\ place \in {"create", "post", "read", "stop", "over"}
      /\ tick1 = probe.tick \/ (tick1 = probe.tick + 1 /\ place = "post")
      /\ place = "over" => probe.pc \in {"create", "stop"}
      /\ place = "stop" => probe.pc \in {"post", "read"}
  OBVIOUS
<1>6. OnlyProbe'
  <2>1. ASSUME NEW p \in Processes, pc'[p] # "idle"
        PROVE  \/ p = Creator
               \/ p = ProbeStop /\ place \in {"stop", "over"}
               \/ \E t \in 1 .. tick1 : p = ProbePosts[t]
    <3>1. \/ p = Creator
          \/ p = ProbeStop /\ probe.pc \in {"stop", "over"}
          \/ \E t \in 1 .. probe.tick : p = ProbePosts[t]
      BY <1>1, <2>1 DEF OnlyProbe
    <3>2. \A t \in 1 .. probe.tick : t \in 1 .. tick1
      BY <1>3, <1>5, TicksType
    <3>3. probe.pc \in {"stop", "over"} => place \in {"stop", "over"}
      OBVIOUS
    <3> QED  BY <3>1, <3>2, <3>3
  <2>2. place \in {"idle", "create"} =>
          /\ tick1 = 1 /\ \A t \in 1 .. Ticks : pc'[ProbePosts[t]] = "idle"
          /\ place = "idle" \/ ~waiting1 => pc'[Creator] = "idle"
    BY <1>1 DEF OnlyProbe
  <2>3. place \in {"post", "read"} =>
          /\ pc'[Creator] = "acked"
          /\ \A t \in 1 .. tick1 - 1 : pc'[ProbePosts[t]] = "acked" /\ PostedAlone(t)'
    <3>1. CASE probe.pc = "create"
      BY <1>1, <3>1 DEF OnlyProbe
    <3>2. CASE probe.pc = "post" /\ place \in {"post", "read"}
      <4>1. PostedAlone(probe.tick) /\ pc[ProbePosts[probe.tick]] = "acked" /\ probe.waiting
        BY <3>2 DEF OnlyProbe
      <4>2. \A t \in 1 .. tick1 - 1 : t \in 1 .. Ticks /\ (t \in 1 .. probe.tick - 1 \/ t = probe.tick)
        BY <1>3, <1>5, TicksType
      <4> QED  BY <1>1, <1>2, <3>2, <4>1, <4>2 DEF OnlyProbe
    <3> QED  BY <3>1, <3>2
  <2>4. place = "post" =>
          IF waiting1 THEN pc'[ProbePosts[tick1]] # "idle" /\ PostedAlone(tick1)'
          ELSE pc'[ProbePosts[tick1]] = "idle"
    <3>1. CASE probe.pc = "create" /\ place = "post"
      BY <1>1, <1>3, <3>1 DEF OnlyProbe
    <3>2. CASE probe.pc = "post" /\ place = "post"
      BY <1>1, <1>3, <3>2, ProbeAlone
    <3> QED  BY <3>1, <3>2
  <2>5. place = "read" =>
          /\ tick1 = Ticks /\ pc'[ProbePosts[Ticks]] = "acked" /\ PostedAlone(Ticks)' /\ ~waiting1
    BY <1>1, <1>2, <1>3 DEF OnlyProbe
  <2>6. place \in {"stop", "over"} => \A p \in Processes : Busy(p)' => p \in lost1 \cup {ProbeStop}
    <3>1. CASE place = "stop"
      BY <1>4, <3>1
    <3>2. CASE place = "over" /\ probe.pc = "create"
      BY <1>3, <1>4, <3>2, ProbeAlone
    <3>3. CASE place = "over" /\ probe.pc = "stop"
      BY <1>4, <3>3 DEF OnlyProbe
    <3> QED  BY <1>5, <3>1, <3>2, <3>3
  <2> QED  BY <1>0, <1>5, <2>1, <2>2, <2>3, <2>4, <2>5, <2>6 DEF OnlyProbe
<1>7. StopSought'
  <2>1. place = "stop" => ~waiting1
    OBVIOUS
  <2>2. place = "over" => pc'[ProbeStop] # "idle" \/ lost1 \cap {Creator, ProbeStop} # {} \/ row' = None
    <3>1. CASE place = "over" /\ probe.pc = "create"
      <4>1. ~probe.waiting => row = None
        BY <3>1 DEF OnlyProbe, LiveBase
      <4> QED  BY <1>1, <3>1, <4>1
    <3> QED  BY <1>1, <1>5, <3>1
  <2>3. pc'[ProbeStop] # "idle" /\ row' # None /\ row'.status = "running" => row'.updatedAt \in lost1
    BY <1>1 DEF StopSought
  <2> QED  BY <1>0, <2>1, <2>2, <2>3 DEF StopSought
<1> QED  BY <1>6, <1>7

\* The probe sends a request: the one of its place, which it has not sent before.
LEMMA SendProbe ==
    ASSUME LiveBase, user = "probe", OnlyProbe, StopSought,
           Becomes(probe.pc, probe.tick, probe.session, TRUE, probe.lost, probe.result),
           \/ probe.pc = "create" /\ InsertSession
           \/ probe.pc = "post" /\ ~probe.waiting /\ Receive(ProbePosts[probe.tick], ProbeReports[probe.tick])
           \/ probe.pc = "stop" /\ StopSession(ProbeStop)
    PROVE  OnlyProbe' /\ StopSought'
<1>1. ProbeShaped /\ probe.tick \in 1 .. Ticks /\ \A t \in 1 .. probe.tick : t \in 1 .. Ticks
  BY TicksType DEF LiveBase, ProbeShaped
<1>0. /\ probe'.pc = probe.pc /\ probe'.tick = probe.tick /\ probe'.waiting = TRUE
      /\ probe'.lost = probe.lost
  BY DEF Becomes
<1>2. ASSUME probe.pc = "create", InsertSession PROVE OnlyProbe' /\ StopSought'
  <2>1. Begun(Creator) /\ pc'[Creator] = "startEvent"
    BY <1>2, CreateBegins DEF LiveBase
  <2>2. \A p \in Processes \ {Creator} : pc'[p] = pc[p]
    BY <2>1 DEF Begun
  <2>3. OnlyProbe'
    BY <1>0, <1>1, <1>2, <2>2, ProbeOwn DEF OnlyProbe
  <2>4. pc'[ProbeStop] = "idle"
    BY <1>1, <1>2, <2>2, ProbeOwn, ProbeAlone
  <2>5. StopSought'
    BY <1>0, <1>2, <2>4 DEF StopSought
  <2> QED  BY <2>3, <2>5
<1>3. ASSUME probe.pc = "post", ~probe.waiting, Receive(ProbePosts[probe.tick], ProbeReports[probe.tick])
      PROVE  OnlyProbe' /\ StopSought'
  <2> DEFINE post == ProbePosts[probe.tick]
  <2>0. post \in Deliveries /\ post \in Processes /\ ProbeReports[probe.tick] \in Reports
    BY <1>1, ProbeRequests, ProbeOwn
  <2>1. /\ Begun(post) /\ pc'[post] # "idle" /\ loc'[post].report = ProbeReports[probe.tick] /\ row' = row
    BY <1>3, <2>0, ReceiveBegins DEF LiveBase
  <2>2. \A p \in Processes \ {post} : pc'[p] = pc[p] /\ loc'[p] = loc[p]
    BY <2>1 DEF Begun
  <2>3. \A p \in Processes : ~Busy(p)
    BY <1>1, <1>3, ProbeAlone
  <2>4. alone' = alone \cup {post}
    BY <1>3, <2>0, <2>3 DEF Receive, Begin
  <2>5. PostedAlone(probe.tick)'
    BY <1>0, <1>1, <2>1, <2>4 DEF PostedAlone
  <2>6. \A t \in 1 .. probe.tick - 1 : /\ t \in 1 .. Ticks /\ ProbePosts[t] # post /\ ProbePosts[t] \in Processes
                                       /\ ProbePosts[t] \in Deliveries
    BY <1>1, ProbeOwn
  <2>7. \A t \in 1 .. probe.tick - 1 : pc'[ProbePosts[t]] = "acked" /\ PostedAlone(t)'
    BY <1>3, <2>2, <2>4, <2>6 DEF OnlyProbe, PostedAlone
  <2>8. post # Creator /\ post # ProbeStop /\ pc'[Creator] = pc[Creator] /\ pc'[ProbeStop] = pc[ProbeStop]
    BY <2>0, <2>2, ProbeOwn
  <2>9. pc'[post] # "idle"
    BY <2>1
  <2> HIDE DEF post
  <2>10. ASSUME NEW p \in Processes, pc'[p] # "idle"
         PROVE  p = Creator \/ \E t \in 1 .. probe.tick : p = ProbePosts[t]
    <3>1. CASE p = post
      BY <1>1, <3>1 DEF post
    <3>2. CASE p # post
      BY <1>3, <2>2, <2>10, <3>2 DEF OnlyProbe
    <3> QED  BY <3>1, <3>2
  <2>11. OnlyProbe'
    <3>1. pc'[Creator] = "acked"
      BY <1>3, <2>8 DEF OnlyProbe
    <3>2. pc'[ProbePosts[probe.tick]] # "idle"
      BY <2>9 DEF post
    <3> QED  BY <1>0, <1>3, <2>5, <2>7, <2>10, <3>1, <3>2 DEF OnlyProbe
  <2>12. StopSought'
    BY <1>0, <1>1, <1>3, <2>8, ProbeAlone DEF StopSought
  <2> QED  BY <2>11, <2>12
<1>4. ASSUME probe.pc = "stop", StopSession(ProbeStop) PROVE OnlyProbe' /\ StopSought'
  <2>1. /\ Begun(ProbeStop) /\ (row = None => row' = None)
        /\ row # None => row' # None /\ row'.status = "stopped"
    BY <1>4, StopBegins, ProbeAssumption DEF LiveBase
  <2>2. \A p \in Processes \ {ProbeStop} : pc'[p] = pc[p]
    BY <2>1 DEF Begun
  <2>3. pc'[ProbeStop] # "idle"
    BY <2>1 DEF Begun, PlacesOf, ReportPcs, StopPcs, CreatePcs, Over
  <2>4. \A p \in Processes : Busy(p)' => Busy(p) \/ p = ProbeStop
    BY <2>2 DEF Busy
  <2>5. OnlyProbe'
    <3>1. \A p \in Processes : pc'[p] # "idle" =>
             \/ p = Creator
             \/ p = ProbeStop /\ probe.pc \in {"stop", "over"}
             \/ \E t \in 1 .. probe.tick : p = ProbePosts[t]
      BY <1>4, <2>2 DEF OnlyProbe
    <3>2. \A p \in Processes : Busy(p)' => p \in probe.lost \cup {ProbeStop}
      BY <1>4, <2>4 DEF OnlyProbe
    <3> QED  BY <1>0, <1>4, <3>1, <3>2 DEF OnlyProbe
  <2>6. StopSought'
    BY <1>0, <1>4, <2>1, <2>3 DEF StopSought
  <2> QED  BY <2>5, <2>6
<1> QED  BY <1>2, <1>3, <1>4

LEMMA ProbeKeeps ==
    ASSUME LiveBase, user = "probe", OnlyProbe, StopSought,
           probe.result # None => probe.result = Profile, ProbeStep
    PROVE  OnlyProbe' /\ StopSought' /\ (probe'.result # None => probe'.result = Profile)
<1>1. ProbeShaped /\ probe.tick \in 1 .. Ticks /\ (probe.tick < Ticks => probe.tick + 1 \in 1 .. Ticks)
  BY TicksType DEF LiveBase, ProbeShaped
<1>2. ASSUME NEW place, NEW tick1 \in 1 .. Ticks, NEW session1, NEW waiting1, NEW lost1,
             Becomes(place, tick1, session1, waiting1, lost1, probe.result)
      PROVE  probe'.result # None => probe'.result = Profile
  BY <1>2, BecomesFields
<1>3. CASE ProbeStarts
  <2>1. Becomes("create", probe.tick, probe.session, FALSE, probe.lost, probe.result)
    BY <1>1, <1>3, ProbeRecords
  <2>2. probe.pc = "idle" /\ UNCHANGED vars
    BY <1>3 DEF ProbeStarts, ProbeAt
  <2> QED  BY <1>1, <1>2, <2>1, <2>2, QuietProbe
<1>4. CASE ProbeSendsCreate
  <2>0. probe.pc = "create" /\ ~probe.waiting
    BY <1>4 DEF ProbeSendsCreate, ProbeAt
  <2>1. CASE probe.gateway
    <3>1. Becomes(probe.pc, probe.tick, probe.session, TRUE, probe.lost, probe.result) /\ InsertSession
      BY <1>1, <1>4, <2>1, ProbeRecords DEF ProbeSendsCreate
    <3> QED  BY <1>1, <1>2, <2>0, <3>1, SendProbe
  <2>2. CASE ~probe.gateway
    <3>1. Becomes("over", probe.tick, probe.session, FALSE, probe.lost, probe.result) /\ UNCHANGED vars
      BY <1>1, <1>4, <2>2, ProbeRecords DEF ProbeSendsCreate
    <3> QED  BY <1>1, <1>2, <2>0, <3>1, QuietProbe
  <2> QED  BY <2>1, <2>2
<1>5. CASE ProbeCreated
  <2>0. probe.pc = "create" /\ UNCHANGED vars
    BY <1>5 DEF ProbeCreated, ProbeAt
  <2>1. CASE pc[Creator] = "acked"
    <3>1. Becomes("post", probe.tick, TRUE, FALSE, probe.lost, probe.result)
      BY <1>1, <1>5, <2>1, ProbeRecords
    <3> QED  BY <1>1, <1>2, <2>0, <2>1, <3>1, QuietProbe
  <2>2. CASE pc[Creator] # "acked"
    <3>1. Becomes("over", probe.tick, probe.session, FALSE, probe.lost \cup {Creator}, probe.result)
      BY <1>1, <1>5, <2>2, ProbeRecords
    <3> QED  BY <1>1, <1>2, <2>0, <3>1, QuietProbe
  <2> QED  BY <2>1, <2>2
<1>6. CASE ProbeSends
  <2>1. Becomes(probe.pc, probe.tick, probe.session, TRUE, probe.lost, probe.result)
    BY <1>1, <1>6, ProbeRecords
  <2>2. probe.pc = "post" /\ ~probe.waiting /\ Receive(ProbePosts[probe.tick], ProbeReports[probe.tick])
    BY <1>6 DEF ProbeSends, ProbeAt
  <2> QED  BY <1>1, <1>2, <2>1, <2>2, SendProbe
<1>7. CASE ProbePosted
  <2>0. /\ probe.pc = "post" /\ probe.waiting /\ UNCHANGED vars
        /\ pc[ProbePosts[probe.tick]] \in {"acked", "failed"}
    BY <1>7 DEF ProbePosted, ProbeAt, Over
  <2>1. \A p \in Processes : ~Busy(p)
    BY <1>1, <2>0, ProbeAlone DEF Busy, Over
  <2>2. CASE pc[ProbePosts[probe.tick]] = "failed"
    <3>1. Becomes("stop", probe.tick, probe.session, FALSE, probe.lost, probe.result)
      BY <1>1, <1>7, <2>2, ProbeRecords
    <3> QED  BY <1>1, <1>2, <2>0, <2>1, <3>1, QuietProbe
  <2>3. CASE pc[ProbePosts[probe.tick]] = "acked" /\ probe.tick < Ticks
    <3>1. Becomes("post", probe.tick + 1, probe.session, FALSE, probe.lost, probe.result)
      BY <1>1, <1>7, <2>3, ProbeRecords
    <3> QED  BY <1>1, <1>2, <2>0, <2>3, <3>1, QuietProbe
  <2>4. CASE pc[ProbePosts[probe.tick]] = "acked" /\ ~(probe.tick < Ticks)
    <3>1. Becomes("read", probe.tick, probe.session, FALSE, probe.lost, probe.result)
      BY <1>1, <1>7, <2>4, ProbeRecords
    <3>2. probe.tick = Ticks
      BY <1>1, <2>4, TicksType
    <3> QED  BY <1>1, <1>2, <2>0, <2>4, <3>1, <3>2, QuietProbe
  <2> QED  BY <2>0, <2>2, <2>3, <2>4
<1>8. CASE ProbeReads
  <2>0. probe.pc = "read" /\ UNCHANGED vars
    BY <1>8 DEF ProbeReads, ProbeAt
  <2>1. Becomes("stop", probe.tick, probe.session, probe.waiting, probe.lost, Shown)
    BY <1>1, <1>8, ProbeBecomes DEF ProbeReads, Shown
  <2>2. \A p \in Processes : ~Busy(p)
    BY <1>1, <2>0, ProbeAlone
  <2>3. ~probe.waiting
    BY <2>0 DEF OnlyProbe
  <2>4. OnlyProbe' /\ StopSought'
    BY <1>1, <2>0, <2>1, <2>2, <2>3, QuietProbe
  <2>5. probe'.result = Shown
    BY <1>1, <2>1, BecomesFields
  <2>6. Shown = Profile
    BY <2>0, ProbeMeasures
  <2> QED  BY <2>4, <2>5, <2>6
<1>9. CASE ProbeFails
  <2> DEFINE lost1 == IF ~probe.waiting THEN probe.lost
                      ELSE probe.lost \cup {IF ProbeAt("create") THEN Creator ELSE ProbePosts[probe.tick]}
  <2>0. probe.pc \in {"create", "post", "read"} /\ UNCHANGED vars
    BY <1>9 DEF ProbeFails
  <2>1. Becomes(RaisesFrom(probe.pc), probe.tick, probe.session, FALSE, lost1, probe.result)
    BY <1>1, <1>9, ProbeRecords
  <2>2. probe.lost \subseteq lost1 /\ RaisesFrom(probe.pc) = IF probe.pc = "create" THEN "over" ELSE "stop"
    BY DEF RaisesFrom
  <2>3. probe.pc = "create" => Creator \in lost1 \/ ~probe.waiting
    BY DEF ProbeAt
  <2>4. probe.pc # "create" => \A p \in Processes : Busy(p) => p \in lost1
    BY <1>1, <2>0, ProbeAlone DEF ProbeAt
  <2> HIDE DEF lost1
  <2>5. CASE probe.pc = "create"
    BY <1>1, <1>2, <2>0, <2>1, <2>2, <2>3, <2>5, QuietProbe
  <2>6. CASE probe.pc # "create"
    BY <1>1, <1>2, <2>0, <2>1, <2>2, <2>4, <2>6, QuietProbe
  <2> QED  BY <2>5, <2>6
<1>10. CASE ProbeSendsStop
  <2>1. Becomes(probe.pc, probe.tick, probe.session, TRUE, probe.lost, probe.result)
    BY <1>1, <1>10, ProbeRecords
  <2>2. probe.pc = "stop" /\ StopSession(ProbeStop)
    BY <1>10 DEF ProbeSendsStop, ProbeAt
  <2> QED  BY <1>1, <1>2, <2>1, <2>2, SendProbe
<1>11. CASE ProbeStopped
  <2>0. probe.pc = "stop" /\ UNCHANGED vars
    BY <1>11 DEF ProbeStopped, ProbeAt
  <2>1. CASE probe.waiting /\ pc[ProbeStop] \in Over
    <3>1. Becomes("over", probe.tick, probe.session, FALSE, probe.lost, probe.result)
      BY <1>1, <1>11, <2>1, ProbeRecords
    <3>2. pc[ProbeStop] # "idle"
      BY <2>1 DEF Over
    <3> QED  BY <1>1, <1>2, <2>0, <3>1, <3>2, QuietProbe
  <2>2. CASE ~(probe.waiting /\ pc[ProbeStop] \in Over)
    <3>1. Becomes("over", probe.tick, probe.session, FALSE, probe.lost \cup {ProbeStop}, probe.result)
      BY <1>1, <1>11, <2>2, ProbeRecords
    <3> QED  BY <1>1, <1>2, <2>0, <3>1, QuietProbe
  <2> QED  BY <2>1, <2>2
<1> QED  BY <1>3, <1>4, <1>5, <1>6, <1>7, <1>8, <1>9, <1>10, <1>11 DEF ProbeStep

LEMMA NextProbe == LiveBase /\ ProbeInv /\ [LiveNext]_liveVars => ProbeInv'
<1> SUFFICES ASSUME LiveBase, ProbeInv, [LiveNext]_liveVars PROVE ProbeInv'
  OBVIOUS
<1>1. user' = user
  BY DEF LiveNext, ServerMoves, Smoking, Probing, Simulating, Retaining, liveVars
<1> SUFFICES ASSUME user = "probe"
             PROVE  OnlyProbe' /\ StopSought' /\ (probe'.result # None => probe'.result = Profile)
  BY <1>1 DEF ProbeInv
<1>2. OnlyProbe /\ StopSought /\ (probe.result # None => probe.result = Profile) /\ ProbeShaped
  BY DEF ProbeInv, LiveBase
<1>3. CASE ServerMoves
  <2>1. PICK p \in Processes : ServerStep(p) \/ Broadcast(p)
    BY <1>3 DEF ServerMoves
  <2>2. Handles(p)
    BY <2>1, ServerHandles DEF LiveBase
  <2>3. probe' = probe
    BY <1>3 DEF ServerMoves
  <2> QED  BY <1>2, <2>2, <2>3, ServerProbe
<1>4. CASE Probing
  BY <1>2, <1>4, ProbeKeeps DEF Probing
<1>5. CASE UNCHANGED liveVars
  <2>1. UNCHANGED <<vars, probe>>
    BY <1>5 DEF liveVars
  <2>2. UNCHANGED <<pc, loc, alone, row, probe>>
    BY <2>1 DEF vars
  <2>3. OnlyProbe'
    BY <1>2, <2>2 DEF OnlyProbe, PostedAlone, Busy
  <2>4. StopSought'
    BY <1>2, <2>2 DEF StopSought
  <2> QED  BY <1>2, <2>2, <2>3, <2>4
<1> QED  BY <1>3, <1>4, <1>5 DEF LiveNext, Smoking, Simulating, Retaining

LEMMA LiveProbes == LiveSpec => [](LiveBase /\ ProbeInv)
<1>1. LiveInit => LiveBase
  BY LiveInitBase
<1>2. LiveInit => ProbeInv
  <2> SUFFICES ASSUME LiveInit PROVE OnlyProbe /\ StopSought /\ probe.result = None
    BY DEF ProbeInv
  <2>1. PICK gateway \in Gateways :
            probe = [pc |-> "idle", tick |-> 1, gateway |-> gateway, session |-> FALSE,
                     waiting |-> FALSE, lost |-> {}, result |-> None]
    BY DEF LiveInit, ProbeInit
  <2>2. probe.pc = "idle" /\ probe.tick = 1 /\ probe.result = None
    BY <2>1
  <2>3. \A p \in Processes : pc[p] = "idle"
    BY DEF LiveInit, Init
  <2> QED  BY <2>2, <2>3, ProbeOwn DEF OnlyProbe, StopSought
<1>3. LiveBase /\ ProbeInv /\ [LiveNext]_liveVars => (LiveBase /\ ProbeInv)'
  BY NextBase, NextProbe
<1> QED  BY <1>1, <1>2, <1>3, PTL DEF LiveSpec

\* A probe that reads a result has had every report of its run answered and no other
\* request beside them, so the server shows a snapshot for each tick and the one event
\* of those that have one: what run_profile of run_capacity_smoke.py compares with its
\* estimate, for any number of ticks and wherever its requests fail or time out.
THEOREM LiveProbeMeasures == LiveSpec => []ProbeMeasuresEstimate
<1>1. LiveBase /\ ProbeInv => ProbeMeasuresEstimate
  <2>1. user # "probe" /\ LiveBase => probe.result = None
    BY DEF LiveBase
  <2> QED  BY <2>1 DEF ProbeInv, ProbeMeasuresEstimate
<1> QED  BY <1>1, LiveProbes, PTL

\* The stop in the finally block of the probe misses its session only when the id was
\* never learned, the stop itself was lost or refused, or a report that the probe had
\* given up wrote the row after it.
THEOREM LiveProbeStops == LiveSpec => []LeftRunningOnlyByLoss
<1>1. LiveBase /\ ProbeInv => LeftRunningOnlyByLoss
  <2>1. LiveBase /\ probe.pc = "over" => user = "probe"
    BY DEF LiveBase
  <2> QED  BY <2>1 DEF ProbeInv, StopSought, LeftRunningOnlyByLoss
<1> QED  BY <1>1, LiveProbes, PTL
-----------------------------------------------------------------------------
(* What the result of a smoke check says.                                  *)

\* What a handler hands to the hub.
Letters == [type : RequiredBattleWsEvents, by : Processes, of : Times \cup EventIds \cup RowNames \cup {None}]

SmokeShaped == /\ smoke = [at |-> smoke.at, ok |-> smoke.ok, cookie |-> smoke.cookie, session |-> smoke.session,
                           ws |-> smoke.ws, waiting |-> smoke.waiting, heard |-> smoke.heard,
                           early |-> smoke.early, troubled |-> smoke.troubled]
               /\ smoke.at \in Nat /\ smoke.heard \subseteq Letters

\* The rows of the report are in the tables in its version.
ReportStays == \A k \in Kinds : \A n \in Payload[SmokeReport].rows[k] : current[k][n] = SmokeReport

\* The report of the smoke check comes alone, after the session was made, and is the first
\* to name its event.
ReportHolds ==
    /\ \A p \in Processes : pc[p] # "idle" => p \in {Creator, SmokePost}
    /\ row # None => row.status = "running"
    /\ pc[SmokePost] # "idle" => /\ pc[Creator] = "acked" /\ row # None
                                 /\ SmokePost \in alone /\ loc[SmokePost].report = SmokeReport
    /\ pc[SmokePost] \in {"idle", "targets", "units", "projectiles", "events"} => events \cap EventIds = {}
    /\ pc[SmokePost] \in {"scan", "session", "lists", "append", "insert", "broadcast", "acked"} =>
          loc[SmokePost].inserted = Payload[SmokeReport].events
    /\ pc[SmokePost] \in {"append", "insert", "broadcast", "acked"} => ReportStays

\* What was published is what was sent: the state by the creation of the session, and a
\* message of each type by the report.
SentHolds ==
    /\ published \in Seq(Letters) /\ sent \subseteq Letters
    /\ \A i \in 1 .. Len(published) : published[i] \in sent
    /\ \A m \in sent : \/ m.by = Creator /\ m.type = "battle_state_updated"
                       \/ m.by = SmokePost /\ pc[SmokePost] = "acked"
    /\ \A m, n \in sent : m.by = SmokePost /\ n.by = SmokePost /\ m.type = n.type => m = n
    /\ pc[SmokePost] = "acked" => \A type \in RequiredBattleWsEvents :
          \E i \in 1 .. Len(published) : published[i].by = SmokePost /\ published[i].type = type

\* The connection gets what is published from some place on, and the script keeps a
\* message of each type that came.
FeedHolds ==
    /\ start \in [{Connection} -> Int] /\ received \in [{Connection} -> Seq(Letters)]
    /\ start[Connection] = HubOrder!NotJoined => received[Connection] = <<>>
    /\ start[Connection] # HubOrder!NotJoined =>
          /\ start[Connection] \in Nat
          /\ start[Connection] + Len(received[Connection]) <= Len(published)
          /\ \A i \in 1 .. Len(received[Connection]) :
                received[Connection][i] = published[start[Connection] + i]
    /\ \A m \in smoke.heard : \E i \in 1 .. Len(received[Connection]) : received[Connection][i] = m
    /\ \A i \in 1 .. Len(received[Connection]) : \E m \in smoke.heard : m.type = received[Connection][i].type

\* What the script has when nothing went wrong, and what a failed check means then.
ScriptHolds ==
    /\ SmokeShaped
    /\ smoke.session => pc[Creator] = "acked"
    /\ smoke.ok => ~smoke.troubled
    /\ smoke.waiting => smoke.at \in {4, 6}
    /\ ~smoke.troubled =>
          /\ smoke.at >= 3 => smoke.cookie
          /\ smoke.at >= 5 => smoke.session
          /\ smoke.at >= 6 => smoke.ws
          /\ smoke.at = 6 /\ smoke.waiting => smoke.early
          /\ smoke.at >= 7 => smoke.early /\ pc[SmokePost] = "acked"
          /\ smoke.at >= 8 /\ smoke.ok => HeardAll /\ WithTargets
          /\ ~smoke.ok => smoke.at >= 8 /\ (Late \/ ~WithTargets)

SmokeInv == user = "smoke" => ReportHolds /\ SentHolds /\ FeedHolds /\ ScriptHolds

LEMMA SmokeOwn ==
    /\ SmokePost \in Processes /\ SmokePost \in Deliveries /\ SmokePost \notin Stops
    /\ Creator \in Processes /\ Creator \notin Deliveries /\ Creator \notin Stops /\ Creator # SmokePost
    /\ SmokeReport \in Reports /\ Payload[SmokeReport].state /\ Payload[SmokeReport].status = "running"
    /\ Creator \notin EventIds
    /\ \E e \in EventIds : Payload[SmokeReport].events = {e}
    /\ \E n \in RowNames : Payload[SmokeReport].rows["projectiles"] = {n}
    /\ \A k \in Kinds : Payload[SmokeReport].rows[k] # {} /\ Payload[SmokeReport].rows[k] \subseteq RowNames
<1>1. Payload[SmokeReport] \in Payloads
  BY SmokeAssumption, PayloadAssumption
<1> QED  BY <1>1, SmokeAssumption, RequestAssumption DEF Processes, Payloads

\* What a step of the server with the report of the smoke check writes.
LEMMA PostWrites ==
    ASSUME ServerStep(SmokePost) \/ Broadcast(SmokePost), Served,
           Busy(SmokePost), pc[Creator] = "acked", loc[SmokePost].report = SmokeReport
    PROVE  /\ pc'[SmokePost] \in {"targets", "units", "projectiles", "events"} =>
                 pc[SmokePost] \in {"targets", "units", "projectiles"} /\ events' = events
           /\ pc'[SmokePost] \in {"scan", "session", "lists", "append", "insert", "broadcast", "acked"} =>
                 \/ /\ pc[SmokePost] = "events"
                    /\ loc'[SmokePost].inserted = Payload[SmokeReport].events \ events
                 \/ /\ pc[SmokePost] \in {"scan", "session", "lists", "append", "insert", "broadcast"}
                    /\ loc'[SmokePost].inserted = loc[SmokePost].inserted
           /\ pc'[SmokePost] \in {"append", "insert", "broadcast", "acked"} =>
                 pc[SmokePost] \in {"lists", "append", "insert", "broadcast"} /\ current' = current
<1> USE SmokeOwn
<1>1. /\ Shaped(loc[SmokePost]) /\ loc = [q \in Processes |-> loc[q]] /\ pc = [q \in Processes |-> pc[q]]
      /\ pc[SmokePost] \in ReportPcs
  BY DEF Served, Handled, PlacesOf, Busy
<1>2. ASSUME NEW place, Goto(SmokePost, place) PROVE pc'[SmokePost] = place
  BY <1>1, <1>2 DEF Goto
<1>3. ASSUME NEW locals, loc' = [loc EXCEPT ![SmokePost] = locals] PROVE loc'[SmokePost] = locals
  BY <1>1, <1>3
<1>4. ASSUME UNCHANGED loc PROVE loc'[SmokePost].inserted = loc[SmokePost].inserted
  BY <1>4
<1> DEFINE after == {"scan", "session", "lists", "append", "insert", "broadcast"}
           first == pc'[SmokePost] \in {"targets", "units", "projectiles", "events"} =>
                       pc[SmokePost] \in {"targets", "units", "projectiles"} /\ events' = events
           second == pc'[SmokePost] \in after \cup {"acked"} =>
                 \/ /\ pc[SmokePost] = "events"
                    /\ loc'[SmokePost].inserted = Payload[SmokeReport].events \ events
                 \/ pc[SmokePost] \in after /\ loc'[SmokePost].inserted = loc[SmokePost].inserted
           third == pc'[SmokePost] \in {"append", "insert", "broadcast", "acked"} =>
                 pc[SmokePost] \in {"lists", "append", "insert", "broadcast"} /\ current' = current
<1>5. CASE InsertOwnEvent(SmokePost, "stopEvent")
  BY <1>1, <1>5 DEF InsertOwnEvent, ReportPcs
<1>6. CASE Fail(SmokePost)
  <2>1. pc'[SmokePost] = "failed"
    BY <1>2, <1>6 DEF Fail
  <2> QED  BY <2>1
<1>7. CASE UpsertRadarTargets(SmokePost) \/ UpsertBattleUnits(SmokePost) \/ UpsertBattleProjectiles(SmokePost)
  <2>1. CASE Fail(SmokePost)
    BY <1>6, <2>1
  <2>2. CASE ~Fail(SmokePost)
    <3>1. PICK k \in Kinds, next \in {"units", "projectiles", "events"} : Upsert(SmokePost, k, next)
      BY <1>7, <2>2 DEF UpsertRadarTargets, UpsertBattleUnits, UpsertBattleProjectiles, Kinds
    <3>2. pc'[SmokePost] = next /\ pc[SmokePost] = k /\ events' = events
      BY <1>2, <3>1 DEF Upsert
    <3> QED  BY <3>2 DEF Kinds
  <2> QED  BY <2>1, <2>2
<1>8. CASE CreateBattleEvents(SmokePost)
  <2> DEFINE locals == [loc[SmokePost] EXCEPT !.inserted = Payload[loc[SmokePost].report].events \ events]
  <2>1. loc' = [loc EXCEPT ![SmokePost] = locals] /\ pc'[SmokePost] = "scan" /\ pc[SmokePost] = "events"
    BY <1>2, <1>8 DEF CreateBattleEvents
  <2>2. locals.inserted = Payload[SmokeReport].events \ events
    BY <1>1 DEF Shaped
  <2> HIDE DEF locals
  <2>3. loc'[SmokePost].inserted = Payload[SmokeReport].events \ events
    BY <1>3, <2>1, <2>2
  <2> QED  BY <2>1, <2>3
<1>9. CASE UpdateBattleSessionScan(SmokePost)
  <2>1. pc'[SmokePost] = "session" /\ pc[SmokePost] = "scan" /\ UNCHANGED loc
    BY <1>2, <1>9 DEF UpdateBattleSessionScan
  <2> QED  BY <1>4, <2>1
<1>10. CASE ReadSession(SmokePost)
  <2> DEFINE locals == [loc[SmokePost] EXCEPT !.time = IF row.scan # None THEN row.scan ELSE row.updatedAt]
  <2>1. loc' = [loc EXCEPT ![SmokePost] = locals] /\ pc'[SmokePost] = "lists" /\ pc[SmokePost] = "session"
    BY <1>2, <1>10 DEF ReadSession
  <2>2. locals.inserted = loc[SmokePost].inserted
    BY <1>1 DEF Shaped
  <2> HIDE DEF locals
  <2>3. loc'[SmokePost].inserted = loc[SmokePost].inserted
    BY <1>3, <2>1, <2>2
  <2> QED  BY <2>1, <2>3
<1>11. CASE ReadLists(SmokePost)
  <2> DEFINE locals == [loc[SmokePost] EXCEPT !.of = current]
  <2>1. /\ loc' = [loc EXCEPT ![SmokePost] = locals] /\ pc'[SmokePost] = "append"
        /\ pc[SmokePost] = "lists" /\ current' = current
    BY <1>2, <1>11 DEF ReadLists, tables
  <2>2. locals.inserted = loc[SmokePost].inserted
    BY <1>1 DEF Shaped
  <2> HIDE DEF locals
  <2>3. loc'[SmokePost].inserted = loc[SmokePost].inserted
    BY <1>3, <2>1, <2>2
  <2> QED  BY <2>1, <2>3
<1>12. ASSUME SnapshotOver(SmokePost) PROVE loc'[SmokePost].inserted = loc[SmokePost].inserted
  <2> DEFINE locals == [loc[SmokePost] EXCEPT !.of = NoTables, !.tick = 0]
  <2>1. loc' = [loc EXCEPT ![SmokePost] = locals]
    BY <1>1, <1>12 DEF SnapshotOver
  <2>2. locals.inserted = loc[SmokePost].inserted
    BY <1>1 DEF Shaped
  <2> HIDE DEF locals
  <2> QED  BY <1>3, <2>1, <2>2
<1>13. CASE LockSession(SmokePost)
  <2> DEFINE locals == [loc[SmokePost] EXCEPT !.tick = NextTick]
  <2>1. pc[SmokePost] = "append" /\ current' = current /\ pc'[SmokePost] \in {"broadcast", "insert"}
    BY <1>2, <1>13 DEF LockSession
  <2>2. locals.inserted = loc[SmokePost].inserted
    BY <1>1 DEF Shaped
  <2>3. SnapshotOver(SmokePost) \/ loc' = [loc EXCEPT ![SmokePost] = locals]
    BY <1>13 DEF LockSession
  <2> HIDE DEF locals
  <2>4. loc'[SmokePost].inserted = loc[SmokePost].inserted
    BY <1>3, <1>12, <2>2, <2>3
  <2> QED  BY <2>1, <2>4
<1>14. CASE InsertSnapshot(SmokePost)
  <2>1. pc[SmokePost] = "insert" /\ current' = current /\ pc'[SmokePost] = "broadcast" /\ SnapshotOver(SmokePost)
    BY <1>2, <1>14 DEF InsertSnapshot
  <2> QED  BY <1>12, <2>1
<1>15. CASE Broadcast(SmokePost)
  <2> DEFINE locals == [NoLocals EXCEPT !.report = loc[SmokePost].report, !.inserted = loc[SmokePost].inserted]
  <2>1. /\ loc' = [loc EXCEPT ![SmokePost] = locals] /\ pc'[SmokePost] = "acked"
        /\ pc[SmokePost] = "broadcast" /\ current' = current
    BY <1>2, <1>15 DEF Broadcast, tables
  <2>2. locals.inserted = loc[SmokePost].inserted
    BY DEF NoLocals
  <2> HIDE DEF locals
  <2>3. loc'[SmokePost].inserted = loc[SmokePost].inserted
    BY <1>3, <2>1, <2>2
  <2> QED  BY <2>1, <2>3
<1>16. first /\ second /\ third
  BY <1>5, <1>6, <1>7, <1>8, <1>9, <1>10, <1>11, <1>13, <1>14, <1>15 DEF ServerStep
<1> QED  BY <1>16

\* A step of the server before its answer sends nothing; a stop of a session that is
\* stopped answers with what it read.
LEMMA ServerSends ==
    ASSUME Served, NEW p \in Processes, ServerStep(p)
    PROVE  sent' = sent /\ (p \notin Stops => pc'[p] # "acked")
<1>1. pc = [q \in Processes |-> pc[q]]
  BY DEF Served
<1>2. ASSUME NEW place, Goto(p, place) PROVE pc'[p] = place
  BY <1>1, <1>2 DEF Goto
<1>3. CASE Fail(p)
  BY <1>2, <1>3 DEF Fail
<1>4. CASE ~Fail(p) /\ (UpsertRadarTargets(p) \/ UpsertBattleUnits(p) \/ UpsertBattleProjectiles(p))
  <2>1. PICK k \in Kinds, next \in {"units", "projectiles", "events", "scan"} : Upsert(p, k, next)
    BY <1>4 DEF UpsertRadarTargets, UpsertBattleUnits, UpsertBattleProjectiles, Kinds
  <2> QED  BY <1>2, <2>1 DEF Upsert
<1>5. CASE \/ InsertOwnEvent(p, IF p = Creator THEN "startEvent" ELSE "stopEvent")
           \/ CreateBattleEvents(p) \/ UpdateBattleSessionScan(p)
  BY <1>2, <1>5 DEF InsertOwnEvent, CreateBattleEvents, UpdateBattleSessionScan
<1>6. CASE ReadSession(p) \/ ReadLists(p)
  BY <1>2, <1>6 DEF ReadSession, ReadLists
<1>7. CASE LockSession(p) \/ InsertSnapshot(p) \/ StopSnapshotFails(p)
  BY <1>2, <1>7 DEF LockSession, InsertSnapshot, StopSnapshotFails
<1>8. CASE p \in Stops /\ RereadState(p)
  BY <1>8 DEF RereadState
<1> QED  BY <1>3, <1>4, <1>5, <1>6, <1>7, <1>8 DEF ServerStep

LEMMA ServerReport ==
    ASSUME LiveBase, user = "smoke", ReportHolds, NEW p \in Processes, ServerStep(p) \/ Broadcast(p)
    PROVE  ReportHolds' /\ p \in {Creator, SmokePost}
<1>1. Handles(p) /\ Served /\ LoneInv
  BY ServerHandles DEF LiveBase
<1>2. /\ Busy(p) /\ pc[p] \notin {"idle", "acked", "failed"} /\ pc'[p] # "idle"
      /\ \A q \in Processes \ {p} : pc'[q] = pc[q]
      /\ \A q \in Processes : loc'[q].report = loc[q].report
      /\ alone' = alone
  BY <1>1 DEF Handles, Busy, Over, PlacesOf, ReportPcs, StopPcs, CreatePcs
<1>3. p \in {Creator, SmokePost}
  BY <1>2 DEF ReportHolds
<1>4. /\ \A q \in Processes : pc'[q] # "idle" => q \in {Creator, SmokePost}
      /\ row' # None <=> row # None
  BY <1>1, <1>2, <1>3 DEF ReportHolds, Handles, Scans
<1>5. CASE p = Creator
  <2>1. pc[SmokePost] = "idle" /\ pc'[SmokePost] = "idle"
    BY <1>2, <1>5, SmokeOwn DEF ReportHolds
  <2>2. row' = row
    BY <1>1, <1>5, SmokeOwn DEF Handles, Scans
  <2>3. events' \subseteq events \cup {Creator}
    <3>1. pc[Creator] \in CreatePcs
      BY <1>1, <1>2, <1>5, SmokeOwn DEF Served, Handled, PlacesOf, Over
    <3>2. pc[Creator] \notin {"events", "stopEvent"}
      BY <3>1 DEF CreatePcs
    <3> QED  BY <1>5, <3>2 DEF ServerStep, InsertOwnEvent, UpsertRadarTargets, UpsertBattleUnits,
                UpsertBattleProjectiles, Upsert, Fail, CreateBattleEvents, UpdateBattleSessionScan,
                ReadSession, ReadLists, LockSession, InsertSnapshot, StopSnapshotFails, RereadState, Broadcast, tables
  <2>4. events' \cap EventIds = {}
    BY <2>1, <2>3, SmokeOwn DEF ReportHolds
  <2> QED  BY <1>3, <1>4, <2>1, <2>2, <2>4 DEF ReportHolds
<1>6. CASE p = SmokePost
  <2>1. /\ pc[Creator] = "acked" /\ row # None /\ SmokePost \in alone
        /\ loc[SmokePost].report = SmokeReport /\ row.status = "running"
    BY <1>2, <1>6 DEF ReportHolds
  <2>2. pc'[Creator] = "acked" /\ pc'[SmokePost] # "idle" /\ SmokePost \in alone'
        /\ loc'[SmokePost].report = SmokeReport
    BY <1>2, <1>6, <2>1, SmokeOwn
  <2>3. row'.status = "running"
    BY <1>1, <1>6, <2>1, SmokeOwn DEF Handles, Scans
  <2>4. /\ pc'[SmokePost] \in {"targets", "units", "projectiles", "events"} =>
              pc[SmokePost] \in {"targets", "units", "projectiles"} /\ events' = events
        /\ pc'[SmokePost] \in {"scan", "session", "lists", "append", "insert", "broadcast", "acked"} =>
              \/ /\ pc[SmokePost] = "events"
                 /\ loc'[SmokePost].inserted = Payload[SmokeReport].events \ events
              \/ /\ pc[SmokePost] \in {"scan", "session", "lists", "append", "insert", "broadcast"}
                 /\ loc'[SmokePost].inserted = loc[SmokePost].inserted
        /\ pc'[SmokePost] \in {"append", "insert", "broadcast", "acked"} =>
              pc[SmokePost] \in {"lists", "append", "insert", "broadcast"} /\ current' = current
    BY <1>1, <1>2, <1>6, <2>1, PostWrites
  <2>5. pc'[SmokePost] \in {"idle", "targets", "units", "projectiles", "events"} => events' \cap EventIds = {}
    BY <2>2, <2>4 DEF ReportHolds
  <2>6. pc'[SmokePost] \in {"scan", "session", "lists", "append", "insert", "broadcast", "acked"} =>
          loc'[SmokePost].inserted = Payload[SmokeReport].events
    <3>1. pc[SmokePost] = "events" => Payload[SmokeReport].events \ events = Payload[SmokeReport].events
      BY SmokeOwn DEF ReportHolds
    <3>2. pc[SmokePost] \in {"scan", "session", "lists", "append", "insert", "broadcast"} =>
             loc[SmokePost].inserted = Payload[SmokeReport].events
      BY DEF ReportHolds
    <3> QED  BY <2>4, <3>1, <3>2
  <2>7. pc'[SmokePost] \in {"append", "insert", "broadcast", "acked"} => ReportStays'
    <3>1. pc[SmokePost] = "lists" => ReportStays
      <4>1. LoneHolds(SmokePost)
        BY <1>1, SmokeOwn DEF LoneInv
      <4>2. AloneHolds(SmokePost)
        BY <1>2, <1>6, <2>1, <4>1 DEF LoneHolds
      <4>3. Written("lists") = Kinds
        BY DEF Written
      <4> QED  BY <2>1, <4>2, <4>3, SmokeOwn DEF AloneHolds, Names, ReportStays
    <3>2. pc[SmokePost] \in {"append", "insert", "broadcast"} => ReportStays
      BY DEF ReportHolds
    <3> QED  BY <2>4, <3>1, <3>2 DEF ReportStays
  <2> QED  BY <1>3, <1>4, <2>1, <2>2, <2>3, <2>5, <2>6, <2>7 DEF ReportHolds
<1> QED  BY <1>3, <1>5, <1>6

\* s has every element of S, and no other.
Tells(s, S) == s \in Seq(S) /\ \A x \in S : \E i \in 1 .. Len(s) : s[i] = x

LEMMA TellsOne ==
    ASSUME NEW S, \A x, y \in S : x = y PROVE Tells(SetToSeq(S), S)
<1>1. CASE S = {}
  <2>1. Cardinality(S) = 0
    BY <1>1, FS_EmptySet
  <2>2. \E f \in [1 .. 0 -> S] : IsInjective(f)
    <3>1. [i \in 1 .. 0 |-> i] \in [1 .. 0 -> S] /\ IsInjective([i \in 1 .. 0 |-> i])
      BY DEF IsInjective
    <3> QED  BY <3>1
  <2>3. SetToSeq(S) \in [1 .. 0 -> S]
    BY <2>1, <2>2 DEF SetToSeq
  <2> QED  BY <1>1, <2>3 DEF Tells
<1>2. CASE S # {}
  <2>1. PICK a : S = {a}
    BY <1>2
  <2>2. Cardinality(S) = 1
    BY <2>1, FS_Singleton
  <2>3. \E f \in [1 .. 1 -> S] : IsInjective(f)
    <3>1. [i \in 1 .. 1 |-> a] \in [1 .. 1 -> S] /\ IsInjective([i \in 1 .. 1 |-> a])
      BY <2>1 DEF IsInjective
    <3> QED  BY <3>1
  <2>4. SetToSeq(S) \in [1 .. 1 -> S]
    BY <2>2, <2>3 DEF SetToSeq
  <2>5. SetToSeq(S) \in Seq(S) /\ Len(SetToSeq(S)) = 1 /\ SetToSeq(S)[1] = a
    BY <2>1, <2>4
  <2>6. ASSUME NEW x \in S PROVE SetToSeq(S)[1] = x /\ 1 \in 1 .. Len(SetToSeq(S))
    BY <2>1, <2>5
  <2> QED  BY <2>5, <2>6, Zenon DEF Tells
<1> QED  BY <1>1, <1>2

LEMMA TellsBoth ==
    ASSUME NEW S, NEW T, NEW s, NEW t, Tells(s, S), Tells(t, T)
    PROVE  Tells(s \o t, S \cup T)
<1>1. s \in Seq(S \cup T) /\ t \in Seq(S \cup T) /\ Len(s) \in Nat /\ Len(t) \in Nat
  BY DEF Tells
<1>2. /\ s \o t \in Seq(S \cup T) /\ Len(s \o t) = Len(s) + Len(t)
      /\ \A i \in 1 .. Len(s) + Len(t) : (s \o t)[i] = IF i <= Len(s) THEN s[i] ELSE t[i - Len(s)]
  BY <1>1, ConcatProperties, Zenon
<1>3. ASSUME NEW x \in S PROVE \E i \in 1 .. Len(s \o t) : (s \o t)[i] = x
  <2>1. PICK i \in 1 .. Len(s) : s[i] = x
    BY DEF Tells
  <2>2. i \in 1 .. Len(s) + Len(t) /\ (s \o t)[i] = x
    BY <1>1, <1>2, <2>1
  <2> QED  BY <1>2, <2>2
<1>4. ASSUME NEW x \in T PROVE \E i \in 1 .. Len(s \o t) : (s \o t)[i] = x
  <2>1. PICK i \in 1 .. Len(t) : t[i] = x
    BY DEF Tells
  <2>2. Len(s) + i \in 1 .. Len(s) + Len(t) /\ (s \o t)[Len(s) + i] = x
    <3>1. Len(s) + i \in 1 .. Len(s) + Len(t) /\ ~(Len(s) + i <= Len(s)) /\ Len(s) + i - Len(s) = i
      BY <1>1
    <3> QED  BY <1>2, <2>1, <3>1
  <2> QED  BY <1>2, <2>2
<1> QED  BY <1>2, <1>3, <1>4 DEF Tells

\* A handler that has one message of a type at most publishes just what it sends.
LEMMA InOrderTells ==
    ASSUME NEW p, \A m \in Messages(p) : m.type \in RequiredBattleWsEvents,
           \A m, n \in Messages(p) : m.type = n.type => m = n
    PROVE  Tells(InOrder(p), Messages(p))
<1> DEFINE Of(type) == {m \in Messages(p) : m.type = type}
<1>1. /\ Tells(SetToSeq(Of("radar_scan_updated")), Of("radar_scan_updated"))
      /\ Tells(SetToSeq(Of("projectile_updated")), Of("projectile_updated"))
      /\ Tells(SetToSeq(Of("battle_event_created")), Of("battle_event_created"))
      /\ Tells(SetToSeq(Of("battle_state_updated")), Of("battle_state_updated"))
  BY TellsOne
<1>2. InOrder(p) = SetToSeq(Of("radar_scan_updated")) \o SetToSeq(Of("projectile_updated"))
                   \o SetToSeq(Of("battle_event_created")) \o SetToSeq(Of("battle_state_updated"))
  BY DEF InOrder
<1>3. Messages(p) = Of("radar_scan_updated") \cup Of("projectile_updated")
                    \cup Of("battle_event_created") \cup Of("battle_state_updated")
  BY DEF RequiredBattleWsEvents
<1> HIDE DEF Of
<1>4. Tells(SetToSeq(Of("radar_scan_updated")) \o SetToSeq(Of("projectile_updated")),
            Of("radar_scan_updated") \cup Of("projectile_updated"))
  BY <1>1, TellsBoth
<1>5. Tells(SetToSeq(Of("radar_scan_updated")) \o SetToSeq(Of("projectile_updated"))
            \o SetToSeq(Of("battle_event_created")),
            Of("radar_scan_updated") \cup Of("projectile_updated") \cup Of("battle_event_created"))
  BY <1>1, <1>4, TellsBoth
<1> QED  BY <1>1, <1>2, <1>3, <1>5, TellsBoth

\* The messages of the two requests of a smoke check.
LEMMA SmokeMessages ==
    ASSUME LiveBase, user = "smoke", ReportHolds, NEW p \in {Creator, SmokePost}, pc[p] = "broadcast"
    PROVE  /\ Messages(p) \subseteq Letters
           /\ \A m, n \in Messages(p) : m.type = n.type => m = n
           /\ p = Creator => \A m \in Messages(p) : m.by = Creator /\ m.type = "battle_state_updated"
           /\ p = SmokePost => /\ \A m \in Messages(p) : m.by = SmokePost
                               /\ \A type \in RequiredBattleWsEvents : \E m \in Messages(p) : m.type = type
<1> DEFINE letter(type, of) == [type |-> type, by |-> p, of |-> of]
<1>1. p \in Processes /\ loc[p].time \in Times \cup {None}
  <2>1. TypeOK
    BY DEF LiveBase, LoneInv, SessionInv
  <2>2. p \in Processes /\ loc[p] \in Locals
    BY <2>1, SmokeOwn DEF TypeOK
  <2> QED  BY <2>2 DEF Locals
<1>2. letter("battle_state_updated", loc[p].time) \in Letters
  BY <1>1 DEF Letters, RequiredBattleWsEvents
<1>3. CASE p = Creator
  <2>1. Messages(p) = {letter("battle_state_updated", loc[p].time)}
    BY <1>3, SmokeOwn DEF Messages
  <2> QED  BY <1>2, <1>3, <2>1, SmokeOwn
<1>4. CASE p = SmokePost
  <2>1. PICK e \in EventIds : Payload[SmokeReport].events = {e}
    BY SmokeOwn
  <2>2. PICK shot \in RowNames : Payload[SmokeReport].rows["projectiles"] = {shot}
    BY SmokeOwn
  <2>3. loc[p].report = SmokeReport /\ loc[p].inserted = {e}
    BY <1>4, <2>1 DEF ReportHolds
  <2>4. Messages(p) = {letter("radar_scan_updated", SmokeReport), letter("projectile_updated", shot),
                       letter("battle_event_created", e), letter("battle_state_updated", loc[p].time)}
    BY <1>4, <2>3, <2>2, SmokeOwn DEF Messages
  <2>5. /\ letter("radar_scan_updated", SmokeReport) \in Letters
        /\ letter("projectile_updated", shot) \in Letters
        /\ letter("battle_event_created", e) \in Letters
    BY <1>1, SmokeOwn DEF Letters, RequiredBattleWsEvents, Times
  <2>6. \A m \in Messages(p) : m.by = SmokePost
    BY <1>4, <2>4
  <2>7. \A m, n \in Messages(p) : m.type = n.type => m = n
    BY <2>4
  <2>8. \A type \in RequiredBattleWsEvents : \E m \in Messages(p) : m.type = type
    BY <2>4 DEF RequiredBattleWsEvents
  <2>9. Messages(p) \subseteq Letters
    BY <1>2, <2>4, <2>5
  <2> QED  BY <1>4, <2>6, <2>7, <2>8, <2>9, SmokeOwn
<1> QED  BY <1>3, <1>4

\* The hub takes the messages of a handler.
LEMMA PublishHolds ==
    ASSUME LiveBase, user = "smoke", ReportHolds, SentHolds, FeedHolds, NEW p \in {Creator, SmokePost},
           Broadcast(p), Publish(p), smoke' = smoke
    PROVE  SentHolds' /\ FeedHolds' /\ (Late => Late')
<1>1. pc[p] = "broadcast" /\ sent' = sent \cup Messages(p) /\ pc'[p] = "acked" /\ \A q \in Processes \ {p} : pc'[q] = pc[q]
  BY SmokeOwn DEF Broadcast, Goto, LiveBase, Served
<1>2. /\ Messages(p) \subseteq Letters
      /\ \A m, n \in Messages(p) : m.type = n.type => m = n
      /\ p = Creator => \A m \in Messages(p) : m.by = Creator /\ m.type = "battle_state_updated"
      /\ p = SmokePost => /\ \A m \in Messages(p) : m.by = SmokePost
                          /\ \A type \in RequiredBattleWsEvents : \E m \in Messages(p) : m.type = type
  BY <1>1, SmokeMessages
<1>3. PICK news : news = InOrder(p)
  OBVIOUS
<1>4. Tells(news, Messages(p))
  <2>1. \A m \in Messages(p) : m.type \in RequiredBattleWsEvents
    BY <1>2 DEF Letters
  <2> QED  BY <1>2, <1>3, <2>1, InOrderTells
<1>5. /\ published' = published \o news /\ start' = start /\ received' = received
      /\ published \in Seq(Letters) /\ news \in Seq(Letters)
      /\ Len(published) \in Nat /\ Len(news) \in Nat
  BY <1>2, <1>3, <1>4 DEF Publish, SentHolds, Tells
<1>6. /\ published' \in Seq(Letters) /\ Len(published') = Len(published) + Len(news)
      /\ \A i \in 1 .. Len(published) + Len(news) :
            published'[i] = IF i <= Len(published) THEN published[i] ELSE news[i - Len(published)]
  BY <1>5, ConcatProperties, Zenon
<1>7. \A i \in 1 .. Len(published) : i \in 1 .. Len(published') /\ published'[i] = published[i]
  BY <1>5, <1>6
<1>8. ASSUME NEW i \in 1 .. Len(published') PROVE published'[i] \in sent'
  <2>1. CASE i <= Len(published)
    BY <1>1, <1>5, <1>6, <2>1 DEF SentHolds
  <2>2. CASE ~(i <= Len(published))
    <3>1. i - Len(published) \in 1 .. Len(news)
      BY <1>5, <1>6, <2>2
    <3>2. news[i - Len(published)] \in Messages(p)
      BY <1>4, <3>1 DEF Tells
    <3> QED  BY <1>1, <1>5, <1>6, <2>2, <3>2
  <2> QED  BY <2>1, <2>2
<1>9. ASSUME NEW m \in Messages(p) PROVE \E i \in 1 .. Len(published') : published'[i] = m
  <2>1. PICK j \in 1 .. Len(news) : news[j] = m
    BY <1>4 DEF Tells
  <2>2. Len(published) + j \in 1 .. Len(published) + Len(news) /\ ~(Len(published) + j <= Len(published))
        /\ Len(published) + j - Len(published) = j
    BY <1>5
  <2> QED  BY <1>6, <2>1, <2>2
<1>10. p = Creator => pc[SmokePost] = "idle" /\ pc'[SmokePost] = "idle"
  BY <1>1, SmokeOwn DEF ReportHolds
<1>11. SentHolds'
  <2>1. published' \in Seq(Letters) /\ sent' \subseteq Letters
    BY <1>1, <1>2, <1>6 DEF SentHolds
  <2>2. \A m \in sent' : \/ m.by = Creator /\ m.type = "battle_state_updated"
                         \/ m.by = SmokePost /\ pc'[SmokePost] = "acked"
    BY <1>1, <1>2, SmokeOwn DEF SentHolds
  <2>3. \A m, n \in sent' : m.by = SmokePost /\ n.by = SmokePost /\ m.type = n.type => m = n
    <3>1. p = SmokePost => \A m \in sent : m.by # SmokePost
      BY <1>1, SmokeOwn DEF SentHolds
    <3>2. p = Creator => \A m \in Messages(p) : m.by # SmokePost
      BY <1>2, SmokeOwn
    <3> QED  BY <1>1, <1>2, <3>1, <3>2 DEF SentHolds
  <2>4. pc'[SmokePost] = "acked" => \A type \in RequiredBattleWsEvents :
           \E i \in 1 .. Len(published') : published'[i].by = SmokePost /\ published'[i].type = type
    <3>1. CASE p = SmokePost
      <4>1. ASSUME NEW type \in RequiredBattleWsEvents
            PROVE  \E i \in 1 .. Len(published') : published'[i].by = SmokePost /\ published'[i].type = type
        <5>1. PICK m \in Messages(p) : m.type = type /\ m.by = SmokePost
          BY <1>2, <3>1
        <5> QED  BY <1>9, <5>1
      <4> QED  BY <4>1
    <3> QED  BY <1>10, <3>1
  <2> QED  BY <1>8, <2>1, <2>2, <2>3, <2>4 DEF SentHolds
<1>12. FeedHolds'
  <2>1. PICK i, got : i = start[Connection] /\ got = received[Connection]
    OBVIOUS
  <2>2. i # HubOrder!NotJoined => /\ i \in Nat /\ i + Len(got) <= Len(published)
                                  /\ \A j \in 1 .. Len(got) : got[j] = published[i + j]
    BY <2>1 DEF FeedHolds
  <2>3. got \in Seq(Letters)
    BY <2>1 DEF FeedHolds
  <2>4. i # HubOrder!NotJoined => /\ i \in Nat /\ i + Len(got) <= Len(published')
                                  /\ \A j \in 1 .. Len(got) : got[j] = published'[i + j]
    <3>1. ASSUME i # HubOrder!NotJoined, NEW j \in 1 .. Len(got) PROVE got[j] = published'[i + j]
      <4>1. i + j \in 1 .. Len(published)
        BY <1>5, <2>2, <2>3, <3>1
      <4> QED  BY <1>7, <2>2, <3>1, <4>1
    <3> QED  BY <1>5, <1>6, <2>2, <2>3, <3>1
  <2>5. start'[Connection] = i /\ received'[Connection] = got /\ smoke'.heard = smoke.heard
    BY <1>5, <2>1
  <2>6. /\ start' \in [{Connection} -> Int] /\ received' \in [{Connection} -> Seq(Letters)]
        /\ start'[Connection] = HubOrder!NotJoined => received'[Connection] = <<>>
        /\ \A m \in smoke'.heard : \E j \in 1 .. Len(received'[Connection]) : received'[Connection][j] = m
        /\ \A j \in 1 .. Len(received'[Connection]) :
              \E m \in smoke'.heard : m.type = received'[Connection][j].type
    BY <1>5 DEF FeedHolds
  <2> QED  BY <2>4, <2>5, <2>6 DEF FeedHolds
<1>13. ASSUME Late PROVE Late'
  <2>1. DOMAIN published = 1 .. Len(published) /\ DOMAIN published' = 1 .. Len(published')
    BY <1>5, <1>6
  <2>2. PICK i \in 1 .. Len(published) : published[i].by = SmokePost /\ i <= start[Connection]
    BY <1>13, <2>1 DEF Late
  <2>3. i \in 1 .. Len(published') /\ published'[i].by = SmokePost /\ i <= start'[Connection]
    BY <1>5, <1>7, <2>2
  <2> QED  BY <2>1, <2>3 DEF Late
<1> QED  BY <1>11, <1>12, <1>13

\* A step of the server.
LEMMA ServerSmoke ==
    ASSUME LiveBase, user = "smoke", ReportHolds, SentHolds, FeedHolds, ScriptHolds, ServerMoves
    PROVE  ReportHolds' /\ SentHolds' /\ FeedHolds' /\ ScriptHolds'
<1>1. PICK p \in Processes : \/ ServerStep(p) /\ UNCHANGED <<published, start, received>>
                             \/ Broadcast(p) /\ Publish(p)
  BY DEF ServerMoves
<1>2. smoke' = smoke /\ ReportHolds' /\ p \in {Creator, SmokePost} /\ Served /\ Handles(p)
  BY <1>1, ServerReport, ServerHandles DEF ServerMoves, LiveBase
<1>3. /\ \A q \in Processes : pc[q] = "acked" => pc'[q] = "acked"
      /\ \A q \in Processes \ {p} : pc'[q] = pc[q]
  BY <1>2 DEF Handles, Busy, Over
<1>4. SentHolds' /\ FeedHolds' /\ (Late => Late')
  <2>1. CASE ServerStep(p) /\ UNCHANGED <<published, start, received>>
    <3>1. sent' = sent /\ pc'[p] # "acked"
      BY <1>2, <2>1, ServerSends, SmokeOwn
    <3>2. pc'[SmokePost] = "acked" <=> pc[SmokePost] = "acked"
      BY <1>2, <1>3, <3>1, SmokeOwn
    <3>3. SentHolds'
      BY <2>1, <3>1, <3>2 DEF SentHolds
    <3>4. FeedHolds' /\ (Late => Late')
      BY <1>2, <2>1 DEF FeedHolds, Late
    <3> QED  BY <3>3, <3>4
  <2>2. CASE Broadcast(p) /\ Publish(p)
    BY <1>2, <2>2, PublishHolds
  <2> QED  BY <1>1, <2>1, <2>2
<1>5. HeardAll' = HeardAll /\ WithTargets' = WithTargets /\ SmokeShaped'
  BY <1>2 DEF HeardAll, WithTargets, ScriptHolds, SmokeShaped
<1>6. ScriptHolds'
  BY <1>2, <1>3, <1>4, <1>5, SmokeOwn DEF ScriptHolds
<1> QED  BY <1>2, <1>4, <1>6

\* The places of the checks in the list.
LEMMA CheckPlaces ==
    ASSUME SmokeShaped
    PROVE  /\ SmokeRuns <=> smoke.at \in 1 .. 11
           /\ SmokeOver <=> smoke.at > 11
           /\ AtCheck("public reads") <=> smoke.at = 1
           /\ AtCheck("login") <=> smoke.at = 2
           /\ AtCheck("reads") <=> smoke.at = 3
           /\ AtCheck("create") <=> smoke.at = 4
           /\ AtCheck("connect") <=> smoke.at = 5
           /\ AtCheck("post") <=> smoke.at = 6
           /\ AtCheck("hear") <=> smoke.at = 7
           /\ AtCheck("state") <=> smoke.at = 8
           /\ AtCheck("replay") <=> smoke.at = 9
           /\ AtCheck("report") <=> smoke.at = 10
           /\ AtCheck("logout") <=> smoke.at = 11
<1>1. smoke.at \in Nat
  BY DEF SmokeShaped
<1>2. Len(SmokeChecks) = 11 /\ DOMAIN SmokeChecks = 1 .. 11
  BY DEF SmokeChecks
<1>3. /\ SmokeChecks[1] = "public reads" /\ SmokeChecks[2] = "login" /\ SmokeChecks[3] = "reads"
      /\ SmokeChecks[4] = "create" /\ SmokeChecks[5] = "connect" /\ SmokeChecks[6] = "post"
      /\ SmokeChecks[7] = "hear" /\ SmokeChecks[8] = "state" /\ SmokeChecks[9] = "replay"
      /\ SmokeChecks[10] = "report" /\ SmokeChecks[11] = "logout"
  BY DEF SmokeChecks
<1>4. smoke.at \in 1 .. 11 => smoke.at \in {1, 2, 3, 4, 5, 6, 7, 8, 9, 10, 11}
  BY <1>1
<1>5. (SmokeRuns <=> smoke.at \in 1 .. 11) /\ (SmokeOver <=> smoke.at > 11)
  BY <1>2 DEF SmokeRuns, SmokeOver
<1>6. \A name : AtCheck(name) <=> SmokeRuns /\ SmokeChecks[smoke.at] = name
  BY DEF AtCheck
<1>7. smoke.at = 1 => SmokeRuns /\ AtCheck("public reads") /\ \A name : AtCheck(name) => name = "public reads"
  <2>1. smoke.at = 1 => SmokeRuns
    BY <1>5
  <2> QED  BY <1>3, <1>6, <2>1, Zenon
<1>8. smoke.at = 2 => SmokeRuns /\ AtCheck("login") /\ \A name : AtCheck(name) => name = "login"
  <2>1. smoke.at = 2 => SmokeRuns
    BY <1>5
  <2> QED  BY <1>3, <1>6, <2>1, Zenon
<1>9. smoke.at = 3 => SmokeRuns /\ AtCheck("reads") /\ \A name : AtCheck(name) => name = "reads"
  <2>1. smoke.at = 3 => SmokeRuns
    BY <1>5
  <2> QED  BY <1>3, <1>6, <2>1, Zenon
<1>10. smoke.at = 4 => SmokeRuns /\ AtCheck("create") /\ \A name : AtCheck(name) => name = "create"
  <2>1. smoke.at = 4 => SmokeRuns
    BY <1>5
  <2> QED  BY <1>3, <1>6, <2>1, Zenon
<1>11. smoke.at = 5 => SmokeRuns /\ AtCheck("connect") /\ \A name : AtCheck(name) => name = "connect"
  <2>1. smoke.at = 5 => SmokeRuns
    BY <1>5
  <2> QED  BY <1>3, <1>6, <2>1, Zenon
<1>12. smoke.at = 6 => SmokeRuns /\ AtCheck("post") /\ \A name : AtCheck(name) => name = "post"
  <2>1. smoke.at = 6 => SmokeRuns
    BY <1>5
  <2> QED  BY <1>3, <1>6, <2>1, Zenon
<1>13. smoke.at = 7 => SmokeRuns /\ AtCheck("hear") /\ \A name : AtCheck(name) => name = "hear"
  <2>1. smoke.at = 7 => SmokeRuns
    BY <1>5
  <2> QED  BY <1>3, <1>6, <2>1, Zenon
<1>14. smoke.at = 8 => SmokeRuns /\ AtCheck("state") /\ \A name : AtCheck(name) => name = "state"
  <2>1. smoke.at = 8 => SmokeRuns
    BY <1>5
  <2> QED  BY <1>3, <1>6, <2>1, Zenon
<1>15. smoke.at = 9 => SmokeRuns /\ AtCheck("replay") /\ \A name : AtCheck(name) => name = "replay"
  <2>1. smoke.at = 9 => SmokeRuns
    BY <1>5
  <2> QED  BY <1>3, <1>6, <2>1, Zenon
<1>16. smoke.at = 10 => SmokeRuns /\ AtCheck("report") /\ \A name : AtCheck(name) => name = "report"
  <2>1. smoke.at = 10 => SmokeRuns
    BY <1>5
  <2> QED  BY <1>3, <1>6, <2>1, Zenon
<1>17. smoke.at = 11 => SmokeRuns /\ AtCheck("logout") /\ \A name : AtCheck(name) => name = "logout"
  <2>1. smoke.at = 11 => SmokeRuns
    BY <1>5
  <2> QED  BY <1>3, <1>6, <2>1, Zenon
<1>18. \A name : AtCheck(name) => smoke.at \in {1, 2, 3, 4, 5, 6, 7, 8, 9, 10, 11}
  BY <1>4, <1>5, <1>6, Zenon
<1>19. AtCheck("public reads") <=> smoke.at = 1
  BY <1>7, <1>8, <1>9, <1>10, <1>11, <1>12, <1>13, <1>14, <1>15, <1>16, <1>17, <1>18, Zenon
<1>20. AtCheck("login") <=> smoke.at = 2
  BY <1>7, <1>8, <1>9, <1>10, <1>11, <1>12, <1>13, <1>14, <1>15, <1>16, <1>17, <1>18, Zenon
<1>21. AtCheck("reads") <=> smoke.at = 3
  BY <1>7, <1>8, <1>9, <1>10, <1>11, <1>12, <1>13, <1>14, <1>15, <1>16, <1>17, <1>18, Zenon
<1>22. AtCheck("create") <=> smoke.at = 4
  BY <1>7, <1>8, <1>9, <1>10, <1>11, <1>12, <1>13, <1>14, <1>15, <1>16, <1>17, <1>18, Zenon
<1>23. AtCheck("connect") <=> smoke.at = 5
  BY <1>7, <1>8, <1>9, <1>10, <1>11, <1>12, <1>13, <1>14, <1>15, <1>16, <1>17, <1>18, Zenon
<1>24. AtCheck("post") <=> smoke.at = 6
  BY <1>7, <1>8, <1>9, <1>10, <1>11, <1>12, <1>13, <1>14, <1>15, <1>16, <1>17, <1>18, Zenon
<1>25. AtCheck("hear") <=> smoke.at = 7
  BY <1>7, <1>8, <1>9, <1>10, <1>11, <1>12, <1>13, <1>14, <1>15, <1>16, <1>17, <1>18, Zenon
<1>26. AtCheck("state") <=> smoke.at = 8
  BY <1>7, <1>8, <1>9, <1>10, <1>11, <1>12, <1>13, <1>14, <1>15, <1>16, <1>17, <1>18, Zenon
<1>27. AtCheck("replay") <=> smoke.at = 9
  BY <1>7, <1>8, <1>9, <1>10, <1>11, <1>12, <1>13, <1>14, <1>15, <1>16, <1>17, <1>18, Zenon
<1>28. AtCheck("report") <=> smoke.at = 10
  BY <1>7, <1>8, <1>9, <1>10, <1>11, <1>12, <1>13, <1>14, <1>15, <1>16, <1>17, <1>18, Zenon
<1>29. AtCheck("logout") <=> smoke.at = 11
  BY <1>7, <1>8, <1>9, <1>10, <1>11, <1>12, <1>13, <1>14, <1>15, <1>16, <1>17, <1>18, Zenon
<1> QED  BY <1>5, <1>19, <1>20, <1>21, <1>22, <1>23, <1>24, <1>25, <1>26, <1>27, <1>28, <1>29, Zenon

LEMMA CheckedTurns ==
    ASSUME SmokeShaped, NEW passed \in BOOLEAN, Checked(passed)
    PROVE  /\ SmokeShaped' /\ smoke'.at = smoke.at + 1 /\ (smoke'.ok <=> smoke.ok /\ passed)
           /\ smoke'.cookie = smoke.cookie /\ smoke'.session = smoke.session /\ smoke'.ws = smoke.ws
           /\ smoke'.waiting = FALSE /\ smoke'.heard = smoke.heard /\ smoke'.early = smoke.early
           /\ smoke'.troubled = smoke.troubled
<1>0. PICK ok1 : ok1 = (smoke.ok /\ passed)
  OBVIOUS
<1>1. SmokeShaped'
  <2>1. smoke' = [at |-> smoke.at + 1, ok |-> ok1, cookie |-> smoke.cookie, session |-> smoke.session,
                  ws |-> smoke.ws, waiting |-> FALSE, heard |-> smoke.heard,
                  early |-> smoke.early, troubled |-> smoke.troubled]
    BY <1>0 DEF SmokeShaped, Checked
  <2> QED  BY <2>1 DEF SmokeShaped
<1>2. smoke'.at = smoke.at + 1 /\ smoke'.ok = (smoke.ok /\ passed) /\ smoke'.waiting = FALSE
  BY DEF SmokeShaped, Checked
<1>3. /\ smoke'.cookie = smoke.cookie /\ smoke'.session = smoke.session /\ smoke'.ws = smoke.ws
      /\ smoke'.heard = smoke.heard /\ smoke'.early = smoke.early /\ smoke'.troubled = smoke.troubled
  BY DEF SmokeShaped, Checked
<1> QED  BY <1>1, <1>2, <1>3

LEMMA TroubleTurns ==
    ASSUME SmokeShaped, Trouble
    PROVE  /\ SmokeShaped' /\ smoke'.at = smoke.at + 1 /\ smoke'.ok = FALSE
           /\ smoke'.session = smoke.session /\ smoke'.waiting = FALSE /\ smoke'.heard = smoke.heard
           /\ smoke'.troubled = TRUE
<1>1. SmokeShaped'
  <2>1. smoke' = [at |-> smoke.at + 1, ok |-> FALSE, cookie |-> smoke.cookie, session |-> smoke.session,
                  ws |-> smoke.ws, waiting |-> FALSE, heard |-> smoke.heard,
                  early |-> smoke.early, troubled |-> TRUE]
    BY DEF SmokeShaped, Trouble
  <2> QED  BY <2>1 DEF SmokeShaped
<1>2. smoke'.at = smoke.at + 1 /\ smoke'.ok = FALSE /\ smoke'.waiting = FALSE /\ smoke'.troubled = TRUE
  BY DEF SmokeShaped, Trouble
<1>3. smoke'.session = smoke.session /\ smoke'.heard = smoke.heard
  BY DEF SmokeShaped, Trouble
<1> QED  BY <1>1, <1>2, <1>3

\* What the tables hold when the report was accepted.
LEMMA ReportShown ==
    ASSUME LiveBase, user = "smoke", ReportHolds, pc[SmokePost] = "acked"
    PROVE  /\ row # None /\ row.status = "running"
           /\ ReportStays /\ \A k \in Kinds : \E n \in RowNames : current[k][n] # None
           /\ Payload[SmokeReport].events \subseteq events
           /\ \E s \in snapshots : s.by = SmokePost
<1>1. row # None /\ row.status = "running" /\ SmokePost \in alone /\ loc[SmokePost].report = SmokeReport
  BY DEF ReportHolds
<1>2. ReportStays /\ \A k \in Kinds : \E n \in RowNames : current[k][n] # None
  <2>1. ReportStays /\ SmokeReport # None
    BY SmokeOwn, RequestAssumption DEF ReportHolds
  <2>2. ASSUME NEW k \in Kinds PROVE \E n \in RowNames : current[k][n] # None
    <3>1. PICK n \in RowNames : n \in Payload[SmokeReport].rows[k]
      BY SmokeOwn
    <3> QED  BY <2>1, <3>1 DEF ReportStays
  <2> QED  BY <2>1, <2>2
<1>3. ReplayedHolds(SmokePost)
  BY <1>1, SmokeOwn DEF LiveBase, LoneInv, LoneHolds
<1>4. Payload[SmokeReport].events \subseteq events /\ \E s \in snapshots : s.time = SmokeReport
  BY <1>1, <1>3, SmokeOwn DEF ReplayedHolds, Stands
<1>5. ASSUME NEW s \in snapshots PROVE s.by = SmokePost
  <2>1. s.by \in Deliveries \cup Stops /\ pc[s.by] # "idle"
    BY DEF LiveBase, Served
  <2>2. s.by \in Processes
    BY <2>1 DEF Processes
  <2> QED  BY <2>1, <2>2, SmokeOwn DEF ReportHolds
<1> QED  BY <1>1, <1>2, <1>4, <1>5

\* When everything came, and none of the report's messages was published before the
\* connection was registered, a message of each type was heard.
LEMMA HeardUnlessLate ==
    ASSUME SmokeShaped, SentHolds, FeedHolds, pc[SmokePost] = "acked", AllCame, ~Late
    PROVE  HeardAll
<1>1. PICK i, got : i = start[Connection] /\ got = received[Connection]
  OBVIOUS
<1>2. /\ i \in Nat /\ i + Len(got) = Len(published) /\ got \in Seq(Letters) /\ published \in Seq(Letters)
      /\ \A j \in 1 .. Len(got) : got[j] = published[i + j]
      /\ \A j \in 1 .. Len(got) : \E m \in smoke.heard : m.type = got[j].type
  BY <1>1 DEF FeedHolds, SentHolds, AllCame
<1>3. ASSUME NEW type \in RequiredBattleWsEvents PROVE type \in {m.type : m \in smoke.heard}
  <2>1. PICK k \in 1 .. Len(published) : published[k].by = SmokePost /\ published[k].type = type
    BY DEF SentHolds
  <2>2. k > i
    <3>1. k \in DOMAIN published
      BY <1>2
    <3>2. ~(k <= start[Connection])
      BY <2>1, <3>1 DEF Late
    <3> QED  BY <1>1, <1>2, <3>2
  <2>3. k - i \in 1 .. Len(got) /\ i + (k - i) = k
    BY <1>2, <2>2
  <2>4. got[k - i].type = type
    BY <1>2, <2>1, <2>3
  <2> QED  BY <1>2, <2>3, <2>4
<1>4. {m.type : m \in smoke.heard} \subseteq RequiredBattleWsEvents
  BY DEF SmokeShaped, Letters
<1> QED  BY <1>3, <1>4 DEF HeardAll

\* A step of the script that leaves the server and the connection alone, and hears nothing.
LEMMA QuietSmoke ==
    ASSUME ReportHolds, SentHolds, FeedHolds, Same, smoke'.heard = smoke.heard
    PROVE  /\ ReportHolds' /\ SentHolds' /\ FeedHolds' /\ pc' = pc
           /\ (Late' <=> Late) /\ (HeardAll' <=> HeardAll) /\ (WithTargets' <=> WithTargets)
<1>1. /\ pc' = pc /\ row' = row /\ alone' = alone /\ loc' = loc /\ events' = events /\ current' = current
      /\ sent' = sent /\ published' = published /\ start' = start /\ received' = received
  BY DEF Same, vars
<1>2. ReportHolds'
  BY <1>1 DEF ReportHolds, ReportStays
<1>3. SentHolds'
  BY <1>1 DEF SentHolds
<1>4. FeedHolds'
  BY <1>1 DEF FeedHolds
<1>5. (Late' <=> Late) /\ (HeardAll' <=> HeardAll) /\ (WithTargets' <=> WithTargets)
  BY <1>1 DEF Late, HeardAll, WithTargets
<1> QED  BY <1>1, <1>2, <1>3, <1>4, <1>5

\* What each quiet step of the script keeps of ScriptHolds.
LEMMA QuietScript ==
    ASSUME LiveBase, user = "smoke", ReportHolds, SentHolds, FeedHolds, ScriptHolds,
           SmokeStart \/ Login \/ CheckFails \/ CreateAnswered \/ ReportAnswered \/ Refused
              \/ Connects \/ HearEnds \/ Reads
    PROVE  ReportHolds' /\ SentHolds' /\ FeedHolds' /\ ScriptHolds'
<1>1. SmokeShaped /\ smoke.at \in Nat
  BY DEF ScriptHolds, SmokeShaped
<1>2. Same
  BY DEF SmokeStart, Login, CheckFails, CreateAnswered, ReportAnswered, Refused, Connects, HearEnds,
         Reads, Judge
<1>3. ASSUME smoke'.heard = smoke.heard, SmokeShaped',
             smoke'.session => pc[Creator] = "acked",
             smoke'.ok => ~smoke'.troubled,
             smoke'.waiting => smoke'.at \in {4, 6},
             ~smoke'.troubled =>
               /\ smoke'.at >= 3 => smoke'.cookie
               /\ smoke'.at >= 5 => smoke'.session
               /\ smoke'.at >= 6 => smoke'.ws
               /\ smoke'.at = 6 /\ smoke'.waiting => smoke'.early
               /\ smoke'.at >= 7 => smoke'.early /\ pc[SmokePost] = "acked"
               /\ smoke'.at >= 8 /\ smoke'.ok => HeardAll /\ WithTargets
               /\ ~smoke'.ok => smoke'.at >= 8 /\ (Late \/ ~WithTargets)
      PROVE  ReportHolds' /\ SentHolds' /\ FeedHolds' /\ ScriptHolds'
  <2>1. /\ ReportHolds' /\ SentHolds' /\ FeedHolds' /\ pc' = pc
        /\ (Late' <=> Late) /\ (HeardAll' <=> HeardAll) /\ (WithTargets' <=> WithTargets)
    BY <1>2, <1>3, QuietSmoke
  <2>2. ScriptHolds'
    BY <1>3, <2>1 DEF ScriptHolds
  <2> QED  BY <2>1, <2>2
<1>4. CASE Trouble
  BY <1>1, <1>3, <1>4, TroubleTurns DEF ScriptHolds
\* A check passes that is expected to, once the script has got where it is.
<1>5. ASSUME NEW passed \in BOOLEAN, Checked(passed), ~smoke.waiting \/ smoke.at \in {4, 6},
             smoke.at \in 1 .. 11, smoke.at # 2,
             smoke.at = 4 => ~passed /\ ~smoke.cookie,
             smoke.at = 5 => FALSE,
             smoke.at = 6 /\ ~smoke.troubled => passed /\ pc[SmokePost] = "acked" /\ smoke.early,
             smoke.at = 7 /\ ~smoke.troubled => (passed => HeardAll /\ WithTargets)
                                                /\ (~passed => Late \/ ~WithTargets),
             smoke.at \notin {4, 6, 7} /\ ~smoke.troubled => passed
      PROVE  ReportHolds' /\ SentHolds' /\ FeedHolds' /\ ScriptHolds'
  <2>1. /\ SmokeShaped' /\ smoke'.at = smoke.at + 1 /\ (smoke'.ok <=> smoke.ok /\ passed)
        /\ smoke'.cookie = smoke.cookie /\ smoke'.session = smoke.session /\ smoke'.ws = smoke.ws
        /\ smoke'.waiting = FALSE /\ smoke'.heard = smoke.heard /\ smoke'.early = smoke.early
        /\ smoke'.troubled = smoke.troubled
    BY <1>1, <1>5, CheckedTurns
  <2>2. ~smoke'.troubled =>
               /\ smoke'.at >= 3 => smoke'.cookie
               /\ smoke'.at >= 5 => smoke'.session
               /\ smoke'.at >= 6 => smoke'.ws
               /\ smoke'.at >= 7 => smoke'.early /\ pc[SmokePost] = "acked"
    BY <1>1, <1>5, <2>1 DEF ScriptHolds
  <2>3. ~smoke'.troubled =>
               /\ smoke'.at >= 8 /\ smoke'.ok => HeardAll /\ WithTargets
               /\ ~smoke'.ok => smoke'.at >= 8 /\ (Late \/ ~WithTargets)
    BY <1>1, <1>5, <2>1 DEF ScriptHolds
  <2> QED  BY <1>1, <1>3, <1>5, <2>1, <2>2, <2>3 DEF ScriptHolds
<1>6. CASE SmokeStart
  <2>1. /\ SmokeShaped' /\ smoke'.at = 1 /\ smoke'.ok = smoke.ok /\ smoke'.session = smoke.session
        /\ smoke'.waiting = smoke.waiting /\ smoke'.heard = smoke.heard /\ smoke'.troubled = smoke.troubled
    <3>1. smoke' = [at |-> 1, ok |-> smoke.ok, cookie |-> smoke.cookie, session |-> smoke.session,
                    ws |-> smoke.ws, waiting |-> smoke.waiting, heard |-> smoke.heard,
                    early |-> smoke.early, troubled |-> smoke.troubled]
      BY <1>1, <1>6 DEF SmokeStart, SmokeShaped
    <3> QED  BY <1>1, <3>1 DEF SmokeShaped
  <2> QED  BY <1>3, <1>6, <2>1 DEF ScriptHolds, SmokeStart
<1>7. CASE Login
  <2>1. /\ SmokeShaped' /\ smoke'.at = smoke.at + 1 /\ smoke'.ok = smoke.ok /\ smoke'.session = smoke.session
        /\ smoke'.waiting = smoke.waiting /\ smoke'.heard = smoke.heard /\ smoke'.troubled = smoke.troubled
        /\ smoke'.cookie = TRUE
    <3>1. smoke' = [at |-> smoke.at + 1, ok |-> smoke.ok, cookie |-> TRUE, session |-> smoke.session,
                    ws |-> smoke.ws, waiting |-> smoke.waiting, heard |-> smoke.heard,
                    early |-> smoke.early, troubled |-> smoke.troubled]
      BY <1>1, <1>7 DEF Login, SmokeShaped
    <3> QED  BY <1>1, <3>1 DEF SmokeShaped
  <2>2. smoke.at = 2
    BY <1>1, <1>7, CheckPlaces DEF Login
  <2> QED  BY <1>3, <2>1, <2>2 DEF ScriptHolds
<1>8. CASE CheckFails
  BY <1>4, <1>8 DEF CheckFails
<1>9. CASE CreateAnswered
  <2>1. smoke.at = 4 /\ smoke.waiting
    BY <1>1, <1>9, CheckPlaces DEF CreateAnswered, Answered
  <2>2. CASE pc[Creator] = "acked"
    <3>1. /\ SmokeShaped' /\ smoke'.at = smoke.at + 1 /\ smoke'.ok = smoke.ok /\ smoke'.session = TRUE
          /\ smoke'.waiting = FALSE /\ smoke'.heard = smoke.heard /\ smoke'.troubled = smoke.troubled
          /\ smoke'.cookie = smoke.cookie
      <4>1. smoke' = [at |-> smoke.at + 1, ok |-> smoke.ok, cookie |-> smoke.cookie, session |-> TRUE,
                      ws |-> smoke.ws, waiting |-> FALSE, heard |-> smoke.heard,
                      early |-> smoke.early, troubled |-> smoke.troubled]
        BY <1>1, <1>9, <2>2 DEF CreateAnswered, SmokeShaped
      <4> QED  BY <1>1, <4>1 DEF SmokeShaped
    <3> QED  BY <1>3, <2>1, <2>2, <3>1 DEF ScriptHolds
  <2>3. CASE pc[Creator] # "acked"
    BY <1>4, <1>9, <2>3 DEF CreateAnswered
  <2> QED  BY <2>2, <2>3
<1>10. CASE ReportAnswered
  <2>1. smoke.at = 6 /\ smoke.waiting
    BY <1>1, <1>10, CheckPlaces DEF ReportAnswered, Answered
  <2>2. CASE pc[SmokePost] = "acked"
    <3> DEFINE passed == pc[SmokePost] = "acked"
    <3>1. Checked(passed) /\ passed \in BOOLEAN /\ passed
      <4>1. Checked(TRUE)
        BY <1>10, <2>2 DEF ReportAnswered
      <4> QED  BY <2>2, <4>1 DEF Checked
    <3>2. ~smoke.troubled => smoke.early
      BY <2>1 DEF ScriptHolds
    <3> HIDE DEF passed
    <3>3. smoke.at = 6 /\ ~smoke.troubled => passed /\ pc[SmokePost] = "acked" /\ smoke.early
      BY <2>2, <3>1, <3>2
    <3>4. ~smoke.waiting \/ smoke.at \in {4, 6}
      BY <2>1
    <3>5. /\ smoke.at \in 1 .. 11 /\ smoke.at # 2
          /\ smoke.at # 4 /\ smoke.at # 5 /\ smoke.at # 7 /\ ~(smoke.at \notin {4, 6, 7})
      BY <2>1
    <3> QED  BY <1>5, <3>1, <3>3, <3>4, <3>5, Zenon
  <2>3. CASE pc[SmokePost] # "acked"
    BY <1>4, <1>10, <2>3 DEF ReportAnswered
  <2> QED  BY <2>2, <2>3
<1>11. CASE Refused
  <2>1. CASE Judge("create", smoke.cookie, FALSE) /\ ~smoke.cookie
    <3> DEFINE passed == smoke.cookie /\ FALSE
    <3>1. smoke.at = 4 /\ ~smoke.waiting /\ Checked(passed) /\ passed \in BOOLEAN /\ ~passed
      BY <1>1, <2>1, CheckPlaces DEF Judge
    <3> HIDE DEF passed
    <3> QED  BY <1>5, <2>1, <3>1
  <2>2. CASE Judge("post", smoke.session, FALSE) /\ ~(smoke.session /\ smoke.cookie)
    <3> DEFINE passed == smoke.session /\ FALSE
    <3>1. smoke.at = 6 /\ ~smoke.waiting /\ Checked(passed) /\ passed \in BOOLEAN
      BY <1>1, <2>2, CheckPlaces DEF Judge
    <3>2. smoke.troubled
      BY <2>2, <3>1 DEF ScriptHolds
    <3> HIDE DEF passed
    <3> QED  BY <1>5, <3>1, <3>2
  <2> QED  BY <1>11, <2>1, <2>2 DEF Refused
<1>12. CASE Connects
  <2>1. smoke.at = 5
    BY <1>1, <1>12, CheckPlaces DEF Connects
  <2>2. /\ SmokeShaped' /\ smoke'.at = smoke.at + 1 /\ (smoke'.ok <=> smoke.ok /\ smoke.cookie)
        /\ smoke'.session = smoke.session /\ smoke'.ws = smoke.cookie /\ smoke'.cookie = smoke.cookie
        /\ smoke'.waiting = smoke.waiting /\ smoke'.heard = smoke.heard /\ smoke'.troubled = smoke.troubled
    <3>0. PICK ok1 : ok1 = (smoke.ok /\ smoke.cookie)
      OBVIOUS
    <3>1. smoke' = [at |-> smoke.at + 1, ok |-> ok1, cookie |-> smoke.cookie, session |-> smoke.session,
                    ws |-> smoke.cookie, waiting |-> smoke.waiting, heard |-> smoke.heard,
                    early |-> smoke.early, troubled |-> smoke.troubled]
      BY <1>1, <1>12, <3>0 DEF Connects, SmokeShaped
    <3>2. SmokeShaped'
      BY <1>1, <3>1 DEF SmokeShaped
    <3>3. smoke'.ok = (smoke.ok /\ smoke.cookie)
      BY <3>0, <3>1
    <3> QED  BY <3>1, <3>2, <3>3
  <2>3. ~smoke.waiting
    BY <2>1 DEF ScriptHolds
  <2> QED  BY <1>1, <1>3, <2>1, <2>2, <2>3 DEF ScriptHolds, SmokeShaped
<1>13. CASE HearEnds
  <2> DEFINE passed == smoke.ws /\ smoke.session /\ HeardAll /\ WithTargets
  <2>1. /\ smoke.at = 7 /\ Checked(passed) /\ (smoke.ws /\ smoke.session => HeardAll \/ AllCame)
    BY <1>1, <1>13, CheckPlaces DEF HearEnds
  <2>2. passed \in BOOLEAN
    OBVIOUS
  <2>3. ~smoke.troubled => smoke.ws /\ smoke.session /\ pc[SmokePost] = "acked"
    BY <2>1 DEF ScriptHolds
  <2>4. ~smoke.troubled => (passed => HeardAll /\ WithTargets) /\ (~passed => Late \/ ~WithTargets)
    BY <1>1, <2>1, <2>3, HeardUnlessLate
  <2>5. ~smoke.waiting
    BY <2>1 DEF ScriptHolds
  <2> HIDE DEF passed
  <2> QED  BY <1>5, <2>1, <2>2, <2>4, <2>5
<1>14. ASSUME NEW name, NEW ready, NEW passed, Judge(name, ready, passed),
              smoke.at \in {1, 3, 8, 9, 10, 11},
              ~smoke.troubled => ready /\ passed
       PROVE  ReportHolds' /\ SentHolds' /\ FeedHolds' /\ ScriptHolds'
  <2> DEFINE both == ready /\ passed
  <2>1. both \in BOOLEAN /\ (~smoke.troubled => both) /\ Checked(both) /\ ~smoke.waiting
    BY <1>14 DEF Judge
  <2> HIDE DEF both
  <2> QED  BY <1>5, <1>14, <2>1
<1>15. CASE Reads
  <2>1. CASE Judge("public reads", TRUE, TRUE)
    <3>1. smoke.at = 1
      BY <1>1, <2>1, CheckPlaces DEF Judge
    <3> QED  BY <1>14, <2>1, <3>1
  <2>2. CASE Judge("reads", smoke.cookie, TRUE)
    <3>1. smoke.at = 3
      BY <1>1, <2>2, CheckPlaces DEF Judge
    <3>2. ~smoke.troubled => smoke.cookie
      BY <3>1 DEF ScriptHolds
    <3> QED  BY <1>14, <2>2, <3>1, <3>2
  <2>3. smoke.at >= 8 /\ ~smoke.troubled => smoke.session /\ smoke.cookie /\ pc[SmokePost] = "acked"
    BY <1>1 DEF ScriptHolds
  <2>4. smoke.at >= 8 /\ ~smoke.troubled =>
           /\ row # None /\ snapshots # {}
           /\ \A k \in {"units", "targets"} : \E n \in RowNames : current[k][n] # None
    BY <2>3, ReportShown DEF Kinds
  <2>5. CASE Judge("state", smoke.session /\ smoke.cookie,
                   /\ row # None
                   /\ \A k \in {"units", "targets"} : \E n \in RowNames : current[k][n] # None)
    <3> DEFINE ready == smoke.session /\ smoke.cookie
               passed == /\ row # None
                         /\ \A k \in {"units", "targets"} : \E n \in RowNames : current[k][n] # None
    <3>1. smoke.at = 8
      BY <1>1, <2>5, CheckPlaces DEF Judge
    <3>2. ~smoke.troubled => ready /\ passed
      BY <1>1, <2>3, <2>4, <3>1
    <3>3. Judge("state", ready, passed)
      BY <2>5
    <3> HIDE DEF ready, passed
    <3> QED  BY <1>14, <3>1, <3>2, <3>3
  <2>6. CASE Judge("replay", smoke.session /\ smoke.cookie, row # None /\ snapshots # {})
    <3> DEFINE ready == smoke.session /\ smoke.cookie
               passed == row # None /\ snapshots # {}
    <3>1. smoke.at = 9
      BY <1>1, <2>6, CheckPlaces DEF Judge
    <3>2. ~smoke.troubled => ready /\ passed
      BY <1>1, <2>3, <2>4, <3>1
    <3>3. Judge("replay", ready, passed)
      BY <2>6
    <3> HIDE DEF ready, passed
    <3> QED  BY <1>14, <3>1, <3>2, <3>3
  <2>7. CASE Judge("report", smoke.session /\ smoke.cookie, row # None)
    <3> DEFINE ready == smoke.session /\ smoke.cookie
               passed == row # None
    <3>1. smoke.at = 10
      BY <1>1, <2>7, CheckPlaces DEF Judge
    <3>2. ~smoke.troubled => ready /\ passed
      BY <1>1, <2>3, <2>4, <3>1
    <3>3. Judge("report", ready, passed)
      BY <2>7
    <3> HIDE DEF ready, passed
    <3> QED  BY <1>14, <3>1, <3>2, <3>3
  <2>8. CASE Judge("logout", TRUE, TRUE)
    <3>1. smoke.at = 11
      BY <1>1, <2>8, CheckPlaces DEF Judge
    <3> QED  BY <1>14, <2>8, <3>1
  <2> QED  BY <1>15, <2>1, <2>2, <2>5, <2>6, <2>7, <2>8 DEF Reads
<1> QED  BY <1>6, <1>7, <1>8, <1>9, <1>10, <1>11, <1>12, <1>13, <1>15

\* The script sends one of its two requests.
LEMMA SendSmoke ==
    ASSUME LiveBase, user = "smoke", ReportHolds, SentHolds, FeedHolds, ScriptHolds,
           SendCreate \/ SendReport
    PROVE  ReportHolds' /\ SentHolds' /\ FeedHolds' /\ ScriptHolds'
<1>1. SmokeShaped /\ smoke.at \in Nat /\ Served
  BY DEF ScriptHolds, SmokeShaped, LiveBase
<1>2. UNCHANGED <<published, start, received>>
  BY DEF SendCreate, SendReport
<1>3. ASSUME smoke'.heard = smoke.heard, smoke'.at = smoke.at, smoke'.ok = smoke.ok,
             smoke'.troubled = smoke.troubled, smoke'.cookie = smoke.cookie,
             smoke'.session = smoke.session, smoke'.ws = smoke.ws,
             SmokeShaped', smoke.at \in {4, 6},
             smoke.at = 6 => smoke'.early = smoke.ws,
             smoke.session => pc'[Creator] = "acked"
      PROVE  FeedHolds' /\ ScriptHolds'
  <2>1. FeedHolds'
    BY <1>2, <1>3 DEF FeedHolds
  <2>2. smoke.at >= 6 <=> smoke.at = 6
    BY <1>3
  <2>3. ~smoke'.troubled =>
          /\ smoke'.at >= 3 => smoke'.cookie
          /\ smoke'.at >= 5 => smoke'.session
          /\ smoke'.at >= 6 => smoke'.ws
          /\ smoke'.at = 6 /\ smoke'.waiting => smoke'.early
    BY <1>1, <1>3, <2>2 DEF ScriptHolds
  <2>4. ~(smoke'.at >= 7) /\ ~(smoke'.at >= 8)
    BY <1>3
  <2>5. ~smoke.troubled => smoke.ok
    BY <1>3, <2>4 DEF ScriptHolds
  <2>6. (smoke'.session => pc'[Creator] = "acked") /\ (smoke'.ok => ~smoke'.troubled)
    BY <1>3 DEF ScriptHolds
  <2>7. smoke'.waiting => smoke'.at \in {4, 6}
    BY <1>3
  <2>8. ~smoke'.troubled => smoke'.ok
    BY <1>3, <2>5
  <2> QED  BY <1>3, <2>1, <2>3, <2>4, <2>6, <2>7, <2>8 DEF ScriptHolds
<1>4. CASE SendCreate
  <2>1. InsertSession /\ pc[Creator] = "idle" /\ row = None /\ smoke.at = 4
    BY <1>1, <1>4, CheckPlaces DEF SendCreate, InsertSession, LiveBase
  <2>2. /\ Begun(Creator) /\ pc'[Creator] = "startEvent" /\ row'.status = "running"
        /\ UNCHANGED <<current, events, snapshots, sent>>
    BY <1>1, <2>1, CreateBegins DEF InsertSession
  <2>3. pc[SmokePost] = "idle" /\ \A p \in Processes \ {Creator} : pc'[p] = pc[p]
    BY <2>1, <2>2 DEF ReportHolds, Begun
  <2>4. pc'[SmokePost] = "idle"
    BY <2>3, SmokeOwn
  <2>5. events \cap EventIds = {}
    BY <2>3 DEF ReportHolds
  <2>6. \A p \in Processes : pc'[p] # "idle" => p \in {Creator, SmokePost}
    BY <2>3 DEF ReportHolds
  <2>7. ReportHolds'
    BY <2>2, <2>4, <2>5, <2>6 DEF ReportHolds
  <2>8. SentHolds'
    BY <1>2, <2>2, <2>3, <2>4 DEF SentHolds
  <2>9. /\ smoke' = [at |-> smoke.at, ok |-> smoke.ok, cookie |-> smoke.cookie, session |-> smoke.session,
                     ws |-> smoke.ws, waiting |-> TRUE, heard |-> smoke.heard,
                     early |-> smoke.early, troubled |-> smoke.troubled]
    BY <1>1, <1>4 DEF SendCreate, SmokeShaped
  <2>10. SmokeShaped'
    BY <1>1, <2>9 DEF SmokeShaped
  <2>11. ~smoke.session
    BY <2>1 DEF ScriptHolds
  <2>12. FeedHolds' /\ ScriptHolds'
    BY <1>3, <2>1, <2>9, <2>10, <2>11
  <2> QED  BY <2>7, <2>8, <2>12
<1>5. CASE SendReport
  <2>1. /\ Receive(SmokePost, SmokeReport) /\ pc[SmokePost] = "idle" /\ smoke.at = 6
        /\ smoke.session /\ Begin(SmokePost)
    BY <1>1, <1>5, CheckPlaces DEF SendReport, Receive
  <2>2. pc[Creator] = "acked"
    BY <2>1 DEF ScriptHolds
  <2>3. row # None
    BY <2>2 DEF LiveBase
  <2>4. /\ Begun(SmokePost) /\ pc'[SmokePost] = "targets" /\ loc'[SmokePost].report = SmokeReport
        /\ row' = row /\ UNCHANGED <<current, events, snapshots, sent>>
    BY <1>1, <2>1, <2>3, ReceiveBegins, SmokeOwn DEF Begun
  <2>5. \A p \in Processes \ {SmokePost} : pc'[p] = pc[p]
    BY <2>4 DEF Begun
  <2>6. {q \in Processes \ {SmokePost} : Busy(q)} = {}
    BY <2>2 DEF ReportHolds, Busy, Over
  <2>7. SmokePost \in alone'
    BY <2>1, <2>6, SmokeOwn DEF Begin
  <2>8. pc'[Creator] = "acked" /\ \A p \in Processes : pc'[p] # "idle" => p \in {Creator, SmokePost}
    BY <2>2, <2>5, SmokeOwn DEF ReportHolds
  <2>9. events' \cap EventIds = {}
    BY <2>1, <2>4 DEF ReportHolds
  <2>10. row' # None => row'.status = "running"
    BY <2>4 DEF ReportHolds
  <2>11. ReportHolds'
    BY <2>3, <2>4, <2>7, <2>8, <2>9, <2>10 DEF ReportHolds
  <2>12. SentHolds'
    BY <1>2, <2>1, <2>4 DEF SentHolds
  <2>13. smoke' = [at |-> smoke.at, ok |-> smoke.ok, cookie |-> smoke.cookie, session |-> smoke.session,
                   ws |-> smoke.ws, waiting |-> TRUE, heard |-> smoke.heard,
                   early |-> smoke.ws, troubled |-> smoke.troubled]
    BY <1>1, <1>5 DEF SendReport, SmokeShaped
  <2>14. SmokeShaped'
    BY <1>1, <2>13 DEF SmokeShaped
  <2>15. FeedHolds' /\ ScriptHolds'
    BY <1>3, <2>1, <2>8, <2>13, <2>14
  <2> QED  BY <2>11, <2>12, <2>15
<1> QED  BY <1>4, <1>5

\* The server registers the connection.
LEMMA RegisterSmoke ==
    ASSUME ReportHolds, SentHolds, FeedHolds, ScriptHolds, Registered
    PROVE  ReportHolds' /\ SentHolds' /\ FeedHolds' /\ ScriptHolds'
<1>1. /\ UNCHANGED <<vars, smoke>> /\ start[Connection] = HubOrder!NotJoined
      /\ published' = published /\ received' = received
  BY DEF Registered, HubOrder!Join
<1>2. /\ pc' = pc /\ row' = row /\ alone' = alone /\ loc' = loc /\ events' = events /\ current' = current
      /\ sent' = sent /\ smoke' = smoke
  BY <1>1 DEF vars
<1>3. ReportHolds' /\ SentHolds'
  BY <1>1, <1>2 DEF ReportHolds, ReportStays, SentHolds
<1>4. PICK i \in 0 .. Len(published) : start' = [start EXCEPT ![Connection] = i]
  BY DEF Registered, HubOrder!Join
<1>5. Len(published) \in Nat
  BY DEF SentHolds
<1>6. start'[Connection] = i /\ start' \in [{Connection} -> Int]
  BY <1>4, <1>5 DEF FeedHolds
<1>7. received[Connection] = <<>>
  BY <1>1 DEF FeedHolds
<1>8. FeedHolds'
  <2>1. i # HubOrder!NotJoined
    BY <1>5 DEF HubOrder!NotJoined
  <2>2. Len(received[Connection]) = 0
    BY <1>7
  <2> QED  BY <1>1, <1>2, <1>5, <1>6, <2>1, <2>2 DEF FeedHolds
<1>9. ~Late
  <2>1. published \in Seq(Letters) /\ start[Connection] = -1
    BY <1>1 DEF SentHolds, HubOrder!NotJoined
  <2>2. DOMAIN published = 1 .. Len(published)
    BY <2>1
  <2> QED  BY <1>5, <2>1, <2>2 DEF Late
<1>10. ScriptHolds'
  BY <1>2, <1>9 DEF ScriptHolds, SmokeShaped, HeardAll, WithTargets
<1> QED  BY <1>3, <1>8, <1>10

\* A message comes over the connection.
LEMMA HearSmoke ==
    ASSUME ReportHolds, SentHolds, FeedHolds, ScriptHolds, Hears
    PROVE  ReportHolds' /\ SentHolds' /\ FeedHolds' /\ ScriptHolds'
<1>1. /\ UNCHANGED vars /\ start[Connection] # HubOrder!NotJoined
      /\ published' = published /\ start' = start /\ smoke.at = 7
  BY CheckPlaces DEF Hears, HubOrder!Deliver, ScriptHolds
<1>2. /\ pc' = pc /\ row' = row /\ alone' = alone /\ loc' = loc /\ events' = events /\ current' = current
      /\ sent' = sent
  BY <1>1 DEF vars
<1>3. ReportHolds' /\ SentHolds'
  BY <1>1, <1>2 DEF ReportHolds, ReportStays, SentHolds
<1>4. PICK from, got : from = start[Connection] /\ got = received[Connection]
  OBVIOUS
<1>5. PICK next : next = published[from + Len(got) + 1]
  OBVIOUS
<1>6. /\ from \in Nat /\ got \in Seq(Letters) /\ Len(got) \in Nat /\ published \in Seq(Letters)
      /\ \A j \in 1 .. Len(got) : got[j] = published[from + j]
  BY <1>1, <1>4 DEF FeedHolds, SentHolds
<1>7. from + Len(got) + 1 <= Len(published) /\ received' = [received EXCEPT ![Connection] = Append(@, next)]
  BY <1>4, <1>5 DEF Hears, HubOrder!Deliver
<1>8. next \in Letters
  <2>1. from + Len(got) + 1 \in 1 .. Len(published)
    BY <1>6, <1>7
  <2> QED  BY <1>5, <1>6, <2>1
<1>9. received'[Connection] = Append(got, next) /\ received' \in [{Connection} -> Seq(Letters)]
  BY <1>4, <1>6, <1>7, <1>8 DEF FeedHolds
<1>10. PICK more : more = Append(got, next)
  OBVIOUS
<1>11. /\ more \in Seq(Letters) /\ Len(more) = Len(got) + 1 /\ more[Len(got) + 1] = next
       /\ \A j \in 1 .. Len(got) : more[j] = got[j]
  BY <1>6, <1>8, <1>10
<1>12. Last(received'[Connection]) = next
  BY <1>9, <1>10, <1>11 DEF Last
<1>13. PICK heard1 : heard1 = IF next.type \in RequiredBattleWsEvents \ {m.type : m \in smoke.heard}
                              THEN smoke.heard \cup {next} ELSE smoke.heard
  OBVIOUS
<1>14. smoke' = [smoke EXCEPT !.heard = heard1]
  BY <1>12, <1>13 DEF Hears
<1>15. /\ SmokeShaped
       /\ smoke' = [at |-> smoke.at, ok |-> smoke.ok, cookie |-> smoke.cookie, session |-> smoke.session,
                    ws |-> smoke.ws, waiting |-> smoke.waiting, heard |-> heard1,
                    early |-> smoke.early, troubled |-> smoke.troubled]
  BY <1>14 DEF ScriptHolds, SmokeShaped
<1>16. SmokeShaped'
  <2>1. heard1 \subseteq Letters /\ smoke.at \in Nat
    BY <1>8, <1>13, <1>15 DEF SmokeShaped
  <2> QED  BY <1>15, <2>1 DEF SmokeShaped
<1>17. \A m \in heard1 : \E i \in 1 .. Len(more) : more[i] = m
  <2>1. ASSUME NEW m \in smoke.heard PROVE \E i \in 1 .. Len(more) : more[i] = m
    <3>1. PICK i \in 1 .. Len(got) : got[i] = m
      BY <1>4 DEF FeedHolds
    <3>2. i \in 1 .. Len(more) /\ more[i] = m
      BY <1>6, <1>11, <3>1
    <3> QED  BY <3>2
  <2>2. Len(got) + 1 \in 1 .. Len(more)
    BY <1>6, <1>11
  <2> QED  BY <1>11, <1>13, <2>1, <2>2
<1>18. \A i \in 1 .. Len(more) : \E m \in heard1 : m.type = more[i].type
  <2>1. ASSUME NEW i \in 1 .. Len(got) PROVE \E m \in heard1 : m.type = more[i].type
    <3>1. PICK m \in smoke.heard : m.type = got[i].type
      BY <1>4 DEF FeedHolds
    <3>2. m \in heard1 /\ more[i] = got[i]
      BY <1>11, <1>13
    <3> QED  BY <3>1, <3>2
  <2>2. \E m \in heard1 : m.type = next.type
    BY <1>8, <1>13 DEF Letters
  <2> QED  BY <1>6, <1>11, <2>1, <2>2
<1>19. FeedHolds'
  <2>1. ASSUME NEW j \in 1 .. Len(more) PROVE more[j] = published[from + j]
    <3>1. CASE j \in 1 .. Len(got)
      BY <1>6, <1>11, <3>1
    <3>2. CASE j = Len(got) + 1
      <4>1. from + j = from + Len(got) + 1
        BY <1>6, <3>2
      <4> QED  BY <1>5, <1>11, <3>2, <4>1
    <3> QED  BY <1>6, <1>11, <3>1, <3>2
  <2>2. from + Len(more) <= Len(published)
    BY <1>6, <1>7, <1>11
  <2>3. /\ start' \in [{Connection} -> Int] /\ start'[Connection] = from /\ received'[Connection] = more
        /\ smoke'.heard = heard1
    BY <1>1, <1>4, <1>9, <1>10, <1>15 DEF FeedHolds
  <2> QED  BY <1>1, <1>4, <1>6, <1>9, <1>17, <1>18, <2>1, <2>2, <2>3 DEF FeedHolds
<1>20. ScriptHolds'
  <2>1. smoke'.at = 7 /\ ~(smoke'.at >= 8) /\ ~(smoke.at >= 8)
    BY <1>1, <1>15
  <2>2. /\ smoke'.ok = smoke.ok /\ smoke'.cookie = smoke.cookie /\ smoke'.session = smoke.session
        /\ smoke'.ws = smoke.ws /\ smoke'.waiting = smoke.waiting /\ smoke'.early = smoke.early
        /\ smoke'.troubled = smoke.troubled /\ smoke'.at = smoke.at
    BY <1>15
  <2> QED  BY <1>2, <1>16, <2>1, <2>2 DEF ScriptHolds
<1> QED  BY <1>3, <1>19, <1>20

LEMMA NextSmoke == LiveBase /\ SmokeInv /\ [LiveNext]_liveVars => SmokeInv'
<1> SUFFICES ASSUME LiveBase, SmokeInv, [LiveNext]_liveVars PROVE SmokeInv'
  OBVIOUS
<1>1. user' = user
  BY DEF LiveNext, ServerMoves, Smoking, Probing, Simulating, Retaining, liveVars
<1> SUFFICES ASSUME user = "smoke" PROVE ReportHolds' /\ SentHolds' /\ FeedHolds' /\ ScriptHolds'
  BY <1>1 DEF SmokeInv
<1>2. ReportHolds /\ SentHolds /\ FeedHolds /\ ScriptHolds
  BY DEF SmokeInv
<1>3. CASE ServerMoves
  BY <1>2, <1>3, ServerSmoke
<1>4. CASE Smoking
  <2>1. CASE SendCreate \/ SendReport
    BY <1>2, <2>1, SendSmoke
  <2>2. CASE Registered
    BY <1>2, <2>2, RegisterSmoke
  <2>3. CASE Hears
    BY <1>2, <2>3, HearSmoke
  <2>4. CASE \/ SmokeStart \/ Login \/ CheckFails \/ CreateAnswered \/ ReportAnswered \/ Refused
             \/ Connects \/ HearEnds \/ Reads
    BY <1>2, <2>4, QuietScript
  <2> QED  BY <1>4, <2>1, <2>2, <2>3, <2>4 DEF Smoking, SmokeStep
<1>5. CASE UNCHANGED liveVars
  <2>1. Same /\ smoke' = smoke
    BY <1>5 DEF liveVars, smokeVars, Same
  <2>2. /\ ReportHolds' /\ SentHolds' /\ FeedHolds' /\ pc' = pc
        /\ (Late' <=> Late) /\ (HeardAll' <=> HeardAll) /\ (WithTargets' <=> WithTargets)
    BY <1>2, <2>1, QuietSmoke
  <2>3. ScriptHolds'
    BY <1>2, <2>1, <2>2 DEF ScriptHolds, SmokeShaped
  <2> QED  BY <2>2, <2>3
<1> QED  BY <1>3, <1>4, <1>5 DEF LiveNext, Probing, Simulating, Retaining

LEMMA LiveSmokes == LiveSpec => [](LiveBase /\ SmokeInv)
<1>1. LiveInit => LiveBase
  BY LiveInitBase
<1>2. LiveInit => SmokeInv
  <2> SUFFICES ASSUME LiveInit PROVE ReportHolds /\ SentHolds /\ FeedHolds /\ ScriptHolds
    BY DEF SmokeInv
  <2>1. /\ smoke = [at |-> 0, ok |-> TRUE, cookie |-> FALSE, session |-> FALSE, ws |-> FALSE,
                    waiting |-> FALSE, heard |-> {}, early |-> FALSE, troubled |-> FALSE]
        /\ published = <<>> /\ start = [c \in {Connection} |-> -1]
        /\ received = [c \in {Connection} |-> <<>>]
    BY DEF LiveInit, SmokeInit, HubOrder!Init, HubOrder!NotJoined
  <2>2. \A p \in Processes : pc[p] = "idle"
    BY DEF LiveInit, Init
  <2>3. row = None /\ events = {} /\ sent = {}
    BY DEF LiveInit, Init
  <2>4. ReportHolds
    BY <2>2, <2>3, SmokeOwn DEF ReportHolds
  <2>5. SentHolds
    BY <2>1, <2>2, <2>3, SmokeOwn DEF SentHolds
  <2>6. FeedHolds
    BY <2>1 DEF FeedHolds, HubOrder!NotJoined
  <2>7. ScriptHolds
    BY <2>1 DEF ScriptHolds, SmokeShaped
  <2> QED  BY <2>4, <2>5, <2>6, <2>7
<1>3. LiveBase /\ SmokeInv /\ [LiveNext]_liveVars => (LiveBase /\ SmokeInv)'
  BY NextBase, NextSmoke
<1> QED  BY <1>1, <1>2, <1>3, PTL DEF LiveSpec

LEMMA SmokeIsOver ==
    ASSUME LiveBase, SmokeInv, SmokeOver
    PROVE  user = "smoke" /\ SmokeShaped /\ smoke.at >= 8
<1>1. user = "smoke"
  <2>1. Len(SmokeChecks) = 11
    BY DEF SmokeChecks
  <2> QED  BY <2>1 DEF LiveBase, SmokeOver
<1>2. SmokeShaped /\ smoke.at \in Nat
  BY <1>1 DEF SmokeInv, ScriptHolds, SmokeShaped
<1>3. smoke.at > 11
  BY <1>2, CheckPlaces
<1> QED  BY <1>1, <1>2, <1>3

\* When smoke_check.py prints that every check passed, the report it posted was committed
\* whole, with its snapshot, every message the services made of it reached the WebSocket
\* of the script, and the session is left running.
THEOREM LiveSmokePasses == LiveSpec => []SmokePassMeans
<1>1. ASSUME LiveBase, SmokeInv, SmokeOver, smoke.ok
      PROVE  /\ pc[SmokePost] = "acked"
             /\ ReportStays
             /\ Payload[SmokeReport].events \subseteq events
             /\ \E s \in snapshots : s.by = SmokePost
             /\ {m \in sent : m.by = SmokePost} \subseteq ToSet(received[Connection])
             /\ row.status = "running"
  <2>1. user = "smoke" /\ smoke.at >= 8 /\ ReportHolds /\ SentHolds /\ FeedHolds /\ ScriptHolds
    BY <1>1, SmokeIsOver DEF SmokeInv
  <2>2. ~smoke.troubled
    BY <1>1, <2>1 DEF ScriptHolds
  <2>3. smoke.at \in Nat /\ smoke.at >= 7
    BY <2>1 DEF ScriptHolds, SmokeShaped
  <2>4. pc[SmokePost] = "acked" /\ HeardAll /\ WithTargets
    BY <1>1, <2>1, <2>2, <2>3 DEF ScriptHolds
  <2>5. /\ row.status = "running" /\ ReportStays
        /\ Payload[SmokeReport].events \subseteq events /\ \E s \in snapshots : s.by = SmokePost
    BY <1>1, <2>1, <2>4, ReportShown
  <2>6. ASSUME NEW m \in sent, m.by = SmokePost PROVE m \in ToSet(received[Connection])
    <3>1. m.type \in RequiredBattleWsEvents
      BY <2>1 DEF SentHolds, Letters
    <3>2. PICK n \in smoke.heard : n.type = m.type
      BY <2>4, <3>1 DEF HeardAll
    <3>3. PICK i \in 1 .. Len(received[Connection]) : received[Connection][i] = n
      BY <2>1 DEF FeedHolds
    <3>4. received[Connection] \in Seq(Letters)
      BY <2>1 DEF FeedHolds
    <3>5. n \in sent
      <4>1. start[Connection] # HubOrder!NotJoined
        <5>1. Len(received[Connection]) # 0
          BY <3>3, <3>4
        <5>2. received[Connection] # <<>>
          BY <5>1
        <5> QED  BY <2>1, <5>2 DEF FeedHolds
      <4>2. /\ start[Connection] + i \in 1 .. Len(published)
            /\ n = published[start[Connection] + i]
        <5>1. PICK from, got : from = start[Connection] /\ got = received[Connection]
          OBVIOUS
        <5>2. /\ from \in Nat /\ from + Len(got) <= Len(published)
              /\ got[i] = published[from + i]
          BY <2>1, <4>1, <5>1 DEF FeedHolds
        <5>3. Len(got) \in Nat /\ Len(published) \in Nat /\ i \in 1 .. Len(got)
          BY <2>1, <3>4, <5>1 DEF SentHolds
        <5>4. from + i \in 1 .. Len(published)
          BY <5>2, <5>3
        <5> QED  BY <3>3, <5>1, <5>2, <5>4
      <4> QED  BY <2>1, <4>2 DEF SentHolds
    <3>6. n.by = SmokePost
      <4>1. n.by = Creator => n.type # "battle_state_updated"
        BY <2>4 DEF WithTargets
      <4> QED  BY <2>1, <3>5, <4>1 DEF SentHolds
    <3>7. n = m
      BY <2>1, <2>6, <3>2, <3>5, <3>6 DEF SentHolds
    <3> QED  BY <3>3, <3>7 DEF ToSet
  <2> QED  BY <2>4, <2>5, <2>6
<1>2. LiveBase /\ SmokeInv => SmokePassMeans
  BY <1>1 DEF SmokePassMeans, ReportStays
<1> QED  BY <1>2, LiveSmokes, PTL

\* When smoke_check.py fails although no request did, its connection was answered before
\* the report was posted and registered after its broadcasts, or the state it heard was the
\* one that the creation of the session broadcast.
THEOREM LiveSmokeFails == LiveSpec => []SmokeFailsOnlyByRace
<1>1. ASSUME LiveBase, SmokeInv, SmokeOver, ~smoke.ok, ~smoke.troubled
      PROVE  (smoke.early /\ Late) \/ ~WithTargets
  <2>1. smoke.at >= 8 /\ ScriptHolds
    BY <1>1, SmokeIsOver DEF SmokeInv
  <2>2. smoke.at >= 7
    BY <2>1 DEF ScriptHolds, SmokeShaped
  <2> QED  BY <1>1, <2>1, <2>2 DEF ScriptHolds
<1>2. LiveBase /\ SmokeInv => SmokeFailsOnlyByRace
  BY <1>1 DEF SmokeFailsOnlyByRace
<1> QED  BY <1>2, LiveSmokes, PTL
=============================================================================
