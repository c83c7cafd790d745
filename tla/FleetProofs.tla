----------------------------- MODULE FleetProofs -----------------------------
(***************************************************************************)
(* Proofs about Fleet, for any ships, MMSIs, demo ships and requests.      *)
(***************************************************************************)
EXTENDS Fleet, Integers, SequenceTheorems, TLAPS

USE DEF boot

\* What a request that read its ship knows of it: if the ship is not live any more, it
\* was deleted since.
ReadHolds(r) ==
    /\ pc[r] = "insert" => r \in late
    /\ pc[r] \in {"loaded", "reading"} /\ ~Live(req[r].ship) => r \in late

\* The row lock: whoever holds it found the alarm open and is alone.
LockHolds(r) == pc[r] = "holding" =>
    /\ alarm[req[r].alarm].status = "OPEN"
    /\ \A q \in Requests : pc[q] = "holding" /\ req[q].alarm = req[r].alarm => q = r

\* A report raises its alarm once.
AlarmHolds(r) ==
    pc[r] \in {"idle", "found", "reading", "stored"} => alarm[r].status = "none"

FleetInv == /\ TypeOK
            /\ \A r \in Requests : ReadHolds(r) /\ LockHolds(r) /\ AlarmHolds(r)

\* The initial state satisfies the inductive invariant.
LEMMA InitFleet == Init => FleetInv
  <1>1. 1 \in 1 .. Len(Seeded) + 1
    <2>1. Len(Seeded) \in Nat
      BY FleetAssumption
    <2>2. QED
      BY <2>1
  <1>2. (CHOOSE m \in MMSIs : TRUE) \in MMSIs
    BY FleetAssumption
  <1>3. ASSUME Init
        PROVE  row \in [Ships -> [state : {"absent", "live", "deleted"}, mmsi : MMSIs]]
    BY <1>2, <1>3 DEF Init
  <1>4. ASSUME Init
        PROVE  seeds \in 1 .. Len(Seeded) + 1
    BY <1>1, <1>4 DEF Init
  <1>5. ASSUME Init
        PROVE  told \in [Requests -> Seq({"OPEN", "ACKED"})]
    BY <1>5 DEF Init
  <1>6. ASSUME Init
        PROVE  /\ alarm \in [Requests -> [status : {"none", "OPEN", "ACKED"}, by : Requests \cup {Nobody}]]
               /\ \A a \in Requests : alarm[a].status = "ACKED" <=> alarm[a].by # Nobody
               /\ \A s \in Ships : row[s].state = "absent"
    BY <1>6 DEF Init
  <1>7. ASSUME Init
        PROVE  /\ pc \in [Requests -> Pcs]
               /\ req \in [Requests -> Updates \cup Reports \cup Acks \cup {<<>>}]
               /\ \A r \in Requests : req[r] \in LocalsAt(pc[r])
    BY <1>7 DEF Init, Pcs, Updating, Reporting, Acking, LocalsAt
  <1>8. ASSUME Init
        PROVE  \A r \in Requests : ReadHolds(r) /\ LockHolds(r) /\ AlarmHolds(r)
    BY <1>8 DEF Init, ReadHolds, LockHolds, AlarmHolds
  <1>9. ASSUME Init
        PROVE  /\ location \subseteq ((Requests \cup {"seed"}) \X Ships)
               /\ server \in {"down", "seeding", "up"} /\ fault \in BOOLEAN /\ found \subseteq Ships
               /\ late \subseteq Requests /\ early \subseteq Requests
    BY <1>9 DEF Init
  <1>10. QED
    BY <1>3, <1>4, <1>5, <1>6, <1>7, <1>8, <1>9 DEF FleetInv, TypeOK

\* Moving a request that keeps or loses its locals keeps everyone's locals well typed.
LEMMA GotoTypes ==
    ASSUME TypeOK, NEW r \in Requests, NEW place \in Pcs, Goto(r, place),
           place # "done" => LocalsAt(place) = LocalsAt(pc[r])
    PROVE  /\ pc' \in [Requests -> Pcs]
           /\ req' \in [Requests -> Updates \cup Reports \cup Acks \cup {<<>>}]
           /\ \A q \in Requests : req'[q] \in LocalsAt(pc'[q])
           /\ late' \subseteq Requests
           /\ \A q \in Requests \ {r} : pc'[q] = pc[q] /\ req'[q] = req[q] /\ (q \in late' <=> q \in late)
           /\ pc'[r] = place
           /\ place # "done" => req' = req /\ late' = late
  BY DEF TypeOK, Goto, Pcs, Updating, Reporting, Acking, LocalsAt

\* A request that begins, or is answered at once, has locals that fit its place.
LEMMA BeginTypes ==
    ASSUME TypeOK, NEW r \in Requests, NEW place \in Pcs,
           NEW locals \in Updates \cup Reports \cup Acks,
           Begin(r, locals, place), place = "done" \/ locals \in LocalsAt(place)
    PROVE  /\ pc' \in [Requests -> Pcs]
           /\ req' \in [Requests -> Updates \cup Reports \cup Acks \cup {<<>>}]
           /\ \A q \in Requests : req'[q] \in LocalsAt(pc'[q])
           /\ late' = late
           /\ \A q \in Requests \ {r} : pc'[q] = pc[q] /\ req'[q] = req[q]
           /\ pc[r] = "idle" /\ pc'[r] = place
           /\ place # "done" => req'[r] = locals
  BY DEF TypeOK, Begin, Pcs, Updating, Reporting, Acking, LocalsAt

\* What TypeOK says of the table ships.
Tables == /\ row \in [Ships -> [state : {"absent", "live", "deleted"}, mmsi : MMSIs]]
          /\ \A s \in Ships : row[s].state # "absent" => Free(row[s].mmsi, s)

\* Writing a row with an MMSI that is free for it keeps MMSIs unique.
LEMMA InsertKeepsTables ==
    ASSUME Tables, NEW s \in Ships, NEW m \in MMSIs, Free(m, s),
           row' = [row EXCEPT ![s] = Row("live", m)]
    PROVE  Tables'
  BY DEF Tables, Free, Holds, Row

\* A demo ship is found or inserted (seed in database.go).
LEMMA SeedShipStep == FleetInv /\ SeedShip => FleetInv'
  <1> SUFFICES ASSUME FleetInv, SeedShip PROVE FleetInv'
    OBVIOUS
  <1> DEFINE m == Seeded[seeds]
  <1> PICK s \in Ships : /\ found' = {s}
                         /\ IF Lookup(m) # {} THEN s \in Lookup(m) /\ UNCHANGED row ELSE Insert(s, m)
    BY DEF SeedShip
  <1>1. m \in MMSIs
    BY FleetAssumption DEF FleetInv, TypeOK, SeedShip, AtSeed
  <1> HIDE DEF m
  <1>2. Tables /\ Tables'
    <2>1. Tables
      BY DEF FleetInv, TypeOK, Tables
    <2>2. CASE row' = row
      BY <2>1, <2>2 DEF Tables, Free, Holds
    <2>3. CASE Insert(s, m)
      BY <1>1, <2>1, <2>3, InsertKeepsTables DEF Insert
    <2>4. QED
      BY <2>2, <2>3
  <1>4. TypeOK'
    BY <1>2 DEF FleetInv, TypeOK, Tables, SeedShip
  <1>5. \A t \in Ships : Live(t) => Live(t)'
    BY <1>2 DEF Insert, Live, Row, Tables
  <1>6. ASSUME NEW r \in Requests PROVE ReadHolds(r)'
    <2>1. pc[r] \in {"loaded", "reading"} => req[r].ship \in Ships
      BY DEF FleetInv, TypeOK, LocalsAt, Updating, Reporting, Updates, Reports
    <2>2. QED
      BY <1>5, <2>1 DEF FleetInv, ReadHolds, SeedShip
  <1>7. ASSUME NEW r \in Requests PROVE LockHolds(r)' /\ AlarmHolds(r)'
    BY DEF FleetInv, LockHolds, AlarmHolds, SeedShip
  <1>8. QED
    BY <1>4, <1>6, <1>7 DEF FleetInv

\* Steps of the process that write no ship and no alarm.
LEMMA ProcessStep == FleetInv /\ (Start \/ SeedLocation \/ SeedFails \/ SeedBreaks \/ Serve) => FleetInv'
  <1> SUFFICES ASSUME FleetInv, Start \/ SeedLocation \/ SeedFails \/ SeedBreaks \/ Serve PROVE FleetInv'
    OBVIOUS
  <1>1. UNCHANGED <<row, alarm, told, pc, req, late, early>>
    BY DEF Start, SeedLocation, SeedFails, SeedBreaks, StartOver, Serve, tables
  <1>2. server' \in {"down", "seeding", "up"} /\ fault' \in BOOLEAN
    BY DEF Start, SeedLocation, SeedFails, SeedBreaks, StartOver, Serve, FleetInv, TypeOK
  <1>3. seeds' \in 1 .. Len(Seeded) + 1 /\ found' \subseteq Ships
    <2>1. Len(Seeded) \in Nat
      BY FleetAssumption
    <2>2. QED
      BY <2>1 DEF Start, SeedLocation, AtSeed, SeedFails, SeedBreaks, StartOver, Serve, FleetInv, TypeOK
  <1>4. location' \subseteq ((Requests \cup {"seed"}) \X Ships)
    BY DEF Start, SeedLocation, SeedFails, SeedBreaks, StartOver, Serve, tables, FleetInv, TypeOK
  <1>5. TypeOK'
    BY <1>1, <1>2, <1>3, <1>4 DEF FleetInv, TypeOK, Free, Holds
  <1>6. QED
    BY <1>1, <1>5 DEF FleetInv, ReadHolds, LockHolds, AlarmHolds, Live

\* The end of the process takes the locks and the locals with it.
LEMMA CrashStep == FleetInv /\ Crash => FleetInv'
  <1> SUFFICES ASSUME FleetInv, Crash PROVE FleetInv'
    OBVIOUS
  <1>1. UNCHANGED <<row, location, alarm, told, early>>
    BY DEF Crash, StartOver, tables
  <1>2. \A r \in Requests : \/ pc'[r] = "cut" /\ pc[r] \in {"raised", "saved", "cut"}
                            \/ pc'[r] = pc[r] /\ pc[r] = "idle"
                            \/ pc'[r] = "done"
    BY DEF FleetInv, TypeOK, Crash
  <1>3. \A r \in Requests : pc'[r] \in Pcs /\ req'[r] \in LocalsAt(pc'[r])
    BY DEF FleetInv, TypeOK, Crash, Pcs, LocalsAt, Updating, Reporting, Acking
  <1>4. req' \in [Requests -> Updates \cup Reports \cup Acks \cup {<<>>}]
    BY DEF FleetInv, TypeOK, Crash
  <1>5. TypeOK'
    <2>1. Len(Seeded) \in Nat
      BY FleetAssumption
    <2>2. QED
      BY <1>1, <1>3, <1>4, <2>1 DEF FleetInv, TypeOK, Free, Holds, Crash, StartOver
  <1>6. QED
    BY <1>1, <1>2, <1>5 DEF FleetInv, ReadHolds, LockHolds, AlarmHolds

\* A new row has an MMSI that no row has, deleted ones included (Store.CreateShip).
LEMMA CreateShipStep ==
    ASSUME FleetInv, NEW s \in Ships, NEW m \in MMSIs, CreateShip(s, m)
    PROVE  FleetInv'
  <1>1. UNCHANGED <<location, alarm, told, boot, pc, req, late, early>>
    BY DEF CreateShip
  <1>2. Tables'
    BY InsertKeepsTables DEF FleetInv, TypeOK, Tables, CreateShip, Insert
  <1>3. TypeOK'
    BY <1>1, <1>2 DEF FleetInv, TypeOK, Tables
  <1>4. \A t \in Ships : Live(t) => Live(t)'
    BY <1>2 DEF CreateShip, Insert, Live, Row, Tables, FleetInv, TypeOK
  <1>5. ASSUME NEW r \in Requests PROVE ReadHolds(r)'
    <2>1. pc[r] \in {"loaded", "reading"} => req[r].ship \in Ships
      BY DEF FleetInv, TypeOK, LocalsAt, Updating, Reporting, Updates, Reports
    <2>2. QED
      BY <1>1, <1>4, <2>1 DEF FleetInv, ReadHolds
  <1>6. QED
    BY <1>1, <1>3, <1>5 DEF FleetInv, LockHolds, AlarmHolds

\* Whoever read the ship and has not saved yet is late from now on.
LEMMA DeleteShipStep ==
    ASSUME FleetInv, NEW s \in Ships, DeleteShip(s)
    PROVE  FleetInv'
  <1>1. UNCHANGED <<location, alarm, told, boot, pc, req, early>>
    BY DEF DeleteShip
  <1>2. Tables'
    BY DEF FleetInv, TypeOK, Tables, DeleteShip, Free, Holds, Live
  <1>3. TypeOK'
    BY <1>1, <1>2 DEF FleetInv, TypeOK, Tables, DeleteShip
  <1>4. \A t \in Ships \ {s} : Live(t) => Live(t)'
    BY DEF DeleteShip, Live, FleetInv, TypeOK
  <1>5. ASSUME NEW r \in Requests PROVE ReadHolds(r)'
    <2>1. pc[r] \in {"loaded", "reading"} => req[r].ship \in Ships
      BY DEF FleetInv, TypeOK, LocalsAt, Updating, Reporting, Updates, Reports
    <2>2. r \in late => r \in late'
      BY DEF DeleteShip
    <2>3. CASE pc[r] \in {"loaded", "reading"} /\ req[r].ship = s
      BY <1>1, <2>3 DEF DeleteShip, ReadHolds
    <2>4. CASE ~(pc[r] \in {"loaded", "reading"} /\ req[r].ship = s)
      BY <1>1, <1>4, <2>1, <2>2, <2>4 DEF FleetInv, ReadHolds
    <2>5. QED
      BY <2>3, <2>4
  <1>6. QED
    BY <1>1, <1>3, <1>5 DEF FleetInv, LockHolds, AlarmHolds
\* A request that answers at once, or has read its ship.
LEMMA ReadStep ==
    ASSUME FleetInv, NEW r \in Requests, NEW s \in Ships, NEW locals \in Updates \cup Reports,
           NEW place \in {"loaded", "found"}, locals \in LocalsAt(place), locals.ship = s,
           Begin(r, locals, IF GetShip(s) THEN place ELSE "done"),
           UNCHANGED <<tables, told, boot, early>>
    PROVE  FleetInv'
  <1> DEFINE goal == IF GetShip(s) THEN place ELSE "done"
  <1>1. goal \in Pcs /\ (goal = "done" \/ locals \in LocalsAt(goal))
    BY DEF Pcs, Updating, Reporting
  <1>2. /\ pc' \in [Requests -> Pcs]
        /\ req' \in [Requests -> Updates \cup Reports \cup Acks \cup {<<>>}]
        /\ \A q \in Requests : req'[q] \in LocalsAt(pc'[q])
        /\ late' = late
        /\ \A q \in Requests \ {r} : pc'[q] = pc[q] /\ req'[q] = req[q]
        /\ pc[r] = "idle" /\ pc'[r] = goal
        /\ goal # "done" => req'[r] = locals
    BY <1>1, BeginTypes DEF FleetInv
  <1> HIDE DEF goal
  <1>3. TypeOK'
    BY <1>2 DEF FleetInv, TypeOK, tables, Free, Holds
  <1>4. (goal \in {"loaded", "found"} /\ Live(s)) \/ goal = "done"
    BY DEF goal, GetShip
  <1>5. ASSUME NEW q \in Requests PROVE ReadHolds(q)' /\ LockHolds(q)' /\ AlarmHolds(q)'
    <2>1. UNCHANGED <<row, alarm>>
      BY DEF tables
    <2>2. CASE q = r
      BY <1>2, <1>4, <2>1, <2>2 DEF FleetInv, ReadHolds, LockHolds, AlarmHolds, Live
    <2>3. CASE q # r
      BY <1>2, <1>4, <2>1, <2>3 DEF FleetInv, ReadHolds, LockHolds, AlarmHolds, Live
    <2>4. QED
      BY <2>2, <2>3
  <1>6. QED
    BY <1>3, <1>5 DEF FleetInv

\* The first read of a request; an acknowledgement takes the row lock with it.
LEMMA ArriveStep == ASSUME FleetInv, NEW r \in Requests, Arrive(r) PROVE FleetInv'
  <1>1. CASE \E s \in Ships, m \in MMSIs : LoadShip(r, s, m)
    <2> PICK s \in Ships, m \in MMSIs : LoadShip(r, s, m)
      BY <1>1
    <2>1. [ship |-> s, mmsi |-> m] \in Updates /\ LocalsAt("loaded") = Updates
      BY DEF Updates, LocalsAt, Updating
    <2>2. QED
      BY <2>1, ReadStep DEF LoadShip
  <1>2. CASE \E s \in Ships, fast \in BOOLEAN : ReportLocation(r, s, fast)
    <2> PICK s \in Ships, fast \in BOOLEAN : ReportLocation(r, s, fast)
      BY <1>2
    <2>1. [ship |-> s, fast |-> fast] \in Reports /\ LocalsAt("found") = Reports
      BY DEF Reports, LocalsAt, Updating, Reporting
    <2>2. QED
      BY <2>1, ReadStep DEF ReportLocation
  <1>3. CASE \E a \in Requests : AckAlarmReads(r, a)
    <2> PICK a \in Requests : AckAlarmReads(r, a)
      BY <1>3
    <2> DEFINE goal == IF alarm[a].status = "ACKED" THEN "done" ELSE "holding"
               locals == [alarm |-> a]
    <2>1. locals \in Acks /\ goal \in Pcs /\ (goal = "done" \/ locals \in LocalsAt(goal))
      BY DEF Acks, Pcs, LocalsAt, Updating, Reporting, Acking
    <2>2. /\ pc' \in [Requests -> Pcs]
          /\ req' \in [Requests -> Updates \cup Reports \cup Acks \cup {<<>>}]
          /\ \A q \in Requests : req'[q] \in LocalsAt(pc'[q])
          /\ late' = late
          /\ \A q \in Requests \ {r} : pc'[q] = pc[q] /\ req'[q] = req[q]
          /\ pc[r] = "idle" /\ pc'[r] = goal
          /\ goal # "done" => req'[r] = locals
      BY <2>1, BeginTypes DEF FleetInv, AckAlarmReads
    <2>3. UNCHANGED <<row, location, alarm, told, boot, early>>
      BY DEF AckAlarmReads, tables
    <2>4. TypeOK'
      BY <2>2, <2>3 DEF FleetInv, TypeOK, Free, Holds
    <2>5. alarm[a].status \in {"OPEN", "ACKED"}
      BY DEF AckAlarmReads, FleetInv, TypeOK
    <2>6. \A q \in Requests : ~(pc[q] = "holding" /\ req[q].alarm = a)
      BY DEF AckAlarmReads
    <2>7. ASSUME NEW q \in Requests PROVE ReadHolds(q)' /\ LockHolds(q)' /\ AlarmHolds(q)'
      <3>1. CASE q = r
        BY <2>2, <2>3, <2>5, <2>6, <3>1 DEF ReadHolds, LockHolds, AlarmHolds
      <3>2. CASE q # r
        BY <2>2, <2>3, <2>6, <3>2 DEF FleetInv, ReadHolds, LockHolds, AlarmHolds, Live
      <3>3. QED
        BY <3>1, <3>2
    <2>8. QED
      BY <2>4, <2>7 DEF FleetInv
  <1>4. QED
    BY <1>1, <1>2, <1>3 DEF Arrive
\* A step of a request that keeps its locals or ends it, writes no row and no alarm, and
\* does not get the request to a place where it has to know more.
LEMMA MoveStep ==
    ASSUME FleetInv, NEW r \in Requests, NEW place \in Pcs, Goto(r, place),
           place # "done" => LocalsAt(place) = LocalsAt(pc[r]),
           place \notin {"idle", "found", "reading", "insert", "loaded", "holding"},
           place = "stored" => pc[r] = "reading",
           UNCHANGED <<row, alarm, boot, early>>,
           location' \subseteq ((Requests \cup {"seed"}) \X Ships),
           told' \in [Requests -> Seq({"OPEN", "ACKED"})]
    PROVE  FleetInv'
  <1>1. /\ pc' \in [Requests -> Pcs]
        /\ req' \in [Requests -> Updates \cup Reports \cup Acks \cup {<<>>}]
        /\ \A q \in Requests : req'[q] \in LocalsAt(pc'[q])
        /\ late' \subseteq Requests
        /\ \A q \in Requests \ {r} : pc'[q] = pc[q] /\ req'[q] = req[q] /\ (q \in late' <=> q \in late)
        /\ pc'[r] = place
        /\ place # "done" => req' = req /\ late' = late
    BY GotoTypes DEF FleetInv
  <1>2. TypeOK'
    BY <1>1 DEF FleetInv, TypeOK, Free, Holds
  <1>3. ASSUME NEW q \in Requests PROVE ReadHolds(q)' /\ LockHolds(q)' /\ AlarmHolds(q)'
    <2>1. CASE q = r
      BY <1>1, <2>1 DEF FleetInv, ReadHolds, LockHolds, AlarmHolds
    <2>2. CASE q # r
      <3>1. ReadHolds(q)' /\ AlarmHolds(q)'
        BY <1>1, <2>2 DEF FleetInv, ReadHolds, AlarmHolds, Live
      <3>2. LockHolds(q)'
        BY <1>1, <2>2, ZenonT(30) DEF FleetInv, LockHolds
      <3>3. QED
        BY <3>1, <3>2
    <2>3. QED
      BY <2>1, <2>2
  <1>4. QED
    BY <1>2, <1>3 DEF FleetInv

\* The last step of an update, which leaves its ship live.
LEMMA SaveStep ==
    ASSUME FleetInv, NEW r \in Requests, NEW s \in Ships, NEW m \in MMSIs,
           Free(m, s), Answer(r), row' = [row EXCEPT ![s] = Row("live", m)],
           UNCHANGED <<location, alarm, told, boot, early>>
    PROVE  FleetInv'
  <1>1. /\ pc' \in [Requests -> Pcs]
        /\ req' \in [Requests -> Updates \cup Reports \cup Acks \cup {<<>>}]
        /\ \A q \in Requests : req'[q] \in LocalsAt(pc'[q])
        /\ late' \subseteq Requests
        /\ \A q \in Requests \ {r} : pc'[q] = pc[q] /\ req'[q] = req[q] /\ (q \in late' <=> q \in late)
        /\ pc'[r] = "done"
    BY GotoTypes DEF FleetInv, Answer, Pcs
  <1>2. Tables'
    BY InsertKeepsTables DEF FleetInv, TypeOK, Tables
  <1>3. TypeOK'
    BY <1>1, <1>2 DEF FleetInv, TypeOK, Tables
  <1>4. \A t \in Ships : Live(t) => Live(t)'
    BY DEF Live, Row, FleetInv, TypeOK
  <1>5. ASSUME NEW q \in Requests PROVE ReadHolds(q)' /\ LockHolds(q)' /\ AlarmHolds(q)'
    <2>1. CASE q = r
      BY <1>1, <2>1 DEF ReadHolds, LockHolds, AlarmHolds
    <2>2. CASE q # r
      <3>1. pc[q] \in {"loaded", "reading"} => req[q].ship \in Ships
        BY DEF FleetInv, TypeOK, LocalsAt, Updating, Reporting, Updates, Reports
      <3>2. ReadHolds(q)'
        BY <1>1, <1>4, <2>2, <3>1 DEF FleetInv, ReadHolds
      <3>3. QED
        BY <1>1, <2>2, <3>2 DEF FleetInv, LockHolds, AlarmHolds
    <2>3. QED
      BY <2>1, <2>2
  <1>6. QED
    BY <1>3, <1>5 DEF FleetInv

\* The UPDATE of Save, which finds no row if the ship was deleted since it was read.
LEMMA SaveUpdatesStep == ASSUME FleetInv, NEW r \in Requests, SaveUpdates(r) PROVE FleetInv'
  <1> DEFINE s == req[r].ship
             m == req[r].mmsi
  <1>1. pc[r] = "loaded" /\ s \in Ships /\ m \in MMSIs
    BY DEF SaveUpdates, FleetInv, TypeOK, LocalsAt, Updating, Updates
  <1>2. UNCHANGED <<location, alarm, told, boot, early>>
    BY DEF SaveUpdates
  <1>3. CASE ~Live(s) /\ Goto(r, "insert") /\ UNCHANGED row
    <2>1. /\ pc' \in [Requests -> Pcs]
          /\ req' = req /\ late' = late
          /\ \A q \in Requests : req'[q] \in LocalsAt(pc'[q])
          /\ \A q \in Requests \ {r} : pc'[q] = pc[q]
          /\ pc'[r] = "insert"
      BY <1>1, <1>3, GotoTypes DEF FleetInv, Pcs, Updating, LocalsAt
    <2>2. TypeOK'
      BY <1>2, <1>3, <2>1 DEF FleetInv, TypeOK, Free, Holds
    <2>3. r \in late
      BY <1>1, <1>3 DEF FleetInv, ReadHolds
    <2>4. ASSUME NEW q \in Requests PROVE ReadHolds(q)' /\ LockHolds(q)' /\ AlarmHolds(q)'
      BY <1>2, <1>3, <2>1, <2>3 DEF FleetInv, ReadHolds, LockHolds, AlarmHolds, Live
    <2>5. QED
      BY <2>2, <2>4 DEF FleetInv
  <1>4. CASE Answer(r) /\ UNCHANGED row
    BY <1>2, <1>4, MoveStep DEF Answer, Pcs, FleetInv, TypeOK
  <1>5. CASE /\ Live(s) /\ Free(m, s) /\ Answer(r)
             /\ row' = [row EXCEPT ![s] = Row("live", m)]
    BY <1>1, <1>2, <1>5, SaveStep
  <1>6. QED
    BY <1>3, <1>4, <1>5 DEF SaveUpdates
\* The upsert that Save falls back to.
LEMMA SaveInsertsStep == ASSUME FleetInv, NEW r \in Requests, SaveInserts(r) PROVE FleetInv'
  <1> DEFINE s == req[r].ship
             m == req[r].mmsi
  <1>1. s \in Ships /\ m \in MMSIs
    BY DEF SaveInserts, FleetInv, TypeOK, LocalsAt, Updating, Updates
  <1>2. Answer(r) /\ UNCHANGED <<location, alarm, told, boot, early>>
    BY DEF SaveInserts
  <1>3. CASE Free(m, s) /\ row' = [row EXCEPT ![s] = Row("live", m)]
    BY <1>1, <1>2, <1>3, SaveStep
  <1>4. CASE UNCHANGED row
    BY <1>2, <1>4, MoveStep DEF Answer, Pcs, FleetInv, TypeOK
  <1>5. QED
    BY <1>3, <1>4 DEF SaveInserts

\* The read of the transaction of Store.CreateLocation.
LEMMA CreateLocationReadsStep ==
    ASSUME FleetInv, NEW r \in Requests, CreateLocationReads(r) PROVE FleetInv'
  <1>1. pc[r] = "found" /\ UNCHANGED <<row, location, alarm, told, boot, early>>
    BY DEF CreateLocationReads, tables
  <1>2. CASE Goto(r, "done")
    BY <1>1, <1>2, MoveStep DEF Pcs, FleetInv, TypeOK
  <1>3. CASE Goto(r, "reading") /\ Live(req[r].ship)
    <2>1. /\ pc' \in [Requests -> Pcs]
          /\ req' = req /\ late' = late
          /\ \A q \in Requests : req'[q] \in LocalsAt(pc'[q])
          /\ \A q \in Requests \ {r} : pc'[q] = pc[q]
          /\ pc'[r] = "reading"
      BY <1>1, <1>3, GotoTypes DEF FleetInv, Pcs, Reporting, Updating, LocalsAt
    <2>2. TypeOK'
      BY <1>1, <2>1 DEF FleetInv, TypeOK, Free, Holds
    <2>3. ASSUME NEW q \in Requests PROVE ReadHolds(q)' /\ LockHolds(q)' /\ AlarmHolds(q)'
      BY <1>1, <1>3, <2>1 DEF FleetInv, ReadHolds, LockHolds, AlarmHolds, Live
    <2>4. QED
      BY <2>2, <2>3 DEF FleetInv
  <1>4. QED
    BY <1>2, <1>3 DEF CreateLocationReads

\* The insert of a location.
LEMMA CreateLocationStep ==
    ASSUME FleetInv, NEW r \in Requests, CreateLocation(r) PROVE FleetInv'
  <1>1. pc[r] = "reading" /\ UNCHANGED <<row, alarm, told, boot, early>>
    BY DEF CreateLocation
  <1>2. location' \subseteq ((Requests \cup {"seed"}) \X Ships)
    <2>1. req[r].ship \in Ships
      BY <1>1 DEF FleetInv, TypeOK, LocalsAt, Updating, Reporting, Reports
    <2>2. QED
      BY <2>1 DEF CreateLocation, FleetInv, TypeOK
  <1>3. CASE Goto(r, "stored")
    BY <1>1, <1>2, <1>3, MoveStep DEF FleetInv, TypeOK, Pcs, Reporting, Updating, LocalsAt
  <1>4. CASE Goto(r, "done")
    BY <1>1, <1>2, <1>4, MoveStep DEF FleetInv, TypeOK, Pcs
  <1>5. QED
    BY <1>3, <1>4 DEF CreateLocation

\* The announcements of an alarm and of its acknowledgement.
LEMMA AnnounceStep ==
    ASSUME FleetInv, NEW r \in Requests, AnnounceAlarm(r) \/ AnnounceAck(r) PROVE FleetInv'
  <1>1. Goto(r, "done") /\ UNCHANGED <<row, location, alarm, boot, early>>
    BY DEF AnnounceAlarm, AnnounceAck, Answer, tables
  <1>2. told' \in [Requests -> Seq({"OPEN", "ACKED"})]
    <2>1. CASE AnnounceAlarm(r)
      <3>1. Append(told[r], "OPEN") \in Seq({"OPEN", "ACKED"})
        BY DEF FleetInv, TypeOK
      <3>2. QED
        BY <2>1, <3>1 DEF FleetInv, TypeOK, AnnounceAlarm
    <2>2. CASE AnnounceAck(r)
      <3>1. req[r].alarm \in Requests
        BY <2>2 DEF AnnounceAck, FleetInv, TypeOK, LocalsAt, Updating, Reporting, Acking, Acks
      <3>2. Append(told[req[r].alarm], "ACKED") \in Seq({"OPEN", "ACKED"})
        BY <3>1 DEF FleetInv, TypeOK
      <3>3. QED
        BY <2>2, <3>1, <3>2 DEF FleetInv, TypeOK, AnnounceAck
    <2>3. QED
      BY <2>1, <2>2
  <1>3. QED
    BY <1>1, <1>2, MoveStep DEF FleetInv, TypeOK, Pcs

\* A request that fails gives up its lock and its locals.
LEMMA FailStep == ASSUME FleetInv, NEW r \in Requests, Fail(r) PROVE FleetInv'
  BY MoveStep DEF Fail, Answer, tables, FleetInv, TypeOK, Pcs

\* A report raises its alarm where none was, so no acknowledgement waits for it.
LEMMA CreateAlarmStep ==
    ASSUME FleetInv, NEW r \in Requests, CreateAlarm(r) PROVE FleetInv'
  <1>1. pc[r] = "stored" /\ Goto(r, "raised")
    BY DEF CreateAlarm
  <1>2. /\ pc' \in [Requests -> Pcs]
        /\ req' = req /\ late' = late
        /\ \A q \in Requests : req'[q] \in LocalsAt(pc'[q])
        /\ \A q \in Requests \ {r} : pc'[q] = pc[q]
        /\ pc'[r] = "raised"
    BY <1>1, GotoTypes DEF FleetInv, Pcs, Reporting, Updating, LocalsAt
  <1>3. /\ alarm[r].status = "none"
        /\ alarm' = [alarm EXCEPT ![r].status = "OPEN"]
        /\ UNCHANGED <<row, location, told, boot, early>>
    BY <1>1 DEF CreateAlarm, FleetInv, AlarmHolds
  <1>4. TypeOK'
    BY <1>2, <1>3 DEF FleetInv, TypeOK, Free, Holds
  <1>5. ASSUME NEW q \in Requests PROVE ReadHolds(q)' /\ AlarmHolds(q)'
    BY <1>2, <1>3 DEF FleetInv, TypeOK, ReadHolds, AlarmHolds, Live
  <1>6. ASSUME NEW q \in Requests PROVE LockHolds(q)'
    <2>1. pc[q] = "holding" => req[q].alarm \in Requests /\ req[q].alarm # r
      BY <1>3 DEF FleetInv, TypeOK, LockHolds, LocalsAt, Updating, Reporting, Acking, Acks
    <2>2. QED
      BY <1>2, <1>3, <2>1 DEF FleetInv, TypeOK, LockHolds
  <1>7. QED
    BY <1>4, <1>5, <1>6 DEF FleetInv

\* An acknowledgement is saved by the only holder of the row lock.
LEMMA AckAlarmSavesStep ==
    ASSUME FleetInv, NEW r \in Requests, AckAlarmSaves(r) PROVE FleetInv'
  <1> DEFINE a == req[r].alarm
  <1>1. pc[r] = "holding" /\ Goto(r, "saved") /\ a \in Requests
    BY DEF AckAlarmSaves, FleetInv, TypeOK, LocalsAt, Updating, Reporting, Acking, Acks
  <1>2. /\ pc' \in [Requests -> Pcs]
        /\ req' = req /\ late' = late
        /\ \A q \in Requests : req'[q] \in LocalsAt(pc'[q])
        /\ \A q \in Requests \ {r} : pc'[q] = pc[q]
        /\ pc'[r] = "saved"
    BY <1>1, GotoTypes DEF FleetInv, Pcs, Reporting, Updating, Acking, LocalsAt
  <1>3. /\ alarm' = [alarm EXCEPT ![a] = [status |-> "ACKED", by |-> r]]
        /\ UNCHANGED <<row, location, told, boot>>
        /\ early' \subseteq Requests
    BY <1>1 DEF AckAlarmSaves, FleetInv, TypeOK
  <1>4. r # Nobody
    BY FleetAssumption
  <1>5. TypeOK'
    BY <1>1, <1>2, <1>3, <1>4 DEF FleetInv, TypeOK, Free, Holds
  <1>6. alarm[a].status = "OPEN"
    BY <1>1 DEF FleetInv, LockHolds
  <1>7. ASSUME NEW q \in Requests PROVE ReadHolds(q)' /\ AlarmHolds(q)'
    BY <1>1, <1>2, <1>3, <1>6 DEF FleetInv, TypeOK, ReadHolds, AlarmHolds, Live
  <1>8. ASSUME NEW q \in Requests PROVE LockHolds(q)'
    <2>1. q # r /\ pc[q] = "holding" => req[q].alarm \in Requests /\ req[q].alarm # a
      BY <1>1 DEF FleetInv, TypeOK, LockHolds, LocalsAt, Updating, Reporting, Acking, Acks
    <2>2. QED
      BY <1>1, <1>2, <1>3, <2>1 DEF FleetInv, TypeOK, LockHolds
  <1>9. QED
    BY <1>5, <1>7, <1>8 DEF FleetInv

\* A stuttering step keeps the inductive invariant.
LEMMA StutterStep == FleetInv /\ UNCHANGED vars => FleetInv'
  BY DEF vars, tables, FleetInv, TypeOK, ReadHolds, LockHolds, AlarmHolds, Free, Holds, Live

\* Every step keeps the inductive invariant.
LEMMA NextFleet == FleetInv /\ [Next]_vars => FleetInv'
  <1> SUFFICES ASSUME FleetInv, [Next]_vars PROVE FleetInv'
    OBVIOUS
  <1>1. CASE Start \/ Boot \/ SeedBreaks \/ Crash
    BY <1>1, ProcessStep, SeedShipStep, CrashStep DEF Boot
  <1>2. CASE \E s \in Ships : DeleteShip(s) \/ \E m \in MMSIs : CreateShip(s, m)
    BY <1>2, DeleteShipStep, CreateShipStep
  <1>3. ASSUME NEW r \in Requests, Arrive(r) \/ Handle(r) \/ Fail(r) PROVE FleetInv'
    BY <1>3, ArriveStep, FailStep, SaveUpdatesStep, SaveInsertsStep, CreateLocationReadsStep,
       CreateLocationStep, CreateAlarmStep, AnnounceStep, AckAlarmSavesStep DEF Handle
  <1>4. CASE UNCHANGED vars
    BY <1>4, StutterStep
  <1>5. QED
    BY <1>1, <1>2, <1>3, <1>4 DEF Next

\* The state of ships, alarms and requests is well typed, MMSIs are unique, deleted ships
\* included, and requests know what the inductive invariant says (services.go, store.go).
THEOREM FleetInvariant == Spec => []FleetInv
  <1>1. QED
    BY InitFleet, NextFleet, PTL DEF Spec
\* The first acknowledgement of an alarm stands (Store.AckAlarm): the row lock keeps a
\* second one from reading the alarm as open.
THEOREM FleetAcks == Spec => AckKept
  <1>1. ASSUME FleetInv, [Next]_vars, NEW a \in Requests, alarm[a].status = "ACKED"
        PROVE  alarm'[a] = alarm[a]
    <2>1. CASE \E r \in Requests : CreateAlarm(r)
      <3> PICK r \in Requests : CreateAlarm(r)
        BY <2>1
      <3>1. alarm[r].status = "none"
        BY <1>1 DEF CreateAlarm, FleetInv, AlarmHolds
      <3>2. QED
        BY <1>1, <3>1 DEF CreateAlarm, FleetInv, TypeOK
    <2>2. CASE \E r \in Requests : AckAlarmSaves(r)
      <3> PICK r \in Requests : AckAlarmSaves(r)
        BY <2>2
      <3>1. alarm[req[r].alarm].status = "OPEN"
        BY <1>1 DEF AckAlarmSaves, FleetInv, LockHolds
      <3>2. QED
        BY <1>1, <3>1 DEF AckAlarmSaves, FleetInv, TypeOK
    <2>3. CASE ~\E r \in Requests : CreateAlarm(r) \/ AckAlarmSaves(r)
      <3>1. UNCHANGED alarm
        BY <1>1, <2>3 DEF Next, Start, Boot, SeedShip, SeedLocation, SeedFails, SeedBreaks, StartOver, Serve, Crash, CreateShip, DeleteShip,
           Arrive, LoadShip, ReportLocation, AckAlarmReads, Handle, SaveUpdates, SaveInserts,
           CreateLocationReads, CreateLocation, AnnounceAlarm, AnnounceAck, Fail, tables, vars
      <3>2. QED
        BY <3>1
    <2>4. QED
      BY <2>1, <2>2, <2>3
  <1>2. FleetInv /\ [Next]_vars =>
          [\A a \in Requests : alarm[a].status = "ACKED" => alarm'[a] = alarm[a]]_vars
    BY <1>1
  <1>3. QED
    BY <1>2, FleetInvariant, PTL DEF Spec, AckKept

\* A deleted ship comes back only through an update that read it before the delete
\* (AppService.UpdateShip): of all the writers of ships only SaveInserts writes a deleted
\* row, and a request that gets there is late.
THEOREM FleetDeletes == Spec => RevivedOnlyByOverlap
  <1>1. ASSUME FleetInv, [Next]_vars, NEW s \in Ships,
               row[s].state = "deleted", row'[s].state = "live"
        PROVE  \E r \in late : pc[r] = "insert" /\ req[r].ship = s
    <2>1. CASE \E r \in Requests : SaveInserts(r)
      <3> PICK r \in Requests : SaveInserts(r)
        BY <2>1
      <3>1. pc[r] = "insert" /\ r \in late
        BY <1>1 DEF SaveInserts, FleetInv, ReadHolds
      <3>2. req[r].ship = s
        BY <1>1 DEF SaveInserts, FleetInv, TypeOK
      <3>3. QED
        BY <3>1, <3>2
    <2>2. CASE \E r \in Requests : SaveUpdates(r)
      BY <1>1, <2>2 DEF SaveUpdates, Live, FleetInv, TypeOK
    <2>3. CASE SeedShip
      BY <1>1, <2>3 DEF SeedShip, Insert, FleetInv, TypeOK
    <2>4. CASE \E t \in Ships : DeleteShip(t) \/ \E m \in MMSIs : CreateShip(t, m)
      BY <1>1, <2>4 DEF DeleteShip, CreateShip, Insert, Live, FleetInv, TypeOK
    <2>5. CASE UNCHANGED row
      BY <1>1, <2>5
    <2>6. QED
      BY <1>1, <2>1, <2>2, <2>3, <2>4, <2>5 DEF Next, Start, Boot, SeedLocation, SeedFails, SeedBreaks, StartOver, Serve, Crash,
         Arrive, LoadShip, ReportLocation, AckAlarmReads, Handle, CreateLocationReads,
         CreateLocation, CreateAlarm, AnnounceAlarm, AckAlarmSaves, AnnounceAck, Fail, tables, vars
  <1>2. FleetInv /\ [Next]_vars =>
          [\A s \in Ships : row[s].state = "deleted" /\ row'[s].state = "live" =>
             \E r \in late : pc[r] = "insert" /\ req[r].ship = s]_vars
    BY <1>1
  <1>3. QED
    BY <1>2, FleetInvariant, PTL DEF Spec, RevivedOnlyByOverlap
-----------------------------------------------------------------------------
(* The start of the server.                                                *)

\* Demo ship m is in the table and has a location.
Settled(m) == \E s \in Lookup(m) : \E at \in location : at[2] = s

\* While the server starts no request is under way; the demo ships it is through with are
\* settled, and the one it has found is in the table.
SeedInv ==
    /\ server # "up" => \A r \in Requests : pc[r] \in {"idle", "done", "cut"}
    /\ server # "seeding" => seeds = 1 /\ found = {}
    /\ server = "seeding" => \A i \in 1 .. seeds - 1 : Settled(Seeded[i])
    /\ found # {} => seeds <= Len(Seeded) /\ found \subseteq Lookup(Seeded[seeds])

\* Nothing that the server does for a request happens while it starts.
LEMMA ServedUp ==
    ASSUME FleetInv, SeedInv, NEW r \in Requests, Arrive(r) \/ Handle(r) \/ Fail(r)
    PROVE  SeedInv'
  <1>1. server = "up"
    <2>1. CASE Arrive(r)
      BY <2>1 DEF Arrive, LoadShip, ReportLocation, AckAlarmReads, Begin
    <2>2. CASE Handle(r) \/ Fail(r)
      <3>1. pc[r] \notin {"idle", "done", "cut"}
        BY <2>2 DEF Handle, SaveUpdates, SaveInserts, CreateLocationReads, CreateLocation, CreateAlarm,
           AnnounceAlarm, AckAlarmSaves, AnnounceAck, Fail
      <3>2. QED
        BY <3>1 DEF SeedInv
    <2>3. QED
      BY <2>1, <2>2
  <1>2. UNCHANGED boot
    BY DEF Arrive, LoadShip, ReportLocation, AckAlarmReads, Handle, SaveUpdates, SaveInserts,
       CreateLocationReads, CreateLocation, CreateAlarm, AnnounceAlarm, AckAlarmSaves, AnnounceAck, Fail
  <1>3. QED
    BY <1>1, <1>2 DEF SeedInv

\* What a start has settled stays settled while it goes on.
LEMMA SeedInvStep == FleetInv /\ SeedInv /\ [Next]_vars => SeedInv'
  <1> SUFFICES ASSUME FleetInv, SeedInv, [Next]_vars PROVE SeedInv'
    OBVIOUS
  <1>0. Len(Seeded) \in Nat /\ seeds \in 1 .. Len(Seeded) + 1
    BY FleetAssumption DEF FleetInv, TypeOK
  <1>1. CASE Start
    BY <1>1 DEF Start, SeedInv, tables
  <1>2. CASE SeedFails \/ SeedBreaks \/ Serve
    <2>1. server = "seeding" /\ server' # "seeding" /\ seeds' = 1 /\ found' = {} /\ pc' = pc
      <3>1. CASE SeedFails \/ SeedBreaks
        BY <3>1 DEF SeedFails, SeedBreaks, StartOver, AtSeed
      <3>2. CASE Serve
        BY <1>0, <3>2 DEF Serve, SeedInv
      <3>3. QED
        BY <1>2, <3>1, <3>2
    <2>2. QED
      BY <2>1 DEF SeedInv
  <1>3. CASE Crash
    <2>1. \A r \in Requests : pc'[r] \in {"idle", "done", "cut"}
      BY <1>3 DEF Crash
    <2>2. QED
      BY <1>3, <2>1 DEF Crash, StartOver, SeedInv
  <1>4. CASE SeedShip
    <2>1. PICK s \in Ships :
             /\ found' = {s}
             /\ IF Lookup(Seeded[seeds]) # {} THEN s \in Lookup(Seeded[seeds]) /\ UNCHANGED row
                                              ELSE Insert(s, Seeded[seeds])
      BY <1>4 DEF SeedShip
    <2>2. UNCHANGED <<location, server, seeds, pc>> /\ server = "seeding" /\ seeds <= Len(Seeded)
      BY <1>4 DEF SeedShip, AtSeed
    <2>3. \A t \in Ships : Live(t) => row'[t] = row[t]
      BY <2>1 DEF Insert, Live, FleetInv, TypeOK
    <2>4. ASSUME NEW m, Settled(m) PROVE Settled(m)'
      <3>1. PICK t \in Lookup(m), at \in location : at[2] = t
        BY <2>4 DEF Settled
      <3>2. t \in Lookup(m)' /\ at \in location'
        BY <2>2, <2>3, <3>1 DEF Lookup, Live
      <3>3. QED
        BY <3>1, <3>2 DEF Settled
    <2>5. s \in Lookup(Seeded[seeds])'
      <3>1. CASE row' = row /\ s \in Lookup(Seeded[seeds])
        BY <2>2, <3>1 DEF Lookup, Live
      <3>2. CASE Insert(s, Seeded[seeds])
        BY <2>2, <3>2 DEF Insert, Row, Lookup, Live, FleetInv, TypeOK
      <3>3. QED
        BY <2>1, <3>1, <3>2
    <2>6. QED
      BY <2>1, <2>2, <2>4, <2>5 DEF SeedInv
  <1>5. CASE SeedLocation
    <2>1. /\ UNCHANGED <<row, server, pc>> /\ found' = {} /\ seeds' = seeds + 1 /\ server = "seeding"
          /\ location \subseteq location' /\ found \subseteq Lookup(Seeded[seeds]) /\ found # {}
      BY <1>5 DEF SeedLocation, AtSeed, SeedInv
    <2>2. PICK s \in found : TRUE
      BY <2>1
    <2>3. \E at \in location' : at[2] = s
      <3>1. CASE \A at \in location : at[2] # s
        <4>1. <<"seed", s>> \in location'
          BY <1>5, <3>1 DEF SeedLocation
        <4>2. QED
          BY <4>1
      <3>2. CASE ~\A at \in location : at[2] # s
        BY <2>1, <3>2
      <3>3. QED
        BY <3>1, <3>2
    <2>4. \A m : Lookup(m)' = Lookup(m)
      BY <2>1 DEF Lookup, Live
    <2>5. ASSUME NEW m, m = Seeded[seeds] PROVE Settled(m)'
      <3>1. s \in Lookup(m)'
        BY <2>1, <2>2, <2>4, <2>5
      <3>2. QED
        BY <2>3, <3>1 DEF Settled
    <2>6. ASSUME NEW m, Settled(m) PROVE Settled(m)'
      BY <2>1, <2>4, <2>6 DEF Settled
    <2>7. \A i \in 1 .. seeds' - 1 : i \in 1 .. seeds - 1 \/ i = seeds
      BY <1>0, <2>1
    <2>8. ASSUME NEW i \in 1 .. seeds' - 1 PROVE Settled(Seeded[i])'
      <3>1. Settled(Seeded[i]) \/ Seeded[i] = Seeded[seeds]
        BY <2>1, <2>7 DEF SeedInv
      <3>2. QED
        BY <2>5, <2>6, <3>1
    <2>9. QED
      BY <2>1, <2>8 DEF SeedInv
  <1>6. CASE \E s \in Ships : DeleteShip(s) \/ \E m \in MMSIs : CreateShip(s, m)
    BY <1>6 DEF DeleteShip, CreateShip, SeedInv
  <1>7. ASSUME NEW r \in Requests, Arrive(r) \/ Handle(r) \/ Fail(r) PROVE SeedInv'
    BY <1>7, ServedUp
  <1>8. CASE UNCHANGED vars
    BY <1>8 DEF vars, SeedInv, Settled, Lookup, Live
  <1>9. QED
    BY <1>1, <1>2, <1>3, <1>4, <1>5, <1>6, <1>7, <1>8 DEF Next, Boot

LEMMA SeedInvariant == Spec => []SeedInv
  <1>1. Init => SeedInv
    BY DEF Init, SeedInv
  <1>2. QED
    BY <1>1, SeedInvStep, FleetInvariant, PTL DEF Spec

\* A server that serves has every demo ship in its table, with a location (seed in
\* database.go), whatever earlier starts were cut off in between.
THEOREM FleetSeeds == Spec => ServesSeeded
  <1>1. ASSUME FleetInv, SeedInv, [Next]_vars, server = "seeding", server' = "up", NEW m \in DemoMMSIs
        PROVE  \E s \in Lookup(m) : \E at \in location : at[2] = s
    <2>1. seeds > Len(Seeded)
      <3>1. Start \/ Boot \/ SeedBreaks \/ Crash \/ UNCHANGED server
        BY <1>1 DEF Next, vars, DeleteShip, CreateShip, Arrive, LoadShip, ReportLocation, AckAlarmReads,
           Handle, SaveUpdates, SaveInserts, CreateLocationReads, CreateLocation, CreateAlarm,
           AnnounceAlarm, AckAlarmSaves, AnnounceAck, Fail
      <3>2. QED
        BY <1>1, <3>1 DEF Start, Boot, SeedShip, SeedLocation, SeedFails, SeedBreaks, StartOver, Serve, Crash
    <2>2. PICK i \in 1 .. Len(Seeded) : m = Seeded[i]
      BY FleetAssumption DEF DemoMMSIs
    <2>3. i \in 1 .. seeds - 1
      <3>1. Len(Seeded) \in Nat /\ seeds \in Nat
        BY <1>1, FleetAssumption DEF FleetInv, TypeOK
      <3>2. QED
        BY <2>1, <2>2, <3>1
    <2>4. QED
      BY <1>1, <2>2, <2>3 DEF SeedInv, Settled
  <1>2. FleetInv /\ SeedInv /\ [Next]_vars =>
          [server = "seeding" /\ server' = "up" =>
             \A m \in DemoMMSIs : \E s \in Lookup(m) : \E at \in location : at[2] = s]_vars
    BY <1>1
  <1>3. QED
    BY <1>2, FleetInvariant, SeedInvariant, PTL DEF Spec, ServesSeeded

\* A location of a deleted ship is stored only if the ship was deleted while the
\* transaction ran (Store.CreateLocation); a seeded location is of a live ship.
THEOREM FleetTracks == Spec => TracksOfLiveShips
  <1>1. ASSUME FleetInv, SeedInv, [Next]_vars, NEW at \in location' \ location
        PROVE  row'[at[2]].state = "live" \/ at[1] \in late
    <2>1. CASE \E r \in Requests : CreateLocation(r)
      <3> PICK r \in Requests : CreateLocation(r)
        BY <2>1
      <3>1. pc[r] = "reading" /\ at = <<r, req[r].ship>> /\ UNCHANGED row
        BY <1>1 DEF CreateLocation
      <3>2. Live(req[r].ship) \/ r \in late
        BY <1>1, <3>1 DEF FleetInv, ReadHolds
      <3>3. QED
        BY <3>1, <3>2 DEF Live
    <2>2. CASE SeedLocation
      <3>1. UNCHANGED row /\ \E s \in found : at = <<"seed", s>>
        BY <1>1, <2>2 DEF SeedLocation
      <3>2. QED
        BY <1>1, <3>1 DEF SeedInv, Lookup, Live
    <2>3. CASE UNCHANGED location
      BY <1>1, <2>3
    <2>4. QED
      BY <1>1, <2>1, <2>2, <2>3 DEF Next, Start, Boot, SeedShip, SeedFails, SeedBreaks, StartOver, Serve, Crash, CreateShip, DeleteShip,
         Arrive, LoadShip, ReportLocation, AckAlarmReads, Handle, SaveUpdates, SaveInserts,
         CreateLocationReads, CreateAlarm, AnnounceAlarm, AckAlarmSaves, AnnounceAck, Fail, tables, vars
  <1>2. FleetInv /\ SeedInv /\ [Next]_vars =>
          [\A at \in location' \ location : row'[at[2]].state = "live" \/ at[1] \in late]_vars
    BY <1>1
  <1>3. QED
    BY <1>2, FleetInvariant, SeedInvariant, PTL DEF Spec, TracksOfLiveShips

-----------------------------------------------------------------------------
(* The announcements of an alarm.                                          *)

\* An acknowledgement that was saved and not announced yet is the one that stands.
SavedHolds(r) == pc[r] = "saved" => alarm[req[r].alarm] = [status |-> "ACKED", by |-> r]

\* An announcement about alarm a is still to come: that it was raised, ...
Raising(a) == pc[a] = "raised"

\* ... that it was acknowledged, ...
Confirming(a) == \E r \in Requests : pc[r] = "saved" /\ req[r].alarm = a

\* ... or one was cut off by the end of the process.
CutOff(a) == \/ pc[a] = "cut"
             \/ \E r \in Requests : pc[r] = "cut" /\ req[r] = [alarm |-> a]

\* What was announced about an alarm of some status when nothing was cut off.
Said(a) ==
    \/ alarm[a].status = "none" /\ ~Raising(a) /\ told[a] = <<>>
    \/ alarm[a].status = "OPEN" /\ told[a] = IF Raising(a) THEN <<>> ELSE <<"OPEN">>
    \/ /\ alarm[a].status = "ACKED"
       /\ Raising(a) => a \in early /\ told[a] = IF Confirming(a) THEN <<>> ELSE <<"ACKED">>
       /\ ~Raising(a) => IF Confirming(a) THEN told[a] = <<"OPEN">>
                         ELSE \/ told[a] = <<"OPEN", "ACKED">>
                              \/ a \in early /\ told[a] = <<"ACKED", "OPEN">>

TellInv == \A a \in Requests : SavedHolds(a) /\ (CutOff(a) \/ Said(a))

\* The second of two.
LEMMA AppendSecond == ASSUME NEW x, NEW y PROVE Append(<<x>>, y) = <<x, y>>
  <1>1. <<x>> \in Seq({x, y}) /\ Len(<<x>>) = 1 /\ <<x>>[1] = x
    OBVIOUS
  <1>2. <<x, y>> \in Seq({x, y}) /\ Len(<<x, y>>) = 2 /\ <<x, y>>[1] = x /\ <<x, y>>[2] = y
    OBVIOUS
  <1> DEFINE s == Append(<<x>>, y)
             p == <<x, y>>
  <1>3. s \in Seq({x, y}) /\ Len(s) = 2 /\ s[1] = x /\ s[2] = y
    BY <1>1
  <1> HIDE DEF s, p
  <1>4. \A i \in 1 .. Len(s) : s[i] = p[i]
    BY <1>2, <1>3 DEF p
  <1>5. s = p
    BY <1>2, <1>3, <1>4, SeqEqual DEF p
  <1>6. QED
    BY <1>5 DEF s, p

\* The locals of a request that acknowledges.
LEMMA AckLocals ==
    ASSUME TypeOK, NEW r \in Requests, pc[r] \in {"holding", "saved"}
    PROVE  req[r] = [alarm |-> req[r].alarm] /\ req[r].alarm \in Requests
  <1>1. req[r] \in Acks
    BY DEF TypeOK, LocalsAt, Updating, Reporting, Acking
  <1>2. QED
    BY <1>1 DEF Acks

\* A step that announces nothing, changes no alarm, and takes no request to or from a
\* place where an announcement is to come.
LEMMA QuietTell ==
    ASSUME TellInv, UNCHANGED <<alarm, told, early>>,
           \A r \in Requests : /\ pc'[r] = "saved" <=> pc[r] = "saved"
                               /\ pc'[r] = "raised" <=> pc[r] = "raised"
                               /\ pc[r] = "cut" => pc'[r] = "cut"
                               /\ pc[r] \in {"saved", "cut"} => req'[r] = req[r]
    PROVE  TellInv'
  <1>1. ASSUME NEW r \in Requests PROVE SavedHolds(r)'
    BY DEF TellInv, SavedHolds
  <1>2. ASSUME NEW a \in Requests, CutOff(a) PROVE CutOff(a)'
    BY <1>2 DEF CutOff
  <1>3. ASSUME NEW a \in Requests, Said(a) PROVE Said(a)'
    <2>1. (Raising(a)' <=> Raising(a)) /\ (Confirming(a)' <=> Confirming(a))
      BY DEF Raising, Confirming
    <2> HIDE DEF Raising, Confirming
    <2>2. QED
      BY <1>3, <2>1 DEF Said
  <1>4. QED
    BY <1>1, <1>2, <1>3 DEF TellInv

\* A step of one request from a place without announcement to another one.
LEMMA QuietMove ==
    ASSUME TypeOK, TellInv, UNCHANGED <<alarm, told, early>>, NEW r \in Requests,
           NEW place, pc' = [pc EXCEPT ![r] = place], place \notin {"saved", "raised", "cut"},
           pc[r] \notin {"saved", "raised", "cut"},
           \A q \in Requests \ {r} : req'[q] = req[q]
    PROVE  TellInv'
  <1>1. \A q \in Requests \ {r} : pc'[q] = pc[q]
    BY DEF TypeOK
  <1>2. pc'[r] = place
    BY DEF TypeOK
  <1>3. QED
    BY <1>1, <1>2, QuietTell

\* Every step that has nothing to do with announcements.
LEMMA QuietSteps ==
    ASSUME TypeOK, TellInv, [Next]_vars, ~Crash,
           ~\E r \in Requests : CreateAlarm(r) \/ AnnounceAlarm(r) \/ AckAlarmSaves(r) \/ AnnounceAck(r)
    PROVE  TellInv'
  <1>1. CASE UNCHANGED <<alarm, told, early, pc, req>>
    BY <1>1, QuietTell
  <1>2. ASSUME NEW r \in Requests, NEW locals, NEW place, Begin(r, locals, place),
               place \notin {"saved", "raised", "cut"}, UNCHANGED <<alarm, told, early>>
        PROVE  TellInv'
    <2>1. pc[r] = "idle" /\ pc' = [pc EXCEPT ![r] = place] /\ \A q \in Requests \ {r} : req'[q] = req[q]
      BY <1>2 DEF Begin, TypeOK
    <2>2. QED
      BY <1>2, <2>1, QuietMove
  <1>3. ASSUME NEW r \in Requests, NEW place, Goto(r, place), place \notin {"saved", "raised", "cut"},
               pc[r] \notin {"saved", "raised", "cut"}, UNCHANGED <<alarm, told, early>>
        PROVE  TellInv'
    <2>1. pc' = [pc EXCEPT ![r] = place] /\ \A q \in Requests \ {r} : req'[q] = req[q]
      BY <1>3 DEF Goto, TypeOK
    <2>2. QED
      BY <1>3, <2>1, QuietMove
  <1>4. ASSUME NEW r \in Requests, Arrive(r) PROVE TellInv'
    <2>1. UNCHANGED <<alarm, told, early>>
      BY <1>4 DEF Arrive, LoadShip, ReportLocation, AckAlarmReads, tables
    <2>2. \E locals, place : Begin(r, locals, place) /\ place \notin {"saved", "raised", "cut"}
      <3>1. ASSUME NEW s \in Ships, NEW m \in MMSIs, LoadShip(r, s, m)
            PROVE  \E locals, place : Begin(r, locals, place) /\ place \notin {"saved", "raised", "cut"}
        BY <3>1 DEF LoadShip
      <3>2. ASSUME NEW s \in Ships, NEW fast \in BOOLEAN, ReportLocation(r, s, fast)
            PROVE  \E locals, place : Begin(r, locals, place) /\ place \notin {"saved", "raised", "cut"}
        BY <3>2 DEF ReportLocation
      <3>3. ASSUME NEW a \in Requests, AckAlarmReads(r, a)
            PROVE  \E locals, place : Begin(r, locals, place) /\ place \notin {"saved", "raised", "cut"}
        BY <3>3 DEF AckAlarmReads
      <3>4. QED
        BY <1>4, <3>1, <3>2, <3>3 DEF Arrive
    <2>3. QED
      BY <1>2, <2>1, <2>2
  <1>5. ASSUME NEW r \in Requests,
               SaveUpdates(r) \/ SaveInserts(r) \/ CreateLocationReads(r) \/ CreateLocation(r) \/ Fail(r)
        PROVE  TellInv'
    <2>1. UNCHANGED <<alarm, told, early>> /\ pc[r] \notin {"saved", "raised", "cut"}
      BY <1>5 DEF SaveUpdates, SaveInserts, CreateLocationReads, CreateLocation, Fail, tables
    <2>2. \E place \in {"insert", "reading", "stored", "done"} : Goto(r, place)
      BY <1>5 DEF SaveUpdates, SaveInserts, CreateLocationReads, CreateLocation, Fail, Answer
    <2>3. QED
      BY <1>3, <2>1, <2>2
  <1>6. CASE Start \/ Boot \/ SeedBreaks \/ \E s \in Ships : DeleteShip(s) \/ \E m \in MMSIs : CreateShip(s, m)
    BY <1>1, <1>6 DEF Start, Boot, SeedShip, SeedLocation, SeedFails, SeedBreaks, StartOver, Serve, DeleteShip, CreateShip, tables
  <1>7. CASE UNCHANGED vars
    BY <1>1, <1>7 DEF vars, tables
  <1>8. QED
    BY <1>4, <1>5, <1>6, <1>7 DEF Next, Handle

\* The end of the process cuts off what was still to be announced.
LEMMA CrashTell == ASSUME FleetInv, TellInv, Crash PROVE TellInv'
  <1>1. UNCHANGED <<alarm, told, early>>
    BY DEF Crash, StartOver, tables
  <1>2. \A r \in Requests : /\ pc'[r] \notin {"saved", "raised"}
                            /\ pc[r] \in {"raised", "saved", "cut"} => pc'[r] = "cut" /\ req'[r] = req[r]
    BY DEF Crash
  <1>3. ASSUME NEW r \in Requests PROVE SavedHolds(r)'
    BY <1>2 DEF SavedHolds
  <1>4. ASSUME NEW a \in Requests, CutOff(a) \/ Raising(a) \/ Confirming(a) PROVE CutOff(a)'
    <2>1. CASE CutOff(a)
      BY <1>2, <2>1 DEF CutOff
    <2>2. CASE Raising(a)
      BY <1>2, <2>2 DEF CutOff, Raising
    <2>3. CASE Confirming(a)
      <3> PICK r \in Requests : pc[r] = "saved" /\ req[r].alarm = a
        BY <2>3 DEF Confirming
      <3>1. req[r] = [alarm |-> a]
        BY AckLocals DEF FleetInv
      <3>2. QED
        BY <1>2, <3>1 DEF CutOff
    <2>4. QED
      BY <1>4, <2>1, <2>2, <2>3
  <1>5. ASSUME NEW a \in Requests, Said(a), ~Raising(a), ~Confirming(a) PROVE Said(a)'
    <2>1. ~Raising(a)' /\ ~Confirming(a)'
      BY <1>2 DEF Raising, Confirming
    <2> HIDE DEF Raising, Confirming
    <2>2. QED
      BY <1>1, <1>5, <2>1 DEF Said
  <1>6. QED
    BY <1>3, <1>4, <1>5 DEF TellInv

\* What a step leaves of the alarms it is not about.
LEMMA OthersSaid ==
    ASSUME NEW a \in Requests, Said(a), alarm'[a] = alarm[a], told'[a] = told[a],
           a \in early' <=> a \in early,
           Raising(a)' <=> Raising(a), Confirming(a)' <=> Confirming(a)
    PROVE  Said(a)'
  <1> HIDE DEF Raising, Confirming
  <1>1. QED
    BY DEF Said

\* A report raises its alarm, of which nothing was said.
LEMMA CreateAlarmTell ==
    ASSUME FleetInv, TellInv, NEW r \in Requests, CreateAlarm(r) PROVE TellInv'
  <1>1. TypeOK /\ alarm[r].status = "none" /\ pc[r] = "stored"
    BY DEF CreateAlarm, FleetInv, AlarmHolds
  <1>2. /\ pc' = [pc EXCEPT ![r] = "raised"] /\ UNCHANGED <<req, told, early>>
        /\ alarm' = [alarm EXCEPT ![r].status = "OPEN"]
    BY DEF CreateAlarm, Goto
  <1>3. pc'[r] = "raised" /\ \A q \in Requests \ {r} : pc'[q] = pc[q] /\ alarm'[q] = alarm[q]
    BY <1>1, <1>2 DEF TypeOK
  <1>4. alarm'[r].status = "OPEN"
    BY <1>1, <1>2 DEF TypeOK
  <1>5. ASSUME NEW q \in Requests PROVE SavedHolds(q)'
    <2>1. ASSUME pc[q] = "saved" PROVE req[q].alarm \in Requests \ {r} /\ q # r
      <3>1. alarm[req[q].alarm].status = "ACKED"
        <4>1. alarm[req[q].alarm] = [status |-> "ACKED", by |-> q]
          BY <2>1, Zenon DEF TellInv, SavedHolds
        <4>2. QED
          BY <4>1
      <3>2. req[q].alarm \in Requests
        BY <1>1, <2>1, AckLocals
      <3>3. QED
        BY <1>1, <2>1, <3>1, <3>2
    <2>2. QED
      BY <1>2, <1>3, <2>1 DEF TellInv, SavedHolds
  <1>6. ASSUME NEW a \in Requests, CutOff(a) PROVE CutOff(a)'
    BY <1>1, <1>2, <1>3, <1>6 DEF CutOff
  <1>7. \A a \in Requests : Confirming(a)' <=> Confirming(a)
    BY <1>1, <1>2, <1>3 DEF Confirming
  <1>8. ASSUME NEW a \in Requests \ {r}, Said(a) PROVE Said(a)'
    <2>1. Raising(a)' <=> Raising(a)
      BY <1>3 DEF Raising
    <2>2. QED
      BY <1>2, <1>3, <1>7, <1>8, <2>1, OthersSaid
  <1>9. ASSUME Said(r) PROVE Said(r)'
    <2>1. told[r] = <<>> /\ Raising(r)'
      BY <1>1, <1>3, <1>9 DEF Said, Raising
    <2>2. QED
      BY <1>2, <1>4, <2>1 DEF Said
  <1>10. QED
    BY <1>5, <1>6, <1>8, <1>9 DEF TellInv

\* An announcement about one alarm by request r, which is answered.
LEMMA AnswerTell ==
    ASSUME TypeOK, TellInv, NEW r \in Requests, pc[r] \in {"raised", "saved"}, Answer(r),
           UNCHANGED <<alarm, early>>, NEW b \in Requests,
           \A a \in Requests \ {b} : told'[a] = told[a],
           pc[r] = "raised" => b = r, pc[r] = "saved" => b = req[r].alarm,
           Said(b) => Said(b)'
    PROVE  TellInv'
  <1>1. pc'[r] = "done" /\ \A q \in Requests \ {r} : pc'[q] = pc[q] /\ req'[q] = req[q]
    BY DEF Answer, Goto, TypeOK
  <1>2. ASSUME NEW q \in Requests PROVE SavedHolds(q)'
    BY <1>1 DEF TellInv, SavedHolds
  <1>3. ASSUME NEW a \in Requests, CutOff(a) PROVE CutOff(a)'
    BY <1>1, <1>3 DEF CutOff
  <1>4. ASSUME NEW a \in Requests \ {b}, Said(a) PROVE Said(a)'
    <2>1. Raising(a)' <=> Raising(a)
      BY <1>1 DEF Raising
    <2>2. Confirming(a)' <=> Confirming(a)
      BY <1>1 DEF Confirming
    <2>3. QED
      BY <1>4, <2>1, <2>2, OthersSaid
  <1>5. QED
    BY <1>2, <1>3, <1>4 DEF TellInv

\* That an alarm was raised is said after nothing, or late.
LEMMA AnnounceAlarmTell ==
    ASSUME FleetInv, TellInv, NEW r \in Requests, AnnounceAlarm(r) PROVE TellInv'
  <1>1. /\ TypeOK /\ pc[r] = "raised" /\ Answer(r) /\ UNCHANGED <<alarm, early>>
        /\ told' = [told EXCEPT ![r] = Append(@, "OPEN")]
    BY DEF AnnounceAlarm, FleetInv, tables
  <1>2. told'[r] = Append(told[r], "OPEN") /\ \A a \in Requests \ {r} : told'[a] = told[a]
    BY <1>1 DEF TypeOK
  <1>3. pc'[r] = "done" /\ \A q \in Requests \ {r} : pc'[q] = pc[q] /\ req'[q] = req[q]
    BY <1>1 DEF Answer, Goto, TypeOK
  <1>4. Raising(r) /\ ~Raising(r)' /\ (Confirming(r)' <=> Confirming(r))
    BY <1>1, <1>3 DEF Raising, Confirming
  <1>5. ASSUME Said(r) PROVE Said(r)'
    <2> HIDE DEF Raising, Confirming
    <2>1. CASE alarm[r].status = "OPEN"
      <3>1. told[r] = <<>>
        BY <1>4, <1>5, <2>1 DEF Said
      <3>2. told'[r] = <<"OPEN">>
        BY <1>2, <3>1
      <3>3. QED
        BY <1>1, <1>4, <2>1, <3>2 DEF Said
    <2>2. CASE alarm[r].status = "ACKED"
      <3>1. r \in early /\ told[r] = IF Confirming(r) THEN <<>> ELSE <<"ACKED">>
        BY <1>4, <1>5, <2>2 DEF Said
      <3>2. told'[r] = IF Confirming(r) THEN <<"OPEN">> ELSE <<"ACKED", "OPEN">>
        BY <1>2, <3>1
      <3>3. QED
        BY <1>1, <1>4, <2>2, <3>1, <3>2 DEF Said
    <2>3. QED
      BY <1>4, <1>5, <2>1, <2>2 DEF Said
  <1>6. QED
    BY <1>1, <1>2, <1>5, AnswerTell

\* That it was acknowledged is said by the one request that acknowledged it.
LEMMA AnnounceAckTell ==
    ASSUME FleetInv, TellInv, NEW r \in Requests, AnnounceAck(r) PROVE TellInv'
  <1>0. PICK b : b = req[r].alarm
    OBVIOUS
  <1>1. /\ TypeOK /\ pc[r] = "saved" /\ Answer(r) /\ UNCHANGED <<alarm, early>>
        /\ told' = [told EXCEPT ![b] = Append(@, "ACKED")]
    BY <1>0 DEF AnnounceAck, FleetInv, tables
  <1>2. b \in Requests
    BY <1>0, <1>1, AckLocals
  <1>3. told'[b] = Append(told[b], "ACKED") /\ \A a \in Requests \ {b} : told'[a] = told[a]
    BY <1>1, <1>2 DEF TypeOK
  <1>4. pc'[r] = "done" /\ \A q \in Requests \ {r} : pc'[q] = pc[q] /\ req'[q] = req[q]
    BY <1>1 DEF Answer, Goto, TypeOK
  <1>5. alarm[b].status = "ACKED" /\ \A q \in Requests : pc[q] = "saved" /\ req[q].alarm = b => q = r
    <2>1. alarm[b] = [status |-> "ACKED", by |-> r]
      BY <1>0, <1>1 DEF TellInv, SavedHolds
    <2>2. ASSUME NEW q \in Requests, pc[q] = "saved", req[q].alarm = b PROVE q = r
      <3>1. alarm[b] = [status |-> "ACKED", by |-> q]
        BY <2>2 DEF TellInv, SavedHolds
      <3>2. QED
        BY <2>1, <3>1
    <2>3. QED
      BY <2>1, <2>2
  <1>6. (Raising(b)' <=> Raising(b)) /\ Confirming(b) /\ ~Confirming(b)'
    <2>1. Raising(b)' <=> Raising(b)
      BY <1>1, <1>2, <1>4 DEF Raising
    <2>2. Confirming(b)
      BY <1>0, <1>1 DEF Confirming
    <2>3. ~Confirming(b)'
      BY <1>4, <1>5 DEF Confirming
    <2>4. QED
      BY <2>1, <2>2, <2>3
  <1>7. ASSUME Said(b) PROVE Said(b)'
    <2> HIDE DEF Raising, Confirming
    <2>1. CASE Raising(b)
      <3>1. b \in early /\ told[b] = <<>>
        BY <1>5, <1>6, <1>7, <2>1 DEF Said
      <3>2. told'[b] = <<"ACKED">>
        BY <1>3, <3>1
      <3>3. QED
        BY <1>1, <1>5, <1>6, <2>1, <3>1, <3>2 DEF Said
    <2>2. CASE ~Raising(b)
      <3>1. told[b] = <<"OPEN">>
        BY <1>5, <1>6, <1>7, <2>2 DEF Said
      <3>2. told'[b] = <<"OPEN", "ACKED">>
        <4>1. told'[b] = Append(<<"OPEN">>, "ACKED")
          BY <1>3, <3>1
        <4>2. Append(<<"OPEN">>, "ACKED") = <<"OPEN", "ACKED">>
          BY AppendSecond
        <4>3. QED
          BY <4>1, <4>2
      <3>3. QED
        BY <1>1, <1>5, <1>6, <2>2, <3>2 DEF Said
    <2>3. QED
      BY <2>1, <2>2
  <1>8. QED
    BY <1>0, <1>1, <1>2, <1>3, <1>7, AnswerTell

\* An acknowledgement is saved: it is to be announced, before the alarm itself if that is
\* still to come.
LEMMA AckAlarmSavesTell ==
    ASSUME FleetInv, TellInv, NEW r \in Requests, AckAlarmSaves(r) PROVE TellInv'
  <1>0. PICK b : b = req[r].alarm
    OBVIOUS
  <1>1. /\ TypeOK /\ pc[r] = "holding" /\ pc' = [pc EXCEPT ![r] = "saved"] /\ UNCHANGED <<req, told>>
        /\ alarm' = [alarm EXCEPT ![b] = [status |-> "ACKED", by |-> r]]
        /\ early' = IF pc[b] = "raised" THEN early \cup {b} ELSE early
    BY <1>0 DEF AckAlarmSaves, Goto, FleetInv
  <1>2. b \in Requests /\ alarm[b].status = "OPEN"
    BY <1>0, <1>1, AckLocals DEF FleetInv, LockHolds
  <1>3. /\ pc'[r] = "saved" /\ \A q \in Requests \ {r} : pc'[q] = pc[q]
        /\ alarm'[b] = [status |-> "ACKED", by |-> r] /\ \A a \in Requests \ {b} : alarm'[a] = alarm[a]
    BY <1>1, <1>2 DEF TypeOK
  <1>4. \A a \in Requests : Raising(a)' <=> Raising(a)
    BY <1>1, <1>3 DEF Raising
  <1>5. Confirming(b)' /\ \A a \in Requests \ {b} : Confirming(a)' <=> Confirming(a)
    BY <1>0, <1>1, <1>3 DEF Confirming
  <1>6. ASSUME NEW q \in Requests PROVE SavedHolds(q)'
    <2>1. ASSUME pc[q] = "saved" PROVE req[q].alarm \in Requests \ {b} /\ q # r
      <3>1. alarm[req[q].alarm].status = "ACKED"
        <4>1. alarm[req[q].alarm] = [status |-> "ACKED", by |-> q]
          BY <2>1, Zenon DEF TellInv, SavedHolds
        <4>2. QED
          BY <4>1
      <3>2. req[q].alarm \in Requests
        BY <1>1, <2>1, AckLocals
      <3>3. QED
        BY <1>1, <1>2, <2>1, <3>1, <3>2
    <2>2. QED
      BY <1>0, <1>1, <1>3, <2>1 DEF TellInv, SavedHolds
  <1>7. ASSUME NEW a \in Requests, CutOff(a) PROVE CutOff(a)'
    BY <1>1, <1>3, <1>7 DEF CutOff
  <1>8. ASSUME NEW a \in Requests \ {b}, Said(a) PROVE Said(a)'
    BY <1>1, <1>3, <1>4, <1>5, <1>8, OthersSaid
  <1>9. ASSUME Said(b) PROVE Said(b)'
    <2>1. told[b] = IF Raising(b) THEN <<>> ELSE <<"OPEN">>
      BY <1>2, <1>9 DEF Said
    <2>2. Raising(b) => b \in early'
      BY <1>1 DEF Raising
    <2> HIDE DEF Raising, Confirming
    <2>3. QED
      BY <1>1, <1>2, <1>3, <1>4, <1>5, <2>1, <2>2 DEF Said
  <1>10. QED
    BY <1>6, <1>7, <1>8, <1>9 DEF TellInv

\* An alarm that was raised is announced once, and once when it is acknowledged, unless the
\* process ended in between (AppService.ReportLocation and AckAlarm): when nothing is to come
\* any more, the last announcement tells its status, except where the acknowledgement
\* overtook the announcement of the alarm.
THEOREM FleetAlarms == Spec => []AlarmTold
  <1>1. Init => TellInv
    BY DEF Init, TellInv, SavedHolds, Said, Raising
  <1>2. FleetInv /\ TellInv /\ [Next]_vars => TellInv'
    BY QuietSteps, CrashTell, CreateAlarmTell, AnnounceAlarmTell, AckAlarmSavesTell, AnnounceAckTell
       DEF FleetInv
  <1>3. FleetInv /\ TellInv => AlarmTold
    <2> SUFFICES ASSUME FleetInv, TellInv, NEW a \in Requests, alarm[a].status # "none",
                        ~\E r \in Requests : /\ pc[r] \in {"raised", "saved", "cut"}
                                             /\ r = a \/ req[r] = [alarm |-> a]
                 PROVE  \/ told[a] = IF alarm[a].status = "OPEN" THEN <<"OPEN">> ELSE <<"OPEN", "ACKED">>
                        \/ a \in early /\ told[a] = <<"ACKED", "OPEN">>
      BY DEF AlarmTold
    <2>1. ~CutOff(a) /\ ~Raising(a)
      BY DEF CutOff, Raising
    <2>2. ~Confirming(a)
      BY AckLocals DEF Confirming, FleetInv
    <2>3. Said(a)
      BY <2>1 DEF TellInv
    <2> HIDE DEF Raising, Confirming
    <2>4. QED
      BY <2>1, <2>2, <2>3 DEF Said
  <1>4. QED
    BY <1>1, <1>2, <1>3, FleetInvariant, PTL DEF Spec
=============================================================================
