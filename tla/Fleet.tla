-------------------------------- MODULE Fleet --------------------------------
(***************************************************************************)
(* Ships, location reports and alarms of the API server (services.go over  *)
(* repositories/store.go), and the demo ships that database.go seeds when  *)
(* the server starts.  Deleting a ship is soft: its row stays, hidden from *)
(* reads, and keeps its place in the unique index of the MMSI.             *)
(*                                                                         *)
(* Atomicity: one step per statement of the database, or per transaction   *)
(* when nothing can come between its statements; one per call of the hub.  *)
(* Every element of Requests is one HTTP request of a kind that takes      *)
(* several steps; creating and deleting a ship takes one statement.  The   *)
(* database reads what is committed (PostgreSQL's default isolation).      *)
(* The announcement of a location is part of the step that commits it.     *)
(* The column geom of a location, which nothing reads, is left out.        *)
(***************************************************************************)
EXTENDS Naturals, Sequences

CONSTANTS Ships,     \* ids of rows of the table ships
          MMSIs,     \* values of the column mmsi
          Seeded,    \* MMSIs of the demo ships, in the order of the code
          Requests,  \* requests that update a ship, report a location or acknowledge an alarm
          Nobody     \* ack_by of an alarm that is open

ASSUME FleetAssumption == /\ MMSIs # {}
                          /\ Seeded \in Seq(MMSIs)
                          /\ Nobody \notin Requests

VARIABLES row,       \* row[s]: the row of ship s
          location,  \* ship_locations: who stored it, and of which ship
          alarm,     \* alarm[a]: the alarm that report a raised
          told,      \* told[a]: statuses of alarm a that were broadcast, in order
          server,    \* whether the process runs, and serves
          seeds,     \* of a start: number of the demo ship it is at
          found,     \* of a start: that ship, once it was found or created
          fault,     \* history: an error or a crash ended the last start
          pc, req,   \* how far a request is, and its locals
          late,      \* history: requests under way whose ship was deleted after they read it
          early      \* history: alarms acknowledged before their report had announced them

tables == <<row, location, alarm>>
boot == <<server, seeds, found, fault>>
vars == <<row, location, alarm, told, server, seeds, found, fault, pc, req, late, early>>

Updates == [ship : Ships, mmsi : MMSIs]
Reports == [ship : Ships, fast : BOOLEAN]
Acks == [alarm : Requests]
Updating == {"loaded", "insert"}
Reporting == {"found", "reading", "stored", "raised"}
Acking == {"holding", "saved"}
\* cut: the process ended before the announcement.
Pcs == Updating \cup Reporting \cup Acking \cup {"idle", "done", "cut"}
LocalsAt(place) == IF place \in Updating THEN Updates
                   ELSE IF place \in Reporting THEN Reports
                   ELSE IF place \in Acking THEN Acks
                   ELSE IF place = "cut" THEN Reports \cup Acks
                   ELSE {<<>>}

Row(state, m) == [state |-> state, mmsi |-> m]
Live(s) == row[s].state = "live"
Holds(s, m) == row[s].state # "absent" /\ row[s].mmsi = m
\* The unique index takes m for ship s, or for a new one; deleted ships count.
Free(m, s) == \A t \in Ships \ {s} : ~Holds(t, m)

TypeOK ==
    /\ row \in [Ships -> [state : {"absent", "live", "deleted"}, mmsi : MMSIs]]
    /\ \A s \in Ships : row[s].state # "absent" => Free(row[s].mmsi, s)
    /\ location \subseteq ((Requests \cup {"seed"}) \X Ships)
    /\ alarm \in [Requests -> [status : {"none", "OPEN", "ACKED"}, by : Requests \cup {Nobody}]]
    /\ \A a \in Requests : alarm[a].status = "ACKED" <=> alarm[a].by # Nobody
    /\ told \in [Requests -> Seq({"OPEN", "ACKED"})]
    /\ server \in {"down", "seeding", "up"} /\ fault \in BOOLEAN
    /\ seeds \in 1 .. Len(Seeded) + 1 /\ found \subseteq Ships
    /\ pc \in [Requests -> Pcs]
    /\ req \in [Requests -> Updates \cup Reports \cup Acks \cup {<<>>}]
    /\ \A r \in Requests : req[r] \in LocalsAt(pc[r])
    /\ late \subseteq Requests /\ early \subseteq Requests

\* An empty database; the column mmsi of an absent row means nothing.
Init == /\ row = [s \in Ships |-> [state |-> "absent", mmsi |-> CHOOSE m \in MMSIs : TRUE]]
        /\ location = {} /\ server = "down" /\ seeds = 1 /\ found = {} /\ fault = FALSE
        /\ alarm = [a \in Requests |-> [status |-> "none", by |-> Nobody]]
        /\ told = [a \in Requests |-> <<>>]
        /\ pc = [r \in Requests |-> "idle"] /\ req = [r \in Requests |-> <<>>]
        /\ late = {} /\ early = {}

\* A request that is answered leaves no locals.
Goto(r, place) == /\ pc' = [pc EXCEPT ![r] = place]
                  /\ req' = IF place = "done" THEN [req EXCEPT ![r] = <<>>] ELSE req
                  /\ late' = IF place = "done" THEN late \ {r} ELSE late
Begin(r, locals, place) == /\ server = "up" /\ pc[r] = "idle"
                           /\ pc' = [pc EXCEPT ![r] = place]
                           /\ req' = IF place = "done" THEN req ELSE [req EXCEPT ![r] = locals]
                           /\ UNCHANGED late
Answer(r) == Goto(r, "done")
-----------------------------------------------------------------------------
(* The start of the server.                                                *)

Start == /\ server = "down"
         /\ server' = "seeding" /\ fault' = FALSE
         /\ UNCHANGED <<tables, told, seeds, found, pc, req, late, early>>

AtSeed == server = "seeding" /\ seeds <= Len(Seeded)

\* Mutant: the seed does not look for the ship.
LookupNothing(m) == {}

\* The query of FirstOrCreate, which does not see deleted ships.
Lookup(m) == {s \in Ships : Live(s) /\ row[s].mmsi = m}

Insert(s, m) == /\ row[s].state = "absent" /\ Free(m, s)
                /\ row' = [row EXCEPT ![s] = Row("live", m)]

\* Mutant: the first location is stored with the ship, and only then.
SeedShipOnce ==
    /\ AtSeed /\ found = {}
    /\ \E s \in Ships :
          IF Lookup(Seeded[seeds]) # {}
          THEN s \in Lookup(Seeded[seeds]) /\ found' = {} /\ seeds' = seeds + 1 /\ UNCHANGED row
          ELSE Insert(s, Seeded[seeds]) /\ found' = {s} /\ UNCHANGED seeds
    /\ UNCHANGED <<location, alarm, told, server, fault, pc, req, late, early>>

\* FirstOrCreate: the ship is found, or inserted and committed.
SeedShip ==
    /\ AtSeed /\ found = {}
    /\ \E s \in Ships :
          /\ found' = {s}
          /\ IF Lookup(Seeded[seeds]) # {} THEN s \in Lookup(Seeded[seeds]) /\ UNCHANGED row
                                           ELSE Insert(s, Seeded[seeds])
    /\ UNCHANGED <<location, alarm, told, server, seeds, fault, pc, req, late, early>>

\* A location for a demo ship that has none.
SeedLocation ==
    /\ AtSeed /\ found # {}
    /\ location' = location \cup {<<"seed", s>> : s \in {t \in found : \A at \in location : at[2] # t}}
    /\ seeds' = seeds + 1 /\ found' = {}
    /\ UNCHANGED <<row, alarm, told, server, fault, pc, req, late, early>>

\* A start ends with the process; what it committed stays.
StartOver == server' = "down" /\ seeds' = 1 /\ found' = {} /\ UNCHANGED <<tables, told, early>>

\* The index refuses the insert, and main ends the process.
SeedFails ==
    /\ AtSeed /\ found = {}
    /\ Lookup(Seeded[seeds]) = {} /\ \E s \in Ships : Holds(s, Seeded[seeds])
    /\ StartOver /\ UNCHANGED <<fault, pc, req, late>>

\* So does any other error that a statement of the start meets.
SeedBreaks ==
    /\ server = "seeding"
    /\ StartOver /\ fault' = TRUE /\ UNCHANGED <<pc, req, late>>

Serve == /\ server = "seeding" /\ seeds > Len(Seeded)
         /\ server' = "up" /\ seeds' = 1
         /\ UNCHANGED <<tables, told, found, fault, pc, req, late, early>>

\* The process ends, while it starts or serves: what is not committed is undone, what is
\* not announced stays so.
Crash ==
    /\ server # "down" /\ StartOver
    /\ fault' = (server = "seeding")
    /\ pc' = [r \in Requests |-> IF pc[r] \in {"raised", "saved", "cut"} THEN "cut"
                                 ELSE IF pc[r] = "idle" THEN "idle" ELSE "done"]
    /\ req' = [r \in Requests |-> IF pc[r] \in {"raised", "saved", "cut"} THEN req[r] ELSE <<>>]
    /\ late' = {}
-----------------------------------------------------------------------------
(* Ships.                                                                  *)

CreateShip(s, m) == /\ server = "up" /\ Insert(s, m)
                    /\ UNCHANGED <<location, alarm, told, boot, pc, req, late, early>>

\* Deleting a ship that is deleted or absent changes nothing.
DeleteShip(s) ==
    /\ server = "up" /\ Live(s)
    /\ row' = [row EXCEPT ![s].state = "deleted"]
    /\ late' = late \cup {r \in Requests : pc[r] \in {"loaded", "insert", "reading"} /\ req[r].ship = s}
    /\ UNCHANGED <<location, alarm, told, boot, pc, req, early>>

\* Mutant: GetShip returns deleted ships too.
GetShipUnscoped(s) == row[s].state # "absent"

GetShip(s) == Live(s)

\* UpdateShip reads the ship, and answers 404 when there is none.
LoadShip(r, s, m) == /\ Begin(r, [ship |-> s, mmsi |-> m], IF GetShip(s) THEN "loaded" ELSE "done")
                     /\ UNCHANGED <<tables, told, boot, early>>

\* Save: UPDATE ... WHERE id = s AND deleted_at IS NULL, which may find no row.
SaveUpdates(r) ==
    /\ pc[r] = "loaded"
    /\ LET s == req[r].ship
           m == req[r].mmsi
       IN \/ ~Live(s) /\ Goto(r, "insert") /\ UNCHANGED row
          \/ Live(s) /\ ~Free(m, s) /\ Answer(r) /\ UNCHANGED row
          \/ /\ Live(s) /\ Free(m, s) /\ Answer(r)
             /\ row' = [row EXCEPT ![s] = Row("live", m)]
    /\ UNCHANGED <<location, alarm, told, boot, early>>

\* ... and then INSERT ... ON CONFLICT (id) DO UPDATE with every column of the ship that
\* was read, deleted_at among them.
SaveInserts(r) ==
    /\ pc[r] = "insert" /\ Answer(r)
    /\ LET s == req[r].ship
           m == req[r].mmsi
       IN IF Free(m, s) THEN row' = [row EXCEPT ![s] = Row("live", m)] ELSE UNCHANGED row
    /\ UNCHANGED <<location, alarm, told, boot, early>>
-----------------------------------------------------------------------------
(* Reports and alarms.                                                     *)

\* fast: the speed is over 18 knots.
ReportLocation(r, s, fast) ==
    /\ Begin(r, [ship |-> s, fast |-> fast], IF GetShip(s) THEN "found" ELSE "done")
    /\ UNCHANGED <<tables, told, boot, early>>

\* Mutant: the transaction relies on the read before it.
CreateLocationReadsNothing(r) ==
    /\ pc[r] = "found" /\ Goto(r, "reading")
    /\ UNCHANGED <<tables, told, boot, early>>

\* The transaction reads the ship, without a lock.
CreateLocationReads(r) ==
    /\ pc[r] = "found" /\ Goto(r, IF Live(req[r].ship) THEN "reading" ELSE "done")
    /\ UNCHANGED <<tables, told, boot, early>>

\* It inserts the location and commits, and the hub is told.
CreateLocation(r) ==
    /\ pc[r] = "reading" /\ Goto(r, IF req[r].fast THEN "stored" ELSE "done")
    /\ location' = location \cup {<<r, req[r].ship>>}
    /\ UNCHANGED <<row, alarm, told, boot, early>>

CreateAlarm(r) ==
    /\ pc[r] = "stored" /\ Goto(r, "raised")
    /\ alarm' = [alarm EXCEPT ![r].status = "OPEN"]
    /\ UNCHANGED <<row, location, told, boot, early>>

AnnounceAlarm(r) ==
    /\ pc[r] = "raised" /\ Answer(r)
    /\ told' = [told EXCEPT ![r] = Append(@, "OPEN")]
    /\ UNCHANGED <<tables, boot, early>>

\* Mutant: the transaction reads the alarm without locking its row.
AckAlarmReadsUnlocked(r, a) ==
    /\ alarm[a].status # "none"
    /\ Begin(r, [alarm |-> a], IF alarm[a].status = "ACKED" THEN "done" ELSE "holding")
    /\ UNCHANGED <<tables, told, boot, early>>

\* The transaction locks the row of the alarm; one that is acknowledged stays as it is.
AckAlarmReads(r, a) ==
    /\ alarm[a].status # "none"
    /\ ~\E q \in Requests : pc[q] = "holding" /\ req[q].alarm = a
    /\ Begin(r, [alarm |-> a], IF alarm[a].status = "ACKED" THEN "done" ELSE "holding")
    /\ UNCHANGED <<tables, told, boot, early>>

AckAlarmSaves(r) ==
    /\ pc[r] = "holding" /\ Goto(r, "saved")
    /\ LET a == req[r].alarm
       IN /\ alarm' = [alarm EXCEPT ![a] = [status |-> "ACKED", by |-> r]]
          /\ early' = IF pc[a] = "raised" THEN early \cup {a} ELSE early
    /\ UNCHANGED <<row, location, told, boot>>

\* Mutant: an acknowledgement is announced as the alarm was read.
AnnounceAckAsRead(r) ==
    /\ pc[r] = "saved" /\ Answer(r)
    /\ told' = [told EXCEPT ![req[r].alarm] = Append(@, "OPEN")]
    /\ UNCHANGED <<tables, boot, early>>

AnnounceAck(r) ==
    /\ pc[r] = "saved" /\ Answer(r)
    /\ told' = [told EXCEPT ![req[r].alarm] = Append(@, "ACKED")]
    /\ UNCHANGED <<tables, boot, early>>

\* A statement fails: its transaction is rolled back and the answer is an error.
Fail(r) == /\ pc[r] \in {"loaded", "insert", "found", "reading", "stored", "holding"}
           /\ Answer(r)
           /\ UNCHANGED <<tables, told, boot, early>>
-----------------------------------------------------------------------------
Handle(r) == \/ SaveUpdates(r) \/ SaveInserts(r)
             \/ CreateLocationReads(r) \/ CreateLocation(r) \/ CreateAlarm(r) \/ AnnounceAlarm(r)
             \/ AckAlarmSaves(r) \/ AnnounceAck(r)
Arrive(r) == \/ \E s \in Ships, m \in MMSIs : LoadShip(r, s, m)
             \/ \E s \in Ships, fast \in BOOLEAN : ReportLocation(r, s, fast)
             \/ \E a \in Requests : AckAlarmReads(r, a)
Boot == SeedShip \/ SeedLocation \/ SeedFails \/ Serve

Next == \/ Start \/ Boot \/ SeedBreaks \/ Crash
        \/ \E s \in Ships : DeleteShip(s) \/ \E m \in MMSIs : CreateShip(s, m)
        \/ \E r \in Requests : Arrive(r) \/ Handle(r) \/ Fail(r)

Spec == Init /\ [][Next]_vars
\* A process that starts goes on until it serves or ends; nobody has to start it.
FairSpec == Spec /\ WF_vars(Boot)
-----------------------------------------------------------------------------
(* Properties.                                                             *)

\* A deleted ship comes back only through an update that had read it before it was deleted.
RevivedOnlyByOverlap ==
    [][\A s \in Ships : row[s].state = "deleted" /\ row'[s].state = "live" =>
          \E r \in late : pc[r] = "insert" /\ req[r].ship = s]_vars

\* A location of a deleted ship is stored only if the ship was deleted while the
\* transaction ran, the read before it notwithstanding.
TracksOfLiveShips ==
    [][\A at \in location' \ location : row'[at[2]].state = "live" \/ at[1] \in late]_vars

\* The first acknowledgement of an alarm stands, with its user, whoever else comes.
AckKept == [][\A a \in Requests : alarm[a].status = "ACKED" => alarm'[a] = alarm[a]]_vars

\* Once the requests about an alarm are through, it was announced once when it was raised
\* and once when it was acknowledged, and the last announcement tells its status, unless
\* it was acknowledged before it was announced.  A crash can cut announcements off.
AlarmTold ==
    \A a \in Requests :
        \/ alarm[a].status = "none"
        \/ \E r \in Requests : pc[r] \in {"raised", "saved", "cut"} /\ (r = a \/ req[r] = [alarm |-> a])
        \/ told[a] = IF alarm[a].status = "OPEN" THEN <<"OPEN">> ELSE <<"OPEN", "ACKED">>
        \/ a \in early /\ told[a] = <<"ACKED", "OPEN">>

DemoMMSIs == {Seeded[i] : i \in DOMAIN Seeded}

\* A server that serves has seeded all: every demo ship is in the table with a location,
\* also when an earlier start ended between the ship and its location.
ServesSeeded ==
    [][server = "seeding" /\ server' = "up" =>
          \A m \in DemoMMSIs : \E s \in Lookup(m) : \E at \in location : at[2] = s]_vars

\* A start ends with a server that serves, unless an error or a crash ends it, or a demo
\* ship was deleted: then its MMSI is neither found nor free, and no start succeeds.
StartEnds == server = "seeding" ~>
    \/ server = "up"
    \/ server = "down" /\ (fault \/ \E s \in Ships : row[s].state = "deleted" /\ row[s].mmsi \in DemoMMSIs)
=============================================================================
