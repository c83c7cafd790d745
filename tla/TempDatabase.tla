---------------------------- MODULE TempDatabase -----------------------------
(***************************************************************************)
(* The two scripts that start a throw-away PostgreSQL container:           *)
(* run_backup_restore_drill.py and run_repository_db_integration.py.  Each *)
(* has a compose project of its own with one container, one volume and one *)
(* compose file, which every run of the script shares: nothing keeps two   *)
(* of them apart.  A run may be killed at any point; the container stays.  *)
(*                                                                         *)
(* Docker, PostgreSQL and the go tool are external: any command may fail.  *)
(* docker compose addresses the container that the project has now, by the *)
(* compose file that is there now, whichever run made them.  On an empty   *)
(* volume PostgreSQL first runs initdb behind a server that only listens   *)
(* on a local socket ("init"), then the real one ("ready").                *)
(***************************************************************************)
EXTENDS Naturals, FiniteSets, FiniteSetsExt

CONSTANTS Runners,  \* processes that can run one of the two scripts
          Ports,    \* the published ports that choose_port tries, in order
          KeepChoices,  \* sets of --keep options: "database", "artifacts"
          Nobody,   \* owner of rows that are not there
          NoFile

\* One container holds one port, so that of two ports one is free; the code tries 51.
\* A missing compose file or restore target is told from any that is there.
ASSUME DatabaseAssumption == /\ Ports \subseteq Nat
                             /\ \E i, j \in Ports : i # j
                             /\ Nobody \notin Runners
                             /\ NoFile \notin Ports
                             /\ NoFile \notin [schema : BOOLEAN, rows : Runners \cup {Nobody}]

VARIABLES job,    \* job[p]: the script that p runs: pc, locals and result
          box,    \* box[k]: the container and the volume of the project of script k
          files   \* files[k]: its compose file and its dump

databaseVars == <<job, box, files>>

Scripts == {"drill", "integration"}

\* A database: whether it has the schema, and who left rows in it, those of the drill's
\* sample or the tables of tests that were broken off.
EmptyDb == [schema |-> FALSE, rows |-> Nobody]
\* source: the database that initdb creates; restore: the restore target, which is absent
\* until recreate_database.  Without a container the volume is empty.
Down == [state |-> "none", port |-> 0, source |-> EmptyDb, restore |-> NoFile]
NoJob == [pc |-> "idle"]
NoFiles == [compose |-> NoFile, dump |-> NoFile]

Running(p) == job[p].pc \notin {"idle", "ended"}
Script(p) == job[p].script
Box(p) == box[Script(p)]
\* docker compose needs the file; psql, pg_dump and the like the real server.
ComposeWorks(p) == files[Script(p)].compose # NoFile
Answers(p) == ComposeWorks(p) /\ Box(p).state = "ready"
\* psql and pg_dump of the source database.
Queries(p) == Answers(p) /\ Box(p).source # NoFile
\* The connection string goes through the published port.
Dials(p) == Box(p).state = "ready" /\ Box(p).port = job[p].port

\* Counting rows cannot tell whose they are.
Counts(db) == [schema |-> db.schema, full |-> db.rows # Nobody]

DatabaseInit == /\ job = [p \in Runners |-> NoJob]
                /\ box = [k \in Scripts |-> Down]
                /\ files = [k \in Scripts |-> NoFiles]

At(p, place) == job[p].pc = place
Goto(p, place) == job' = [job EXCEPT ![p].pc = place]
\* Any SystemExit: the finally block, then exit code 1.
Abort(p) == job' = [job EXCEPT ![p].pc = "down", ![p].passed = FALSE]
SetBox(p, b) == box' = [box EXCEPT ![Script(p)] = b]

\* main up to the try: choose_port takes the first port nobody listens on now,
\* the compose file of the last run is overwritten.
JobStart(p, k, keep) ==
    /\ job[p].pc \in {"idle"}
    /\ LET taken == {box[j].port : j \in {j \in {k} : box[j].state # "none"}}
           port == Min(Ports \ taken)
           others == {q \in Runners \ {p} : Running(q) /\ Script(q) = k}
       IN /\ Ports \ taken # {}
          /\ job' = [q \in Runners |->
                       IF q = p
                       THEN [pc |-> IF k = "drill" THEN "cleanup" ELSE "up", script |-> k, port |-> port,
                             keep |-> keep, passed |-> TRUE, counts |-> Counts(EmptyDb), dump |-> EmptyDb,
                             trouble |-> IF others = {} THEN "none" ELSE "overlap"]
                       ELSE IF q \in others THEN [job[q] EXCEPT !.trouble = "overlap"] ELSE job[q]]
          /\ files' = [files EXCEPT ![k].compose = port]
    /\ UNCHANGED box

\* History: the worst that has happened to a run.  Another run of the script
\* beside it; its container not taken down; its tests begun during initdb; a
\* command of it failed.
Troubles == <<"none", "command", "early", "left", "overlap">>
Worse(t, u) == LET rank(v) == CHOOSE i \in DOMAIN Troubles : Troubles[i] = v
               IN IF rank(t) < rank(u) THEN u ELSE t

\* A test that is broken off does not drop its tables (t.Cleanup), whose indexes keep names
\* that are unique in the schema: later tables, prefix or not, are made without them.
BreakTestsOff(p) ==
    IF At(p, "test") /\ Dials(p) /\ Box(p).source # NoFile
    THEN \E db \in {Box(p).source, [EmptyDb EXCEPT !.rows = p]} : SetBox(p, [Box(p) EXCEPT !.source = db])
    ELSE UNCHANGED box

\* A command of Docker, go or PostgreSQL fails, hangs until the deadline of the
\* wait, or is interrupted.  Only tests leave anything; a failed down only warns.
CommandFails(p) ==
    /\ Running(p) /\ ~At(p, "unlink") /\ ~(At(p, "down") /\ "database" \in job[p].keep)
    /\ job' = [job EXCEPT ![p].trouble = Worse(@, IF At(p, "down") THEN "left" ELSE "command"),
                          ![p].pc = CASE At(p, "cleanup") -> "up" [] At(p, "down") -> "unlink" [] OTHER -> "down",
                          ![p].passed = @ /\ job[p].pc \in {"cleanup", "down"}]
    /\ BreakTestsOff(p)
    /\ UNCHANGED files

\* docker compose down -v, before the drill and in the finally block.
ComposeDown(p, next) ==
    /\ Goto(p, next)
    /\ IF ComposeWorks(p) THEN SetBox(p, Down) ELSE UNCHANGED box
    /\ UNCHANGED files
\* Mutant: the drill starts on what is there.
CleanupSkipped(p) == At(p, "cleanup") /\ Goto(p, "up") /\ UNCHANGED <<box, files>>
Cleanup(p) == At(p, "cleanup") /\ ComposeDown(p, "up")

\* A container with another port is made anew on the volume that b had; on an empty volume
\* initdb runs first.  An initdb that this breaks off is run again, or its data directory is
\* taken as it is, with the database or without.  (If no server can start on it, the wait fails.)
MadeAnew(b, port) ==
    LET broken == b.state = "init" /\ b.port # port
        on(state, db) == [b EXCEPT !.state = state, !.port = port, !.source = db]
    IN {on(IF b.state = "none" THEN "init" ELSE b.state, b.source)}
       \cup (IF broken THEN {on("ready", db) : db \in {b.source, NoFile}} ELSE {})

\* docker compose up -d.
Up(p) ==
    /\ At(p, "up")
    /\ IF ComposeWorks(p)
       THEN /\ \E b \in MadeAnew(Box(p), files[Script(p)].compose) : SetBox(p, b)
            /\ Goto(p, "wait")
       ELSE Abort(p) /\ UNCHANGED box
    /\ UNCHANGED files

\* The real server is up.  External.
ServerReady(k) == /\ box[k].state = "init"
                  /\ box' = [box EXCEPT ![k].state = "ready"]
                  /\ UNCHANGED <<job, files>>

\* pg_isready by TCP in the drill, by the local socket in the other script,
\* which the server of initdb answers as well.
WaitForPostgres(p) ==
    /\ At(p, "wait") /\ ComposeWorks(p)
    /\ IF Script(p) = "drill"
       THEN Box(p).state = "ready" /\ Goto(p, "migrate")
       ELSE Box(p).state \in {"init", "ready"} /\ Goto(p, "test")
    /\ UNCHANGED <<box, files>>

\* migrate -action=up over the connection string.
MigrateUp(p) ==
    /\ At(p, "migrate")
    /\ IF Dials(p) /\ Box(p).source # NoFile
       THEN SetBox(p, [Box(p) EXCEPT !.source.schema = TRUE]) /\ Goto(p, "seed")
       ELSE Abort(p) /\ UNCHANGED box
    /\ UNCHANGED files

\* Mutant: rows that are there already are kept and taken for this run's.
SeedSampleOrKeep(p) ==
    /\ At(p, "seed") /\ Queries(p)
    /\ IF Box(p).source.rows = Nobody THEN SetBox(p, [Box(p) EXCEPT !.source.rows = p]) ELSE UNCHANGED box
    /\ Goto(p, "count")
    /\ UNCHANGED files

\* One transaction with fixed ids: rows that are there already refuse it.
SeedSample(p) ==
    /\ At(p, "seed")
    /\ IF Queries(p) /\ Box(p).source = [schema |-> TRUE, rows |-> Nobody]
       THEN SetBox(p, [Box(p) EXCEPT !.source.rows = p]) /\ Goto(p, "count")
       ELSE Abort(p) /\ UNCHANGED box
    /\ UNCHANGED files

CountSource(p) ==
    /\ At(p, "count")
    /\ IF Queries(p) /\ Box(p).source.schema
       THEN job' = [job EXCEPT ![p].pc = "dump", ![p].counts = Counts(Box(p).source)]
       ELSE Abort(p)
    /\ UNCHANGED <<box, files>>

\* pg_dump to memory, from where it is restored, and to the dump file.
DumpDatabase(p) ==
    /\ At(p, "dump")
    /\ IF Queries(p)
       THEN /\ job' = [job EXCEPT ![p].pc = "recreate", ![p].dump = Box(p).source]
            /\ files' = [files EXCEPT !["drill"].dump = p]
       ELSE Abort(p) /\ UNCHANGED files
    /\ UNCHANGED box

\* dropdb --if-exists and createdb.
RecreateDatabase(p) ==
    /\ At(p, "recreate")
    /\ IF Answers(p) THEN SetBox(p, [Box(p) EXCEPT !.restore = EmptyDb]) /\ Goto(p, "restore")
       ELSE Abort(p) /\ UNCHANGED box
    /\ UNCHANGED files

\* pg_restore --clean --if-exists of the dump in memory.
RestoreDatabase(p) ==
    /\ At(p, "restore")
    /\ IF Answers(p) /\ Box(p).restore # NoFile
       THEN SetBox(p, [Box(p) EXCEPT !.restore = job[p].dump]) /\ Goto(p, "check")
       ELSE Abort(p) /\ UNCHANGED box
    /\ UNCHANGED files

\* migrate -action=check on the restored database.
MigrateCheck(p) ==
    /\ At(p, "check")
    /\ IF Dials(p) /\ Box(p).restore # NoFile /\ Box(p).restore.schema THEN Goto(p, "compare") ELSE Abort(p)
    /\ UNCHANGED <<box, files>>

CompareCounts(p) ==
    /\ At(p, "compare")
    /\ IF Answers(p) /\ Box(p).restore # NoFile /\ Box(p).restore.schema /\ Counts(Box(p).restore) = job[p].counts
       THEN Goto(p, "verify") ELSE Abort(p)
    /\ UNCHANGED <<box, files>>

\* The five sample rows, by id and value.
VerifySample(p) ==
    /\ At(p, "verify")
    /\ IF Answers(p) /\ Box(p).restore # NoFile /\ Box(p).restore.rows # Nobody
       THEN Goto(p, "down") ELSE Abort(p)
    /\ UNCHANGED <<box, files>>

\* go test over the connection string.  The tests fail on a server that is not up, without
\* the database, beside the tables of others and, maybe, beside the tests of another run.
IntegrationTests(p) ==
    /\ At(p, "test")
    /\ \/ Dials(p) /\ Box(p).source = EmptyDb /\ Goto(p, "down")
       \/ /\ ~(Dials(p) /\ Box(p).source = EmptyDb /\ job[p].trouble # "overlap")
          /\ job' = [job EXCEPT ![p].pc = "down", ![p].passed = FALSE,
                                ![p].trouble = Worse(@, IF Box(p).state = "init" THEN "early" ELSE "none")]
    /\ UNCHANGED <<box, files>>

\* Mutant: the container is only taken down after success.
TakeDownPassed(p) ==
    /\ At(p, "down")
    /\ IF ~job[p].passed THEN Goto(p, "unlink") /\ UNCHANGED <<box, files>> ELSE ComposeDown(p, "unlink")

\* The finally block: the exit code is decided, a failed down only warns.
TakeDown(p) ==
    /\ At(p, "down")
    /\ IF "database" \in job[p].keep THEN Goto(p, "unlink") /\ UNCHANGED <<box, files>> ELSE ComposeDown(p, "unlink")

\* Only the drill removes its files.
Unlink(p) ==
    /\ At(p, "unlink")
    /\ Goto(p, "ended")
    /\ files' = IF Script(p) = "drill" /\ "artifacts" \notin job[p].keep THEN [files EXCEPT !["drill"] = NoFiles] ELSE files
    /\ UNCHANGED box

\* kill -9, of the script and what it runs: no finally block.
JobKilled(p) == /\ Running(p)
                /\ job' = [job EXCEPT ![p].pc = "ended", ![p].passed = FALSE, ![p].trouble = Worse(@, "left")]
                /\ BreakTestsOff(p)
                /\ UNCHANGED files

\* The exit code is read; the next run may begin.
JobRead(p) == At(p, "ended") /\ job' = [job EXCEPT ![p] = NoJob] /\ UNCHANGED <<box, files>>

JobSteps(p) == \/ Cleanup(p) \/ Up(p) \/ WaitForPostgres(p) \/ MigrateUp(p) \/ SeedSample(p)
               \/ CountSource(p) \/ DumpDatabase(p) \/ RecreateDatabase(p) \/ RestoreDatabase(p)
               \/ MigrateCheck(p) \/ CompareCounts(p) \/ VerifySample(p) \/ IntegrationTests(p)
               \/ TakeDown(p) \/ Unlink(p)
JobStep(p) == Running(p) /\ (JobSteps(p) \/ CommandFails(p))
=============================================================================
