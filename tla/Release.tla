------------------------------- MODULE Release -------------------------------
(***************************************************************************)
(* The release scripts together: the evidence collector runs preflight,    *)
(* the drill and the integration tests as child processes and waits for    *)
(* their exit codes; preflight may run the drill.  A second person may run *)
(* the drill or the integration tests by hand at any time.                 *)
(***************************************************************************)
EXTENDS Evidence, Preflight, TempDatabase

CONSTANTS Child, Manual,     \* the runners: of the collector or preflight, and by hand
          UsualTrees,        \* some of Trees
          MaxCommands,       \* bound: commands that are typed
          MaxKills           \* bound: database scripts that are killed

ASSUME ReleaseAssumption == /\ Child # Manual /\ Runners = {Child, Manual}
                            /\ UsualTrees \subseteq Trees
                            /\ MaxCommands \in Nat

VARIABLE spent  \* how much of the bounds is used

vars == <<collector, folder, preflight, job, box, files, spent>>

ChildSteps == {"preflight", "db-integration", "backup-restore-drill"}
StepIs(steps) == AtStep /\ Steps[collector.i] \in steps
DrillIs == AtCheck /\ Checks[preflight.i] = "backup-restore-drill"

TypeOK ==
    /\ collector.pc \in {"idle", "running", "passed", "failed"}
    /\ collector.pc # "idle" => /\ collector.run \in 1..MaxCommands
                                /\ collector.i \in 1..(Len(Steps) + 1)
                                /\ Len(collector.entries) = collector.i - 1
    /\ folder.runs \in 0..MaxCommands
    /\ preflight.pc \in {"idle", "running", "passed", "failed"}
    /\ preflight.pc # "idle" => preflight.i \in 1..(Len(Checks) + 1)
    /\ \A k \in Scripts : /\ box[k].state \in {"none", "init", "ready"}
                          /\ files[k].compose \in Ports \cup {NoFile}
    /\ \A p \in Runners : Running(p) => Script(p) \in Scripts /\ job[p].port \in Ports

Init == EvidenceInit /\ PreflightInit /\ DatabaseInit /\ spent = [commands |-> 0, kills |-> 0]

\* By hand: a command line of preflight, a drill or the integration tests.
\* Only the drill and the tests share anything with a run by hand, so that one
\* by hand need only be tried from rest or beside one of them.
AtRest == collector.pc = "idle" /\ preflight.pc = "idle" /\ job[Child] = NoJob
Typed == spent.commands < MaxCommands /\ spent' = [spent EXCEPT !.commands = @ + 1]
\* What was run before changes nothing for the contract checks: the other trees
\* are only tried first.
TreesNow == IF spent.commands = 0 THEN Trees ELSE UsualTrees
RunPreflight == /\ Typed /\ AtRest /\ ~Running(Manual)
                /\ \E args \in PreflightArgs, tree \in TreesNow : PreflightStart(args, tree)
                /\ UNCHANGED <<collector, folder, job, box, files>>
RunJob == /\ Typed
          /\ AtRest \/ Running(Child) \/ DrillIs \/ StepIs({"db-integration", "backup-restore-drill"})
          /\ \E k \in Scripts, keep \in KeepChoices : JobStart(Manual, k, keep)
          /\ UNCHANGED <<collector, folder, preflight>>
Collect == /\ Typed /\ AtRest /\ ~Running(Manual)
           /\ \E chosen \in StepChoices, continue \in BOOLEAN : CollectorStart(chosen, continue)
           /\ UNCHANGED <<preflight, job, box, files>>

\* The collector's children have no options.
StartChild == /\ \/ StepIs({"db-integration", "backup-restore-drill"}) \/ DrillIs
              /\ JobStart(Child, IF StepIs({"db-integration"}) THEN "integration" ELSE "drill", {})
              /\ UNCHANGED <<collector, folder, preflight, spent>>
StartPreflight == /\ StepIs({"preflight"})
                  /\ \E tree \in UsualTrees : PreflightStart(DefaultArgs, tree)
                  /\ UNCHANGED <<collector, folder, job, box, files, spent>>

ExitCode(p) == IF job[p].passed THEN 0 ELSE 1

PreflightChecks == /\ RunCheck \/ PreflightPasses
                   /\ UNCHANGED <<collector, folder, job, box, files, spent>>
DrillCheckEnds == /\ DrillIs /\ JobRead(Child)
                  /\ CheckEnds(job[Child].passed)
                  /\ UNCHANGED <<collector, folder, spent>>
\* Reading the exit code of a run by hand concerns nobody else.
ManualEnds == /\ \/ PreflightRead /\ collector.pc = "idle" /\ UNCHANGED <<job, box, files>>
                 \/ JobRead(Manual) /\ UNCHANGED preflight
              /\ UNCHANGED <<collector, folder, spent>>

ChildStepEnds == \/ /\ StepIs({"preflight"})
                    /\ PreflightRead
                    /\ StepEnds(IF preflight.pc = "passed" THEN 0 ELSE 1)
                    /\ UNCHANGED <<job, box, files, spent>>
                 \/ /\ StepIs({"db-integration", "backup-restore-drill"})
                    /\ JobRead(Child)
                    /\ StepEnds(ExitCode(Child))
                    /\ UNCHANGED <<preflight, spent>>
OtherStepEnds == /\ AtStep /\ Steps[collector.i] \notin ChildSteps
                 /\ \E code \in {0, 127} : StepEnds(code)
                 /\ UNCHANGED <<preflight, job, box, files, spent>>
CollectorFinishes == /\ CollectorEnds \/ CollectorRead
                     /\ UNCHANGED <<preflight, job, box, files, spent>>
\* An interrupt reaches the children as well; kill -9 only the collector, whose
\* child runs to its end unread.
CollectorStops == /\ CollectorBroken
                  /\ preflight' = PreflightIdle
                  /\ UNCHANGED <<job, box, files, spent>>
Orphaned == /\ collector.pc = "idle" /\ preflight.pc = "idle" /\ JobRead(Child)
            /\ UNCHANGED <<collector, folder, preflight, spent>>

JobMoves(p) == JobStep(p) /\ UNCHANGED <<collector, folder, preflight, spent>>
JobDies(p) == /\ spent.kills < MaxKills
              /\ JobKilled(p)
              /\ spent' = [spent EXCEPT !.kills = @ + 1]
              /\ UNCHANGED <<collector, folder, preflight>>
DatabaseBoots == (\E k \in Scripts : ServerReady(k)) /\ UNCHANGED <<collector, folder, preflight, spent>>

ReleaseSteps == StartChild \/ StartPreflight \/ PreflightChecks \/ DrillCheckEnds \/ ChildStepEnds
                \/ OtherStepEnds \/ CollectorFinishes \/ Orphaned
Next == \/ RunPreflight \/ RunJob \/ Collect
        \/ ReleaseSteps \/ ManualEnds \/ CollectorStops
        \/ DatabaseBoots
        \/ \E p \in Runners : JobMoves(p) \/ JobDies(p)

Spec == Init /\ [][Next]_vars

(***************************************************************************)
(* Properties                                                              *)
(***************************************************************************)

\* When preflight passes with all its default checks (preflight_check.py), the
\* frontend's calls are served with the published roles, its pages ask for
\* roles that exist, every event and every payload field has a reader, and the
\* frontend and analytics services start behind the database and, wherever the
\* compose file names a condition, wait for its health: facts about the program
\* that the scripts only reach through several comparisons.
GateMeansContracts ==
    preflight.pc = "passed" /\ preflight.args.only = <<>> => ContractsHold(preflight.tree)

\* The manifest (collect_release_evidence.py) names, under rising numbers, one
\* file per selected step up to the end or to the first failure, each with the
\* exit code that the file itself tells, unless a later run into the same
\* directory has written it since.
ManifestTruthful ==
    folder.manifest # NoManifest =>
    LET m == folder.manifest
        entry == m.entries IN
    /\ \A i \in DOMAIN entry : LET f == folder.files[entry[i].file] IN
          \/ f = [run |-> m.run, code |-> entry[i].code]
          \/ f.run > m.run
    /\ \A i, j \in DOMAIN entry : i < j => entry[i].file[1] < entry[j].file[1]
    /\ IsPrefix([i \in DOMAIN entry |-> entry[i].step], SelectedSteps(m.chosen))
    /\ Len(entry) < Len(SelectedSteps(m.chosen)) => Last(entry).code # 0

\* A drill that nobody disturbs and that is about to end with 0 has restored
\* its own dump, of the rows it inserted itself, never those of an older run
\* (run_backup_restore_drill.py).
DrillProvesRestore ==
    \A p \in Runners :
       At(p, "down") /\ Script(p) = "drill" /\ job[p].passed /\ job[p].trouble # "overlap" =>
          /\ Box(p).restore = job[p].dump
          /\ job[p].dump.rows = p

\* What a killed run has left makes no later drill fail: it begins with a down.
\* An undisturbed run of which no command failed has passed when it comes to
\* its last down, but for the integration tests, which may begin during initdb
\* and take a volume as they find it (run_repository_db_integration.py): they
\* fail if one that was broken off had left its tables there, or no database.
LeftoversHarmless ==
    \A p \in Runners :
       At(p, "down") /\ job[p].trouble = "none" /\ ~job[p].passed =>
          Script(p) = "integration" /\ Box(p).source # EmptyDb

\* However it ends, an undisturbed run whose last down worked leaves no
\* container and no volume behind (the finally blocks of both scripts).
NothingLeft ==
    \A p \in Runners :
       At(p, "unlink") /\ job[p].trouble \notin {"left", "overlap"} /\ "database" \notin job[p].keep =>
          Box(p) = Down
=============================================================================
