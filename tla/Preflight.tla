------------------------------ MODULE Preflight ------------------------------
(***************************************************************************)
(* scripts/preflight_check.py: the release gate runs the checks that its   *)
(* arguments select one after the other and stops at the first that fails. *)
(* A contract check reads the working tree, the backup drill runs as a     *)
(* process of its own (TempDatabase), any other check may pass or fail.    *)
(***************************************************************************)
EXTENDS Contracts, Naturals

CONSTANTS Trees,         \* working trees that preflight is run on
          PreflightArgs  \* command lines, and whether the environment names a test database:
                         \* [only |-> Seq of checks, include |-> set of checks, dsn |-> BOOLEAN]

VARIABLE preflight  \* the process: pc and, once it runs, its arguments, its working
                    \* tree and the number of the check it is at

DefaultArgs == [only |-> <<>>, include |-> {}, dsn |-> FALSE]
DefaultChecks == <<"go", "analytics", "script-unit", "compose", "event-contract", "callback-contract",
                   "openapi-contract", "frontend-api-contract", "rbac-matrix", "frontend">>
\* The checks that an --include option can add, in the order they are added.
ExtraChecks == {"runtime-precheck", "runtime-smoke", "runtime-observability-snapshot",
                "db-integration", "backup-restore-drill", "compose-override", "frontend-e2e",
                "retention-preview", "capacity-estimate"}
\* --include-runtime-smoke is the only way to the smoke check.
OnlyChoices == ToSet(DefaultChecks) \cup (ExtraChecks \ {"runtime-smoke"})

ASSUME PreflightAssumption == \A args \in PreflightArgs : /\ args.only \in Seq(OnlyChoices)
                                                         /\ args.include \subseteq ExtraChecks

\* What --only names is run in that order, twice if named twice.
Base(args) == IF args.only = <<>> THEN DefaultChecks ELSE args.only
Wanted(args, check) == \/ check \in args.include \cup ToSet(args.only)
                       \/ check = "runtime-precheck" /\ "runtime-smoke" \in args.include
\* An extra check is added unless it is there already.
Extra(args, check) == IF Wanted(args, check) /\ check \notin ToSet(Base(args)) THEN <<check>> ELSE <<>>
Extras(args) == Extra(args, "runtime-precheck") \o Extra(args, "runtime-smoke")
                \o Extra(args, "runtime-observability-snapshot") \o Extra(args, "db-integration")
                \o Extra(args, "backup-restore-drill") \o Extra(args, "compose-override")
                \o Extra(args, "frontend-e2e") \o Extra(args, "retention-preview")
                \o Extra(args, "capacity-estimate")
SelectedChecks(args) == Base(args) \o Extras(args)

\* Selecting the integration tests ends the command when they have no database.
NoDatabase(args) == ~args.dsn /\ Wanted(args, "db-integration")

PreflightIdle == [pc |-> "idle"]
PreflightInit == preflight = PreflightIdle

PreflightStart(args, tree) ==
    /\ preflight.pc = "idle"
    /\ preflight' = [pc |-> IF NoDatabase(args) THEN "failed" ELSE "running",
                     args |-> args, tree |-> tree, i |-> 1]

Checks == SelectedChecks(preflight.args)
AtCheck == preflight.pc = "running" /\ preflight.i <= Len(Checks)

\* run_check returns, or raises SystemExit.
CheckEnds(passed) ==
    /\ AtCheck
    /\ preflight' = IF passed THEN [preflight EXCEPT !.i = @ + 1] ELSE [preflight EXCEPT !.pc = "failed"]

\* A check other than the drill: a contract check goes by the tree, the tests,
\* the build and the rest may end either way or not be there to start.
RunCheck ==
    /\ AtCheck
    /\ LET check == Checks[preflight.i] IN
       /\ check # "backup-restore-drill"
       /\ \E passed \in IF check \in ContractChecks THEN {Passes(check, preflight.tree)} ELSE BOOLEAN :
             CheckEnds(passed)

PreflightPasses == /\ preflight.pc = "running"
                   /\ preflight.i > Len(Checks)
                   /\ preflight' = [preflight EXCEPT !.pc = "passed"]

\* Whoever ran preflight has its exit code.
PreflightRead == preflight.pc \in {"passed", "failed"} /\ preflight' = PreflightIdle
=============================================================================
