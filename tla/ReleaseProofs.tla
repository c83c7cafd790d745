---------------------------- MODULE ReleaseProofs ----------------------------
(***************************************************************************)
(* Proofs about Release.  For any trees, routes, roles and payloads, a     *)
(* preflight that passes its default checks has run all six contract       *)
(* checks on its tree, and together they imply what no one of them says    *)
(* (GateInv).  Whatever the two people run and kill, and in whatever       *)
(* state that leaves the throw-away databases, a run that nobody disturbs  *)
(* finds what it has made (DatabaseInv).  The manifest of the collector    *)
(* and the files beside it agree (EvidenceInv), because the steps are run  *)
(* in the order of their numbers (StepsRise).                              *)
(***************************************************************************)
EXTENDS Release, SequenceTheorems, FiniteSetTheorems, WellFoundedInduction, TLAPS

(***************************************************************************)
(* The contract checks together                                            *)
(***************************************************************************)

AllPass(t) == \A check \in ContractChecks : Passes(check, t)

\* What the six checks have established, with their names expanded.
LEMMA EachPasses ==
    ASSUME NEW t, AllPass(t)
    PROVE  /\ OpenapiPasses(t)
           /\ RbacPasses(t)
           /\ FrontendPasses(t)
           /\ EventsPass(t)
           /\ CallbackPasses(t)
           /\ ComposePasses(t)
<1>1. /\ Passes("openapi-contract", t) /\ Passes("rbac-matrix", t)
      /\ Passes("frontend-api-contract", t) /\ Passes("event-contract", t)
      /\ Passes("callback-contract", t) /\ Passes("compose", t)
  BY DEF AllPass, ContractChecks
<1>2. Passes("openapi-contract", t) => OpenapiPasses(t)
  BY DEF Passes
<1>3. Passes("rbac-matrix", t) => RbacPasses(t)
  BY DEF Passes
<1>4. Passes("frontend-api-contract", t) => FrontendPasses(t)
  BY DEF Passes
<1>5. Passes("event-contract", t) => EventsPass(t)
  BY DEF Passes
<1>6. Passes("callback-contract", t) => CallbackPasses(t)
  BY DEF Passes
<1>7. Passes("compose", t) => ComposePasses(t)
  BY DEF Passes
<1> QED  BY <1>1, <1>2, <1>3, <1>4, <1>5, <1>6, <1>7

\* RequireRoles admits what the scripts read off its alias, and the super admin.
LEMMA AdmitsRbac ==
    ASSUME NEW t, NEW r \in Guarded(t)
    PROVE  Admits(t, r) = HandlerRbac(t)[r] \cup {SuperAdmin}
BY DEF Admits, HandlerRbac, AliasRoles

\* The six checks of check_*.py pass on a tree only if the frontend is served,
\* with the roles that are published, and everything that is sent is read.
THEOREM GateSound ==
    ASSUME NEW t, AllPass(t)
    PROVE  ContractsHold(t)
<1>1. /\ OpenapiPasses(t) /\ RbacPasses(t) /\ FrontendPasses(t)
      /\ EventsPass(t) /\ CallbackPasses(t) /\ ComposePasses(t)
  BY EachPasses
<1>2. CallsServed(t)
  <2> SUFFICES ASSUME NEW r \in t.calls \ AuthRoutes
               PROVE  /\ r \in Guarded(t)
                      /\ Admits(t, r) = t.openapi[r].roles \cup {SuperAdmin}
                      /\ Admits(t, r) = t.matrix.rest[r] \cup {SuperAdmin}
    BY DEF CallsServed
  <2>1. r \in DOMAIN t.openapi /\ r \in Guarded(t)
    BY <1>1 DEF FrontendPasses, OpenapiPasses
  <2>2. t.openapi[r].roles = HandlerRbac(t)[r]
    BY <1>1, <2>1 DEF OpenapiPasses, AccessOk
  <2>3. t.matrix.rest[r] = HandlerRbac(t)[r]
    BY <1>1 DEF RbacPasses
  <2> QED  BY <2>1, <2>2, <2>3, AdmitsRbac
<1>3. RolesExist(t)
  <2>1. ASSUME NEW r \in Guarded(t)
        PROVE  Admits(t, r) \subseteq Roles
    <3>1. HandlerRbac(t)[r] \subseteq Roles
      <4>1. r \in DOMAIN t.matrix.rest
        BY <1>1 DEF RbacPasses, HandlerRbac
      <4> QED  BY <1>1, <4>1 DEF RbacPasses
    <3> QED  BY <3>1, AdmitsRbac, ContractsAssumption DEF ContractsAssumption
  <2>2. \A p \in DOMAIN t.pages : t.pages[p] \subseteq Roles
    BY <1>1 DEF RbacPasses
  <2> QED  BY <2>1, <2>2 DEF RolesExist
<1>4. EventsHandled(t)
  BY <1>1 DEF EventsPass, EventsHandled
<1>5. PayloadDecoded(t)
  BY <1>1 DEF CallbackPasses, PayloadDecoded
<1>6. DatabaseFirst(t)
  <2>1. /\ DependsOnHealthy(t, "frontend", "backend")
        /\ DependsOnHealthy(t, "analytics", "backend")
        /\ DependsOnHealthy(t, "backend", "postgres")
    <3>1. \A w \in Waits : DependsOnHealthy(t, w[1], w[2])
      BY <1>1 DEF ComposePasses
    <3>2. <<"frontend", "backend">> \in Waits /\ <<"analytics", "backend">> \in Waits
          /\ <<"backend", "postgres">> \in Waits
      BY DEF Waits
    <3> QED  BY <3>1, <3>2
  <2> QED  BY <2>1 DEF DatabaseFirst, DependsOnHealthy
<1> QED  BY <1>2, <1>3, <1>4, <1>5, <1>6 DEF ContractsHold

(***************************************************************************)
(* Preflight runs them all                                                 *)
(***************************************************************************)

DefaultNames == {"go", "analytics", "script-unit", "compose", "event-contract", "callback-contract",
                 "openapi-contract", "frontend-api-contract", "rbac-matrix", "frontend"}
Names == DefaultNames \cup ExtraChecks

LEMMA ExtraIsSeq == ASSUME NEW args, NEW check \in Names PROVE Extra(args, check) \in Seq(Names)
<1>1. <<check>> \in Seq(Names)
  OBVIOUS
<1>2. <<>> \in Seq(Names)
  OBVIOUS
<1> QED  BY <1>1, <1>2 DEF Extra

LEMMA ExtrasAreChecks == ASSUME NEW args PROVE Extras(args) \in Seq(Names)
<1>2. ASSUME NEW s \in Seq(Names), NEW u \in Seq(Names) PROVE s \o u \in Seq(Names)
  OBVIOUS
<1> DEFINE E(check) == Extra(args, check)
<1>3. \A check \in Names : E(check) \in Seq(Names)
  BY ExtraIsSeq
<1>4. Extras(args) = E("runtime-precheck") \o E("runtime-smoke")
                     \o E("runtime-observability-snapshot") \o E("db-integration")
                     \o E("backup-restore-drill") \o E("compose-override")
                     \o E("frontend-e2e") \o E("retention-preview") \o E("capacity-estimate")
  BY DEF Extras
<1> HIDE DEF E
<1>5. \A check \in ExtraChecks : E(check) \in Seq(Names)
  BY <1>3 DEF Names
<1>6. /\ E("runtime-precheck") \in Seq(Names) /\ E("runtime-smoke") \in Seq(Names)
      /\ E("runtime-observability-snapshot") \in Seq(Names) /\ E("db-integration") \in Seq(Names)
      /\ E("backup-restore-drill") \in Seq(Names) /\ E("compose-override") \in Seq(Names)
      /\ E("frontend-e2e") \in Seq(Names) /\ E("retention-preview") \in Seq(Names)
      /\ E("capacity-estimate") \in Seq(Names)
  BY <1>5 DEF ExtraChecks
<1>7. E("runtime-precheck") \o E("runtime-smoke") \o E("runtime-observability-snapshot") \in Seq(Names)
  BY <1>2, <1>6
<1>8. E("runtime-precheck") \o E("runtime-smoke") \o E("runtime-observability-snapshot")
      \o E("db-integration") \o E("backup-restore-drill") \o E("compose-override") \in Seq(Names)
  BY <1>2, <1>6, <1>7
<1> QED  BY <1>2, <1>4, <1>6, <1>8

LEMMA DefaultsAreChecks == DefaultChecks \in Seq(Names) /\ Len(DefaultChecks) = 10
<1>1. /\ "go" \in Names /\ "analytics" \in Names /\ "script-unit" \in Names /\ "compose" \in Names
      /\ "event-contract" \in Names /\ "callback-contract" \in Names /\ "openapi-contract" \in Names
      /\ "frontend-api-contract" \in Names /\ "rbac-matrix" \in Names /\ "frontend" \in Names
  BY DEF Names, DefaultNames
<1>2. Len(DefaultChecks) = 10
  BY DEF DefaultChecks
<1>3. DefaultChecks \in Seq(Names)
  BY <1>1 DEF DefaultChecks
<1> QED  BY <1>2, <1>3

LEMMA LongerTail ==
    ASSUME NEW S, NEW d \in Seq(S), NEW e \in Seq(S), Len(d) = 10
    PROVE  /\ Len(d \o e) \in Nat
           /\ Len(d \o e) >= 10
           /\ \A i \in 1..10 : (d \o e)[i] = d[i]
<1>1. Len(e) \in Nat
  OBVIOUS
<1>2. Len(d \o e) = Len(d) + Len(e)
  BY ConcatProperties
<1>3. \A i \in 1..Len(d) : (d \o e)[i] = d[i]
  <2>1. \A i \in 1 .. Len(d) + Len(e) : (d \o e)[i] = IF i <= Len(d) THEN d[i] ELSE e[i - Len(d)]
    BY ConcatProperties
  <2>2. Len(d) \in Nat
    OBVIOUS
  <2>3. \A i \in 1..Len(d) : i \in 1 .. Len(d) + Len(e) /\ i <= Len(d)
    BY <1>1, <2>2
  <2> QED  BY <2>1, <2>3
<1> QED  BY <1>1, <1>2, <1>3

\* Without --only the default checks come first.
LEMMA DefaultsFirst ==
    ASSUME NEW args, args.only = <<>>
    PROVE  /\ Len(SelectedChecks(args)) \in Nat
           /\ Len(SelectedChecks(args)) >= 10
           /\ \A i \in 1..10 : SelectedChecks(args)[i] = DefaultChecks[i]
<1>1. SelectedChecks(args) = DefaultChecks \o Extras(args)
  BY DEF SelectedChecks, Base
<1> QED  BY <1>1, LongerTail, ExtrasAreChecks, DefaultsAreChecks, SMTT(20)

LEMMA ContractChecksAreDefault ==
    \A check \in ContractChecks : \E i \in 1..10 : DefaultChecks[i] = check
BY DEF ContractChecks, DefaultChecks

\* A preflight that is under way has all its fields.
Shaped == preflight.pc # "idle" =>
             preflight = [pc |-> preflight.pc, args |-> preflight.args,
                          tree |-> preflight.tree, i |-> preflight.i]

\* The contract checks that lie behind preflight have passed on its tree.
BehindPasses ==
    preflight.pc \in {"running", "passed"} =>
       /\ preflight.i \in Nat
       /\ \A j \in 1..(preflight.i - 1) :
             Checks[j] \in ContractChecks => Passes(Checks[j], preflight.tree)
       /\ preflight.pc = "passed" => preflight.i > Len(Checks)

GateInv == Shaped /\ BehindPasses

LEMMA GateInit == Init => GateInv
BY DEF Init, PreflightInit, PreflightIdle, GateInv, Shaped, BehindPasses

\* The steps of preflight itself.
LEMMA CheckKeeps ==
    ASSUME GateInv, RunCheck \/ (\E passed : DrillIs /\ CheckEnds(passed))
    PROVE  GateInv'
<1>1. PICK passed : /\ CheckEnds(passed)
                    /\ Checks[preflight.i] \in ContractChecks =>
                          passed = Passes(Checks[preflight.i], preflight.tree)
  <2>1. CASE RunCheck
    BY <2>1 DEF RunCheck
  <2>2. CASE \E passed : DrillIs /\ CheckEnds(passed)
    <3>1. Checks[preflight.i] = "backup-restore-drill"
      BY <2>2 DEF DrillIs
    <3> QED  BY <2>2, <3>1 DEF ContractChecks
  <2> QED  BY <2>1, <2>2
<1>2. /\ preflight.pc = "running" /\ preflight.i \in Nat
      /\ preflight = [pc |-> "running", args |-> preflight.args, tree |-> preflight.tree, i |-> preflight.i]
  BY <1>1 DEF CheckEnds, AtCheck, GateInv, Shaped, BehindPasses
<1>3. CASE passed
  <2>1. preflight' = [preflight EXCEPT !.i = @ + 1]
    BY <1>1, <1>3 DEF CheckEnds
  <2>2. preflight' = [pc |-> "running", args |-> preflight.args, tree |-> preflight.tree, i |-> preflight.i + 1]
    BY <1>2, <2>1
  <2>3. Checks' = Checks
    BY <2>2 DEF Checks
  <2>4. ASSUME NEW j \in 1..preflight.i, Checks[j] \in ContractChecks
        PROVE  Passes(Checks[j], preflight.tree)
    <3>1. CASE j = preflight.i
      BY <1>1, <1>3, <2>4, <3>1
    <3>2. CASE j # preflight.i
      <4>1. j \in 1..(preflight.i - 1)
        BY <1>2, <3>2
      <4> QED  BY <1>2, <2>4, <4>1 DEF GateInv, BehindPasses
    <3> QED  BY <3>1, <3>2
  <2>5. \A j \in 1..(preflight'.i - 1) : Checks'[j] \in ContractChecks => Passes(Checks'[j], preflight'.tree)
    BY <1>2, <2>2, <2>3, <2>4
  <2> QED  BY <1>2, <2>2, <2>5 DEF GateInv, Shaped, BehindPasses
<1>4. CASE ~passed
  <2>1. preflight' = [preflight EXCEPT !.pc = "failed"]
    BY <1>1, <1>4 DEF CheckEnds
  <2>2. preflight' = [pc |-> "failed", args |-> preflight.args, tree |-> preflight.tree, i |-> preflight.i]
    BY <1>2, <2>1
  <2> QED  BY <2>2 DEF GateInv, Shaped, BehindPasses
<1> QED  BY <1>3, <1>4

LEMMA PassesKeeps == GateInv /\ PreflightPasses => GateInv'
<1> SUFFICES ASSUME GateInv, PreflightPasses PROVE GateInv'
  OBVIOUS
<1>1. /\ preflight.i \in Nat /\ preflight.i > Len(Checks)
      /\ preflight' = [pc |-> "passed", args |-> preflight.args, tree |-> preflight.tree, i |-> preflight.i]
  BY DEF PreflightPasses, GateInv, Shaped, BehindPasses
<1>2. Checks' = Checks
  BY <1>1 DEF Checks
<1>3. \A j \in 1..(preflight.i - 1) : Checks[j] \in ContractChecks => Passes(Checks[j], preflight.tree)
  BY DEF PreflightPasses, GateInv, BehindPasses
<1>4. \A j \in 1..(preflight'.i - 1) : Checks'[j] \in ContractChecks => Passes(Checks'[j], preflight'.tree)
  BY <1>1, <1>2, <1>3
<1> QED  BY <1>1, <1>2, <1>4 DEF GateInv, Shaped, BehindPasses

LEMMA StartKeeps == ASSUME NEW args, NEW t, PreflightStart(args, t) PROVE GateInv'
<1>1. \E pc \in {"failed", "running"} : preflight' = [pc |-> pc, args |-> args, tree |-> t, i |-> 1]
  BY DEF PreflightStart
<1> QED  BY <1>1 DEF GateInv, Shaped, BehindPasses

LEMMA IdleKeeps == preflight' = PreflightIdle => GateInv'
BY DEF PreflightIdle, GateInv, Shaped, BehindPasses

LEMMA SameKeeps == GateInv /\ UNCHANGED preflight => GateInv'
BY DEF GateInv, Shaped, BehindPasses, Checks

LEMMA GateNext == GateInv /\ [Next]_vars => GateInv'
<1> SUFFICES ASSUME GateInv, [Next]_vars PROVE GateInv'
  OBVIOUS
<1>1. CASE RunPreflight
  BY <1>1, StartKeeps DEF RunPreflight
<1>2. CASE StartPreflight
  BY <1>2, StartKeeps DEF StartPreflight
<1>3. CASE PreflightChecks
  BY <1>3, CheckKeeps, PassesKeeps DEF PreflightChecks
<1>4. CASE DrillCheckEnds
  <2>1. \E passed : DrillIs /\ CheckEnds(passed)
    BY <1>4 DEF DrillCheckEnds
  <2> QED  BY <2>1, CheckKeeps
<1>5. CASE ManualEnds \/ ChildStepEnds \/ CollectorStops
  BY <1>5, IdleKeeps, SameKeeps DEF ManualEnds, ChildStepEnds, CollectorStops, PreflightRead
<1>6. CASE \/ RunJob \/ Collect \/ StartChild \/ OtherStepEnds \/ CollectorFinishes \/ Orphaned
           \/ DatabaseBoots \/ (\E p \in Runners : JobMoves(p) \/ JobDies(p)) \/ UNCHANGED vars
  <2>1. UNCHANGED preflight
    BY <1>6 DEF RunJob, Collect, StartChild, OtherStepEnds, CollectorFinishes, Orphaned,
                DatabaseBoots, JobMoves, JobDies, vars
  <2> QED  BY <2>1, SameKeeps
<1> QED  BY <1>1, <1>2, <1>3, <1>4, <1>5, <1>6 DEF Next, ReleaseSteps

LEMMA GateInvMeans == GateInv => GateMeansContracts
<1> SUFFICES ASSUME GateInv, preflight.pc = "passed", preflight.args.only = <<>>
             PROVE  ContractsHold(preflight.tree)
  BY DEF GateMeansContracts
<1>1. /\ preflight.i \in Nat /\ preflight.i > Len(Checks)
      /\ \A j \in 1..(preflight.i - 1) : Checks[j] \in ContractChecks => Passes(Checks[j], preflight.tree)
  BY DEF GateInv, BehindPasses
<1>2. /\ Len(Checks) \in Nat /\ Len(Checks) >= 10
      /\ \A j \in 1..10 : Checks[j] = DefaultChecks[j]
  BY DefaultsFirst DEF Checks
<1>3. ASSUME NEW j \in 1..10, DefaultChecks[j] \in ContractChecks
      PROVE  Passes(DefaultChecks[j], preflight.tree)
  <2>1. j \in 1..(preflight.i - 1)
    BY <1>1, <1>2
  <2>2. Checks[j] = DefaultChecks[j]
    BY <1>2
  <2> QED  BY <1>1, <1>3, <2>1, <2>2
<1>4. AllPass(preflight.tree)
  BY <1>3, ContractChecksAreDefault DEF AllPass
<1> QED  BY <1>4, GateSound

\* A preflight that passed with all its default checks (preflight_check.py)
\* means that the contracts hold on its tree, whatever else is run.
THEOREM GateHolds == Spec => []GateMeansContracts
<1>1. Spec => []GateInv
  BY GateInit, GateNext, PTL DEF Spec
<1> QED  BY <1>1, GateInvMeans, PTL

(***************************************************************************)
(* The throw-away databases                                                *)
(***************************************************************************)

Databases == [schema : BOOLEAN, rows : Runners \cup {Nobody}]
Boxes == [state : {"none", "init", "ready"}, port : Ports \cup {0}, source : Databases \cup {NoFile},
          restore : Databases \cup {NoFile}]
Files == [compose : Ports \cup {NoFile}, dump : Runners \cup {NoFile}]
CountSets == [schema : BOOLEAN, full : BOOLEAN]

\* The places of a run of the drill between the start of the server and the end.
Restored == {"check", "compare", "verify"}
Dumped == {"recreate", "restore"} \cup Restored
Seeded == {"count", "dump"} \cup Dumped
Drilling == {"migrate", "seed"} \cup Seeded
Places == {"cleanup", "up", "wait", "test", "down", "unlink", "ended"} \cup Drilling
TroubleKinds == {"none", "command", "early", "left", "overlap"}
Jobs == [pc : Places, script : Scripts, port : Ports, keep : KeepChoices \cup {{}}, passed : BOOLEAN,
         counts : CountSets, dump : Databases, trouble : TroubleKinds]

DatabaseTypes == /\ job \in [Runners -> Jobs \cup {NoJob}]
                 /\ box \in [Scripts -> Boxes]
                 /\ files \in [Scripts -> Files]

\* Two runs of a script at once know of each other.
Apart == \A p, q \in Runners :
    p # q /\ Running(p) /\ Running(q) /\ Script(p) = Script(q) => job[p].trouble = "overlap"

\* The source database with the rows of p.
Loaded(p) == [schema |-> TRUE, rows |-> p]

\* What a run that nobody disturbs finds where it is: its compose file and, as
\* long as it has not failed, its container, its rows, its dump and what it has
\* restored; at its end nothing, unless its last down failed.
Undisturbed(p, j, b, f) ==
    /\ f.compose = j.port
    /\ j.passed \/ j.pc \in {"down", "unlink"}
    /\ j.pc \in {"wait", "test"} \cup Drilling => b.state # "none" /\ b.port = j.port
    /\ j.pc \in Drilling => b.state = "ready"
    /\ j.pc \in Seeded => b.source = Loaded(p)
    /\ j.pc \in {"dump"} \cup Dumped => j.counts = Counts(Loaded(p))
    /\ j.pc \in Dumped => j.dump = Loaded(p)
    /\ j.pc = "restore" => b.restore # NoFile
    /\ j.pc \in Restored => b.restore = Loaded(p)
    /\ j.pc = "down" /\ j.script = "drill" /\ j.passed => j.dump = Loaded(p) /\ b.restore = Loaded(p)
    /\ j.pc = "unlink" /\ j.trouble # "left" /\ "database" \notin j.keep => b = Down

\* What it finds when none of its commands failed either: nothing stops a drill, and the
\* tests only what was in the volume before.
Unfailed(j, b) ==
    /\ j.passed \/ j.script = "integration"
    /\ ~j.passed /\ j.pc = "down" => b.source # EmptyDb
    /\ j.pc = "up" /\ j.script = "drill" => b = Down
    /\ j.pc \in {"wait", "migrate"} /\ j.script = "drill" => b.source = EmptyDb
    /\ j.pc = "seed" => b.source = [schema |-> TRUE, rows |-> Nobody]

\* A run p of job j with the container b and the files f of its script.
RunHolds(p, j, b, f) ==
    /\ j.pc \in {"cleanup"} \cup Drilling => j.script = "drill"
    /\ j.pc = "test" => j.script = "integration"
    /\ j.pc # "ended" => /\ j.trouble # "overlap" => Undisturbed(p, j, b, f)
                         /\ j.trouble = "none" => Unfailed(j, b)

DatabaseInv == /\ DatabaseTypes
               /\ Apart
               /\ \A p \in Runners : job[p] \in Jobs => RunHolds(p, job[p], box[Script(p)], files[Script(p)])

LEMMA EmptyTypes == /\ EmptyDb \in Databases /\ EmptyDb # NoFile /\ Down.source = EmptyDb
                    /\ Down \in Boxes
                    /\ NoFiles \in Files
                    /\ NoJob \notin Jobs
<1>0. EmptyDb \in Databases
  BY DEF EmptyDb, Databases
<1>1. EmptyDb \in Databases /\ EmptyDb # NoFile
  BY <1>0, DatabaseAssumption DEF Databases, DatabaseAssumption
<1>2. Down \in Boxes /\ Down.source = EmptyDb
  BY <1>1 DEF Down, Boxes
<1> QED  BY <1>1, <1>2 DEF NoFiles, Files, NoJob, Jobs, Places, Drilling, Seeded, Dumped, Restored

LEMMA CountsTyped == \A db \in Databases : Counts(db) \in CountSets
BY DEF Counts, Databases, CountSets

LEMMA DatabaseStarts == DatabaseInit => DatabaseInv
<1> SUFFICES ASSUME DatabaseInit PROVE DatabaseInv
  OBVIOUS
<1>1. \A p \in Runners : job[p] = NoJob
  BY DEF DatabaseInit
<1>2. Apart
  BY <1>1 DEF Apart, Running, NoJob
<1>3. DatabaseTypes
  BY EmptyTypes DEF DatabaseInit, DatabaseTypes
<1> QED  BY <1>1, <1>2, <1>3, EmptyTypes DEF DatabaseInv

\* What a run knows.
LEMMA AtRun ==
    ASSUME DatabaseInv, NEW p \in Runners, Running(p) \/ At(p, "ended")
    PROVE  /\ job[p] \in Jobs
           /\ Script(p) \in Scripts
           /\ Box(p) \in Boxes
           /\ files[Script(p)] \in Files
           /\ RunHolds(p, job[p], Box(p), files[Script(p)])
<1>1. job[p] \in Jobs
  BY DEF DatabaseInv, DatabaseTypes, Running, At, NoJob
<1>2. Script(p) \in Scripts
  BY <1>1 DEF Jobs, Script
<1> QED  BY <1>1, <1>2 DEF DatabaseInv, DatabaseTypes, Box

\* A step of one run: it changes its own job and what belongs to its script.
StepOf(p) ==
    /\ job' = [job EXCEPT ![p] = job'[p]]
    /\ job'[p] \in Jobs
    /\ job'[p].script = Script(p)
    /\ job[p].trouble = "overlap" => job'[p].trouble = "overlap"
    /\ box' = [box EXCEPT ![Script(p)] = box'[Script(p)]]
    /\ box'[Script(p)] \in Boxes
    /\ files' = [files EXCEPT ![Script(p)] = files'[Script(p)]]
    /\ files'[Script(p)] \in Files
    /\ RunHolds(p, job'[p], box'[Script(p)], files'[Script(p)])

\* Another run that nobody disturbs is of the other script.
LEMMA StepKeeps ==
    ASSUME DatabaseInv, NEW p \in Runners, Running(p), StepOf(p)
    PROVE  DatabaseInv'
<1>1. Script(p) \in Scripts /\ job[p] \in Jobs
  BY AtRun
<1>2. DatabaseTypes'
  BY <1>1 DEF StepOf, DatabaseInv, DatabaseTypes
<1>3. \A q \in Runners : q # p => job'[q] = job[q]
  BY DEF StepOf, DatabaseInv, DatabaseTypes
<1>4. Script(p)' = Script(p)
  BY DEF StepOf, Script
<1>5. Apart'
  <2> SUFFICES ASSUME NEW q \in Runners, NEW r \in Runners, q # r,
                      Running(q)', Running(r)', Script(q)' = Script(r)'
               PROVE  job'[q].trouble = "overlap"
    BY DEF Apart
  <2>1. Running(q) /\ Running(r) /\ Script(q) = Script(r)
    BY <1>3, <1>4 DEF Running, Script
  <2>2. job[q].trouble = "overlap"
    BY <2>1 DEF DatabaseInv, Apart
  <2> QED  BY <1>3, <2>2 DEF StepOf
<1>6. ASSUME NEW q \in Runners, job'[q] \in Jobs
      PROVE  RunHolds(q, job'[q], box'[Script(q)'], files'[Script(q)'])
  <2>1. CASE q = p
    BY <1>4, <2>1 DEF StepOf
  <2>2. CASE q # p
    <3>1. job'[q] = job[q] /\ job[q] \in Jobs /\ Script(q)' = Script(q) /\ Script(q) \in Scripts
      BY <1>3, <1>6, <2>2 DEF Script, Jobs
    <3>2. RunHolds(q, job[q], box[Script(q)], files[Script(q)])
      BY <3>1 DEF DatabaseInv
    <3>3. CASE Script(q) # Script(p)
      <4>1. box'[Script(q)] = box[Script(q)] /\ files'[Script(q)] = files[Script(q)]
        BY <3>1, <3>3 DEF StepOf, DatabaseInv, DatabaseTypes
      <4> QED  BY <3>1, <3>2, <4>1
    <3>4. CASE Script(q) = Script(p)
      <4>1. job[q].pc # "ended" => job[q].trouble = "overlap"
        <5>1. job[q].pc # "idle"
          BY <3>1 DEF Jobs, Places, Drilling, Seeded, Dumped, Restored
        <5> QED  BY <2>2, <3>4, <5>1 DEF DatabaseInv, Apart, Running
      <4> QED  BY <3>1, <3>2, <4>1 DEF RunHolds
    <3> QED  BY <3>3, <3>4
  <2> QED  BY <2>1, <2>2
<1> QED  BY <1>2, <1>5, <1>6 DEF DatabaseInv

LEMMA MinIsIn ==
    ASSUME NEW S, S \subseteq Nat, S # {}
    PROVE  Min(S) \in S
<1> DEFINE R == OpToRel(<, Nat)
<1>1. PICK x \in S : \A y \in S : ~ (<<y, x>> \in R)
  <2>1. IsWellFoundedOn(R, Nat)
    BY NatLessThanWellFounded
  <2> HIDE DEF R
  <2> QED  BY <2>1, WFMin, Zenon
<1>2. ASSUME NEW y \in S PROVE x <= y
  <2>1. x \in Nat /\ y \in Nat
    OBVIOUS
  <2>2. y < x => <<y, x>> \in R
    BY <2>1 DEF OpToRel
  <2>3. ~ (y < x)
    BY <1>1, <2>2
  <2> QED  BY <2>1, <2>3
<1> QED  BY <1>2, Zenon DEF Min

\* Another script beginning, and what it does to the runs that are under way.
LEMMA JobStartKeeps ==
    ASSUME DatabaseInv, NEW p \in Runners, NEW k \in Scripts, NEW keep \in KeepChoices \cup {{}},
           JobStart(p, k, keep)
    PROVE  DatabaseInv'
<1> DEFINE others == {q \in Runners \ {p} : Running(q) /\ Script(q) = k}
           start(port) == [pc |-> IF k = "drill" THEN "cleanup" ELSE "up", script |-> k, port |-> port,
                           keep |-> keep, passed |-> TRUE, counts |-> Counts(EmptyDb), dump |-> EmptyDb,
                           trouble |-> IF others = {} THEN "none" ELSE "overlap"]
           disturbed(q) == [job[q] EXCEPT !.trouble = "overlap"]
<1>1. PICK port \in Ports :
        /\ job' = [q \in Runners |-> IF q = p THEN start(port) ELSE IF q \in others THEN disturbed(q) ELSE job[q]]
        /\ files' = [files EXCEPT ![k].compose = port]
        /\ box' = box
  <2> DEFINE taken == {box[j].port : j \in {j \in {k} : box[j].state # "none"}}
  <2>1. Ports \ taken # {} /\ Ports \ taken \subseteq Nat
    BY DatabaseAssumption DEF JobStart, DatabaseAssumption
  <2>2. Min(Ports \ taken) \in Ports
    <3> HIDE DEF taken
    <3> QED  BY <2>1, MinIsIn
  <2> QED  BY <2>2 DEF JobStart
<1>2. job[p] = NoJob
  BY EmptyTypes DEF JobStart, DatabaseInv, DatabaseTypes, Jobs, Places, Drilling, Seeded, Dumped, Restored
<1>3. job'[p] = start(port) /\ start(port) \in Jobs
  <2>1. Counts(EmptyDb) \in CountSets /\ EmptyDb \in Databases
    BY EmptyTypes, CountsTyped
  <2> QED  BY <1>1, <2>1 DEF Jobs, Places, TroubleKinds
<1>4. ASSUME NEW q \in others
      PROVE  /\ job[q] \in Jobs /\ disturbed(q) \in Jobs /\ job'[q] = disturbed(q)
             /\ disturbed(q).pc = job[q].pc /\ disturbed(q).script = k /\ disturbed(q).trouble = "overlap"
  <2>1. job[q] \in Jobs
    BY <1>4, AtRun
  <2> QED  BY <1>1, <2>1 DEF Jobs, TroubleKinds, Script
<1>5. \A q \in Runners \ ({p} \cup others) : job'[q] = job[q]
  BY <1>1
<1> HIDE DEF start, disturbed
<1>6. files' \in [Scripts -> Files] /\ \A j \in Scripts \ {k} : files'[j] = files[j]
  BY <1>1 DEF DatabaseInv, DatabaseTypes, Files
<1>7. files'[k].compose = port
  BY <1>1 DEF DatabaseInv, DatabaseTypes, Files
<1>8. DatabaseTypes'
  <2>1. \A q \in Runners : job'[q] \in Jobs \cup {NoJob}
    BY <1>3, <1>4, <1>5 DEF DatabaseInv, DatabaseTypes
  <2>2. job' \in [Runners -> Jobs \cup {NoJob}]
    BY <1>1, <2>1
  <2> QED  BY <1>1, <1>6, <2>2 DEF DatabaseInv, DatabaseTypes
<1>9. ASSUME NEW q \in Runners, Running(q)', Script(q)' = k
      PROVE  q = p \/ q \in others
  <2>1. CASE q # p /\ q \notin others
    <3>1. job'[q] = job[q]
      BY <1>5, <2>1
    <3>2. Running(q) /\ Script(q) = k
      BY <1>9, <3>1 DEF Running, Script
    <3> QED  BY <2>1, <3>2
  <2> QED  BY <2>1
<1>10. ASSUME NEW q \in Runners, q # p, Running(q)'
       PROVE  Running(q) /\ Script(q)' = Script(q)
  BY <1>4, <1>5, <1>10 DEF Running, Script
<1>11. Apart'
  <2> SUFFICES ASSUME NEW q \in Runners, NEW r \in Runners, q # r,
                      Running(q)', Running(r)', Script(q)' = Script(r)'
               PROVE  job'[q].trouble = "overlap"
    BY DEF Apart
  <2>1. CASE Script(q)' = k
    <3>1. CASE q = p
      <4>1. others # {}
        BY <1>9, <2>1, <3>1
      <4> QED  BY <1>3, <3>1, <4>1 DEF start
    <3>2. CASE q \in others
      BY <1>4, <3>2
    <3> QED  BY <1>9, <2>1, <3>1, <3>2
  <2>2. CASE Script(q)' # k
    <3>1. Script(p)' = k
      BY <1>3 DEF start, Script
    <3>2. q # p /\ r # p
      BY <2>2, <3>1
    <3>3. job[q].trouble = "overlap"
      BY <1>10, <3>2 DEF DatabaseInv, Apart
    <3> QED  BY <1>4, <1>5, <3>2, <3>3
  <2> QED  BY <2>1, <2>2
<1>12. ASSUME NEW q \in Runners, job'[q] \in Jobs
       PROVE  RunHolds(q, job'[q], box'[Script(q)'], files'[Script(q)'])
  <2>1. CASE q = p
    <3>1. job'[q] = start(port) /\ Script(q)' = k /\ port # NoFile
      BY <1>3, <2>1, DatabaseAssumption DEF start, Script, DatabaseAssumption
    <3> QED  BY <1>7, <3>1 DEF start, RunHolds, Undisturbed, Unfailed, Drilling, Seeded, Dumped, Restored, Scripts
  <2>2. CASE q \in others
    <3>1. /\ job'[q] = disturbed(q) /\ disturbed(q).pc = job[q].pc /\ disturbed(q).trouble = "overlap"
          /\ disturbed(q).script = k /\ job[q] \in Jobs /\ job[q].script = k
      BY <1>4, <2>2 DEF Script
    <3>2. RunHolds(q, job[q], box[Script(q)], files[Script(q)])
      BY <3>1 DEF DatabaseInv
    <3> QED  BY <3>1, <3>2 DEF RunHolds
  <2>3. CASE q # p /\ q \notin others
    <3>1. job'[q] = job[q] /\ job[q] \in Jobs /\ Script(q)' = Script(q) /\ Script(q) \in Scripts
      BY <1>5, <1>12, <2>3 DEF Script, Jobs
    <3>2. RunHolds(q, job[q], box[Script(q)], files[Script(q)])
      BY <3>1 DEF DatabaseInv
    <3>3. CASE Script(q) = k
      <4>1. job[q].pc = "ended"
        <5>1. job[q].pc # "idle"
          BY <3>1 DEF Jobs, Places, Drilling, Seeded, Dumped, Restored
        <5> QED  BY <2>3, <3>3, <5>1 DEF Running
      <4> QED  BY <3>1, <3>2, <4>1 DEF RunHolds
    <3>4. CASE Script(q) # k
      <4>1. files'[Script(q)] = files[Script(q)]
        BY <1>6, <3>1, <3>4
      <4> QED  BY <1>1, <3>1, <3>2, <4>1
    <3> QED  BY <3>3, <3>4
  <2> QED  BY <2>1, <2>2, <2>3
<1> QED  BY <1>8, <1>11, <1>12 DEF DatabaseInv

\* The worst of two troubles.
LEMMA WorseOfTwo ==
    ASSUME NEW t \in TroubleKinds, NEW u \in TroubleKinds
    PROVE  /\ Worse(t, u) \in TroubleKinds
           /\ t = "overlap" => Worse(t, u) = "overlap"
           /\ u = "left" => Worse(t, u) \in {"left", "overlap"}
           /\ t # "none" \/ u # "none" => Worse(t, u) # "none"
           /\ Worse(t, u) \in {t, u}
<1> DEFINE rank(v) == CHOOSE i \in DOMAIN Troubles : Troubles[i] = v
<1>1. Worse(t, u) = IF rank(t) < rank(u) THEN u ELSE t
  BY DEF Worse
<1>2. DOMAIN Troubles = 1..5
  BY DEF Troubles
<1>3. /\ Troubles[1] = "none" /\ Troubles[2] = "command" /\ Troubles[3] = "early"
      /\ Troubles[4] = "left" /\ Troubles[5] = "overlap"
  BY DEF Troubles
<1>4. rank("none") = 1 /\ rank("command") = 2 /\ rank("early") = 3 /\ rank("left") = 4 /\ rank("overlap") = 5
  BY <1>2, <1>3
<1> HIDE DEF rank
<1> QED  BY <1>1, <1>4 DEF TroubleKinds

\* The server coming up changes the state of its container alone.
LEMMA ServerReadyKeeps == ASSUME DatabaseInv, NEW k \in Scripts, ServerReady(k) PROVE DatabaseInv'
<1>1. box' \in [Scripts -> Boxes] /\ box[k] \in Boxes /\ box'[k] = [box[k] EXCEPT !.state = "ready"]
      /\ \A j \in Scripts \ {k} : box'[j] = box[j]
  BY DEF ServerReady, DatabaseInv, DatabaseTypes, Boxes
<1>2. job' = job /\ files' = files /\ box[k].state = "init"
  BY DEF ServerReady
<1>3. DatabaseTypes' /\ Apart'
  BY <1>1, <1>2 DEF DatabaseInv, DatabaseTypes, Apart, Running, Script
<1>4. ASSUME NEW q \in Runners, job[q] \in Jobs
      PROVE  RunHolds(q, job[q], box'[Script(q)], files[Script(q)])
  <2>1. RunHolds(q, job[q], box[Script(q)], files[Script(q)]) /\ Script(q) \in Scripts
    BY <1>4 DEF DatabaseInv, Jobs, Script
  <2>2. CASE Script(q) # k
    BY <1>1, <2>1, <2>2
  <2>3. CASE Script(q) = k
    <3> DEFINE b == box[k]
               c == box'[k]
    <3>1. /\ c.state = "ready" /\ c.port = b.port /\ c.source = b.source /\ c.restore = b.restore
          /\ b # Down /\ b.state = "init"
      BY <1>1, <1>2 DEF Boxes, Down
    <3> HIDE DEF b, c
    <3>2. RunHolds(q, job[q], b, files[Script(q)])
      BY <2>1, <2>3 DEF b
    <3>3. RunHolds(q, job[q], c, files[Script(q)])
      BY <3>1, <3>2 DEF RunHolds, Undisturbed, Unfailed
    <3> QED  BY <2>3, <3>3 DEF c
  <2> QED  BY <2>2, <2>3
<1> QED  BY <1>2, <1>3, <1>4 DEF DatabaseInv, Script

\* A run whose exit code is read is over.
LEMMA JobReadKeeps == ASSUME DatabaseInv, NEW p \in Runners, JobRead(p) PROVE DatabaseInv'
<1>1. /\ job' = [job EXCEPT ![p] = NoJob] /\ box' = box /\ files' = files
      /\ \A q \in Runners : job'[q] = IF q = p THEN NoJob ELSE job[q]
  BY DEF JobRead, DatabaseInv, DatabaseTypes
<1>2. DatabaseTypes'
  BY <1>1 DEF DatabaseInv, DatabaseTypes
<1>3. Apart'
  BY <1>1 DEF DatabaseInv, Apart, Running, Script, NoJob
<1>4. \A q \in Runners : job'[q] \in Jobs => q # p /\ job'[q] = job[q]
  BY <1>1, EmptyTypes
<1> QED  BY <1>1, <1>2, <1>3, <1>4 DEF DatabaseInv, Script

\* A step of p that leaves these fields behind.
JobIs(p, pc, passed, counts, dump, trouble) ==
    /\ job' = [job EXCEPT ![p] = job'[p]]
    /\ job'[p] = [pc |-> pc, script |-> Script(p), port |-> job[p].port, keep |-> job[p].keep,
                  passed |-> passed, counts |-> counts, dump |-> dump, trouble |-> trouble]
MovesTo(p, pc, passed) == JobIs(p, pc, passed, job[p].counts, job[p].dump, job[p].trouble)

LEMMA GotoIs == ASSUME DatabaseInv, NEW p \in Runners, Running(p), NEW place, Goto(p, place)
                PROVE  MovesTo(p, place, job[p].passed)
<1>1. job[p] \in Jobs /\ job \in [Runners -> Jobs \cup {NoJob}]
  BY AtRun DEF DatabaseInv, DatabaseTypes
<1>2. job'[p] = [job[p] EXCEPT !.pc = place] /\ job' = [job EXCEPT ![p] = job'[p]]
  BY <1>1 DEF Goto
<1> QED  BY <1>1, <1>2 DEF MovesTo, JobIs, Jobs, Script

LEMMA AbortIs == ASSUME DatabaseInv, NEW p \in Runners, Running(p), Abort(p)
                 PROVE  MovesTo(p, "down", FALSE)
<1>1. job[p] \in Jobs /\ job \in [Runners -> Jobs \cup {NoJob}]
  BY AtRun DEF DatabaseInv, DatabaseTypes
<1>2. job'[p] = [job[p] EXCEPT !.pc = "down", !.passed = FALSE] /\ job' = [job EXCEPT ![p] = job'[p]]
  BY <1>1 DEF Abort
<1> QED  BY <1>1, <1>2 DEF MovesTo, JobIs, Jobs, Script

\* The parts of a step that say what a run does not change.
LEMMA BoxStays == ASSUME DatabaseInv, NEW p \in Runners, Running(p), UNCHANGED box
                  PROVE  box' = [box EXCEPT ![Script(p)] = box'[Script(p)]] /\ box'[Script(p)] = Box(p)
BY AtRun DEF DatabaseInv, DatabaseTypes, Box

LEMMA FilesStay == ASSUME DatabaseInv, NEW p \in Runners, Running(p), UNCHANGED files
                   PROVE  /\ files' = [files EXCEPT ![Script(p)] = files'[Script(p)]]
                          /\ files'[Script(p)] = files[Script(p)]
BY AtRun DEF DatabaseInv, DatabaseTypes

LEMMA BoxIs == ASSUME DatabaseInv, NEW p \in Runners, Running(p), NEW b, SetBox(p, b)
               PROVE  box' = [box EXCEPT ![Script(p)] = box'[Script(p)]] /\ box'[Script(p)] = b
BY AtRun DEF DatabaseInv, DatabaseTypes, SetBox

\* A run that aborts has had trouble.
LEMMA AbortSteps == ASSUME DatabaseInv, NEW p \in Runners, Running(p), Abort(p), UNCHANGED <<box, files>>,
                           job[p].trouble # "none"
                    PROVE  StepOf(p)
<1>1. MovesTo(p, "down", FALSE)
  BY AbortIs
<1>2. /\ job[p] \in Jobs /\ Script(p) \in Scripts /\ Box(p) \in Boxes /\ files[Script(p)] \in Files
      /\ RunHolds(p, job[p], Box(p), files[Script(p)])
  BY AtRun
<1> QED  BY <1>1, <1>2, BoxStays, FilesStay DEF StepOf, MovesTo, JobIs, Jobs, RunHolds, Undisturbed, Unfailed, Places, Drilling, Seeded, Dumped, Restored, Script, Running

\* docker compose down, in the finally block or before the drill.
LEMMA CleanupSteps == ASSUME DatabaseInv, NEW p \in Runners, Running(p), Cleanup(p) PROVE StepOf(p)
<1>1. /\ job[p] \in Jobs /\ Script(p) \in Scripts /\ Box(p) \in Boxes /\ files[Script(p)] \in Files
      /\ RunHolds(p, job[p], Box(p), files[Script(p)]) /\ job[p].pc = "cleanup"
  BY AtRun DEF Cleanup, At
<1>2. MovesTo(p, "up", job[p].passed) /\ UNCHANGED files
  BY GotoIs DEF Cleanup, ComposeDown
<1>3. /\ box' = [box EXCEPT ![Script(p)] = box'[Script(p)]]
      /\ box'[Script(p)] = IF ComposeWorks(p) THEN Down ELSE Box(p)
  BY BoxIs, BoxStays DEF Cleanup, ComposeDown
<1>4. job[p].trouble # "overlap" => ComposeWorks(p)
  BY <1>1, DatabaseAssumption DEF RunHolds, Undisturbed, ComposeWorks, DatabaseAssumption, Jobs
<1> QED  BY <1>1, <1>2, <1>3, <1>4, EmptyTypes, FilesStay
         DEF StepOf, MovesTo, JobIs, Jobs, RunHolds, Undisturbed, Unfailed, Places, Drilling, Seeded, Dumped,
             Restored, Script, Down

LEMMA TakeDownSteps == ASSUME DatabaseInv, NEW p \in Runners, Running(p), TakeDown(p) PROVE StepOf(p)
<1>1. /\ job[p] \in Jobs /\ Script(p) \in Scripts /\ Box(p) \in Boxes /\ files[Script(p)] \in Files
      /\ RunHolds(p, job[p], Box(p), files[Script(p)]) /\ job[p].pc = "down"
  BY AtRun DEF TakeDown, At
<1>2. MovesTo(p, "unlink", job[p].passed) /\ UNCHANGED files
  BY GotoIs DEF TakeDown, ComposeDown
<1>3. /\ box' = [box EXCEPT ![Script(p)] = box'[Script(p)]]
      /\ box'[Script(p)] = IF ComposeWorks(p) /\ "database" \notin job[p].keep THEN Down ELSE Box(p)
  BY BoxIs, BoxStays DEF TakeDown, ComposeDown
<1>4. job[p].trouble # "overlap" => ComposeWorks(p)
  BY <1>1, DatabaseAssumption DEF RunHolds, Undisturbed, ComposeWorks, DatabaseAssumption, Jobs
<1> QED  BY <1>1, <1>2, <1>3, <1>4, EmptyTypes, FilesStay
         DEF StepOf, MovesTo, JobIs, Jobs, RunHolds, Undisturbed, Unfailed, Places, Drilling, Seeded, Dumped,
             Restored, Script

\* A container that is made anew is typed, and on an empty volume it is a fresh one.
LEMMA MadeAnewTypes ==
    ASSUME NEW old \in Boxes, NEW f \in Files, f.compose # NoFile, NEW b \in MadeAnew(old, f.compose)
    PROVE  /\ b \in Boxes /\ b.state # "none" /\ b.port = f.compose
           /\ old = Down => b.source = EmptyDb
<1>1. f.compose \in Ports
  BY DEF Files
<1>2. PICK state \in {"init", "ready"}, db \in {old.source, NoFile} :
         /\ b = [old EXCEPT !.state = state, !.port = f.compose, !.source = db]
         /\ old.state = "none" => db = old.source
  BY DEF MadeAnew, Boxes
<1>3. b = [state |-> state, port |-> f.compose, source |-> db, restore |-> old.restore]
  BY <1>2 DEF Boxes
<1>4. old = Down => db = EmptyDb
  BY <1>2 DEF Down
<1> QED  BY <1>1, <1>2, <1>3, <1>4 DEF Boxes

LEMMA UpSteps == ASSUME DatabaseInv, NEW p \in Runners, Running(p), Up(p) PROVE StepOf(p)
<1>1. /\ job[p] \in Jobs /\ Script(p) \in Scripts /\ Box(p) \in Boxes /\ files[Script(p)] \in Files
      /\ RunHolds(p, job[p], Box(p), files[Script(p)]) /\ job[p].pc = "up"
  BY AtRun DEF Up, At
<1>2. CASE ~ComposeWorks(p)
  <2>1. job[p].trouble # "none"
    BY <1>1, <1>2, DatabaseAssumption DEF RunHolds, Undisturbed, ComposeWorks, DatabaseAssumption, Jobs
  <2> QED  BY <1>2, <2>1, AbortSteps DEF Up
<1>3. CASE ComposeWorks(p)
  <2>2. MovesTo(p, "wait", job[p].passed) /\ UNCHANGED files
    BY <1>3, GotoIs DEF Up
  <2>3. PICK b \in MadeAnew(Box(p), files[Script(p)].compose) : SetBox(p, b)
    BY <1>3 DEF Up
  <2>1. /\ b \in Boxes /\ b.state # "none" /\ b.port = files[Script(p)].compose
        /\ Box(p) = Down => b.source = EmptyDb
    BY <1>1, <1>3, <2>3, MadeAnewTypes DEF ComposeWorks
  <2>4. box' = [box EXCEPT ![Script(p)] = box'[Script(p)]] /\ box'[Script(p)] = b
    BY <2>3, BoxIs
  <2> QED  BY <1>1, <2>1, <2>2, <2>4, FilesStay
           DEF StepOf, MovesTo, JobIs, Jobs, RunHolds, Undisturbed, Unfailed, Places, Drilling, Seeded, Dumped,
               Restored, Script
<1> QED  BY <1>2, <1>3

LEMMA WaitSteps == ASSUME DatabaseInv, NEW p \in Runners, Running(p), WaitForPostgres(p) PROVE StepOf(p)
<1>1. /\ job[p] \in Jobs /\ Script(p) \in Scripts /\ Box(p) \in Boxes /\ files[Script(p)] \in Files
      /\ RunHolds(p, job[p], Box(p), files[Script(p)]) /\ job[p].pc = "wait"
  BY AtRun DEF WaitForPostgres, At
<1>2. CASE Script(p) = "drill"
  <2>1. MovesTo(p, "migrate", job[p].passed) /\ UNCHANGED <<box, files>> /\ Box(p).state = "ready"
    BY <1>2, GotoIs DEF WaitForPostgres
  <2> QED  BY <1>1, <1>2, <2>1, BoxStays, FilesStay
           DEF StepOf, MovesTo, JobIs, Jobs, RunHolds, Undisturbed, Unfailed, Places, Drilling, Seeded, Dumped,
               Restored, Script
<1>3. CASE Script(p) # "drill"
  <2>1. MovesTo(p, "test", job[p].passed) /\ UNCHANGED <<box, files>> /\ Script(p) = "integration"
    BY <1>1, <1>3, GotoIs DEF WaitForPostgres, Scripts
  <2> QED  BY <1>1, <1>3, <2>1, BoxStays, FilesStay
           DEF StepOf, MovesTo, JobIs, Jobs, RunHolds, Undisturbed, Unfailed, Places, Drilling, Seeded, Dumped,
               Restored, Script
<1> QED  BY <1>2, <1>3

LEMMA MigrateUpSteps == ASSUME DatabaseInv, NEW p \in Runners, Running(p), MigrateUp(p) PROVE StepOf(p)
<1>1. /\ job[p] \in Jobs /\ Script(p) \in Scripts /\ Box(p) \in Boxes /\ files[Script(p)] \in Files
      /\ RunHolds(p, job[p], Box(p), files[Script(p)]) /\ job[p].pc = "migrate"
  BY AtRun DEF MigrateUp, At
<1>2. CASE ~(Dials(p) /\ Box(p).source # NoFile)
  <2>0. job[p].trouble = "none" => Box(p).source = EmptyDb
    BY <1>1 DEF RunHolds, Unfailed, Drilling
  <2>1. job[p].trouble # "none"
    BY <1>1, <1>2, <2>0, EmptyTypes DEF RunHolds, Undisturbed, Dials, Drilling
  <2> QED  BY <1>2, <2>1, AbortSteps DEF MigrateUp
<1>3. CASE Dials(p) /\ Box(p).source # NoFile
  <2> DEFINE b == [Box(p) EXCEPT !.source.schema = TRUE]
  <2>1. /\ b \in Boxes /\ b.state = "ready" /\ b.port = job[p].port
        /\ b.source = [schema |-> TRUE, rows |-> Box(p).source.rows]
    BY <1>1, <1>3 DEF Boxes, Databases, Dials
  <2>2. MovesTo(p, "seed", job[p].passed) /\ UNCHANGED files
    BY <1>3, GotoIs DEF MigrateUp
  <2>3. SetBox(p, b)
    BY <1>3 DEF MigrateUp
  <2> HIDE DEF b
  <2>4. box' = [box EXCEPT ![Script(p)] = box'[Script(p)]] /\ box'[Script(p)] = b
    BY <2>3, BoxIs
  <2>5. job[p].trouble = "none" => Box(p).source = EmptyDb
    BY <1>1 DEF RunHolds, Unfailed, Drilling
  <2>6. job[p].trouble = "none" => Box(p).source.rows = Nobody
    BY <2>5 DEF EmptyDb
  <2>7. job[p].trouble = "none" => b.source = [schema |-> TRUE, rows |-> Nobody]
    BY <2>1, <2>6
  <2> QED  BY <1>1, <2>1, <2>2, <2>4, <2>7, FilesStay
           DEF StepOf, MovesTo, JobIs, Jobs, RunHolds, Undisturbed, Unfailed, Places, Drilling, Seeded, Dumped,
               Restored, Script
<1> QED  BY <1>2, <1>3

LEMMA RowsSet == \A db \in Databases, r \in Runners : [db EXCEPT !.rows = r] = [schema |-> db.schema, rows |-> r]
BY DEF Databases

LEMMA RowsInserted == ASSUME NEW db \in Databases, NEW r \in Runners, db = [schema |-> TRUE, rows |-> Nobody]
                      PROVE  [db EXCEPT !.rows = r] = [schema |-> TRUE, rows |-> r]
<1>1. db.schema = TRUE
  OBVIOUS
<1>2. [db EXCEPT !.rows = r] = [schema |-> db.schema, rows |-> r]
  BY RowsSet, Zenon
<1> QED  BY <1>1, <1>2, Zenon

LEMMA SeedSteps == ASSUME DatabaseInv, NEW p \in Runners, Running(p), SeedSample(p) PROVE StepOf(p)
<1>1. /\ job[p] \in Jobs /\ Script(p) \in Scripts /\ Box(p) \in Boxes /\ files[Script(p)] \in Files
      /\ RunHolds(p, job[p], Box(p), files[Script(p)]) /\ job[p].pc = "seed"
  BY AtRun DEF SeedSample, At
<1> DEFINE Empty == Queries(p) /\ Box(p).source = [schema |-> TRUE, rows |-> Nobody]
<1>2. CASE ~Empty
  <2>0. [schema |-> TRUE, rows |-> Nobody] # NoFile
    <3>1. [schema |-> TRUE, rows |-> Nobody] \in Databases
      BY DEF Databases
    <3> QED  BY <3>1, DatabaseAssumption DEF Databases, DatabaseAssumption
  <2>1. job[p].trouble # "none"
    BY <1>1, <1>2, <2>0, DatabaseAssumption
    DEF RunHolds, Undisturbed, Unfailed, Drilling, Queries, Answers, ComposeWorks, DatabaseAssumption, Jobs
  <2> QED  BY <1>2, <2>1, AbortSteps DEF SeedSample
<1>3. CASE Empty
  <2> DEFINE b == [Box(p) EXCEPT !.source.rows = p]
  <2>1. /\ b \in Boxes /\ b.state = "ready" /\ b.port = Box(p).port /\ b.source = Loaded(p)
    <3>1. Box(p).state = "ready" /\ Box(p).source = [schema |-> TRUE, rows |-> Nobody]
      BY <1>3 DEF Queries, Answers
    <3>2. Loaded(p) \in Databases
      BY DEF Databases, Loaded
    <3>3. [Box(p).source EXCEPT !.rows = p] = [schema |-> TRUE, rows |-> p]
      <4>1. Box(p).source \in Databases
        BY <1>1, <1>3 DEF Boxes, Queries
      <4> QED  BY <3>1, <4>1, RowsInserted, Zenon
    <3>4. b = [Box(p) EXCEPT !.source = Loaded(p)]
      BY <3>3 DEF Loaded
    <3> QED  BY <1>1, <3>1, <3>2, <3>4 DEF Boxes
  <2>2. MovesTo(p, "count", job[p].passed) /\ UNCHANGED files
    BY <1>3, GotoIs DEF SeedSample
  <2>3. SetBox(p, b)
    BY <1>3 DEF SeedSample
  <2> HIDE DEF b
  <2>4. box' = [box EXCEPT ![Script(p)] = box'[Script(p)]] /\ box'[Script(p)] = b
    BY <2>3, BoxIs
  <2> QED  BY <1>1, <2>1, <2>2, <2>4, FilesStay
           DEF StepOf, MovesTo, JobIs, Jobs, RunHolds, Undisturbed, Unfailed, Places, Drilling, Seeded, Dumped,
               Restored, Script
<1> QED  BY <1>2, <1>3

LEMMA LoadedIs ==
    ASSUME NEW p \in Runners
    PROVE  Loaded(p) # NoFile /\ Loaded(p).schema /\ Loaded(p).rows = p /\ p # Nobody
<1>1. Loaded(p) \in [schema : BOOLEAN, rows : Runners \cup {Nobody}] /\ Loaded(p).schema
  BY DEF Loaded
<1>2. Loaded(p).rows = p
  BY DEF Loaded
<1> QED  BY <1>1, <1>2, DatabaseAssumption DEF DatabaseAssumption

LEMMA CountSteps == ASSUME DatabaseInv, NEW p \in Runners, Running(p), CountSource(p) PROVE StepOf(p)
<1>1. /\ job[p] \in Jobs /\ Script(p) \in Scripts /\ Box(p) \in Boxes /\ files[Script(p)] \in Files
      /\ RunHolds(p, job[p], Box(p), files[Script(p)]) /\ job[p].pc = "count"
  BY AtRun DEF CountSource, At
<1> DEFINE Counted == Queries(p) /\ Box(p).source.schema
<1>2. CASE ~Counted
  <2>1. job[p].trouble = "none" => Queries(p) /\ Box(p).source = Loaded(p)
    BY <1>1, LoadedIs, DatabaseAssumption
    DEF RunHolds, Undisturbed, Drilling, Seeded, Queries, Answers, ComposeWorks, DatabaseAssumption, Jobs
  <2>2. job[p].trouble # "none"
    BY <1>2, <2>1 DEF Loaded
  <2> QED  BY <1>2, <2>2, AbortSteps DEF CountSource
<1>3. CASE Counted
  <2> DEFINE counts == Counts(Box(p).source)
  <2>1. counts \in CountSets
    BY <1>1, <1>3, CountsTyped DEF Boxes, Queries
  <2>2. job' = [job EXCEPT ![p].pc = "dump", ![p].counts = counts] /\ UNCHANGED <<box, files>>
    BY <1>3 DEF CountSource
  <2>3. job[p].trouble # "overlap" => counts = Counts(Loaded(p))
    BY <1>1 DEF RunHolds, Undisturbed, Drilling, Seeded
  <2> HIDE DEF counts
  <2>4. JobIs(p, "dump", job[p].passed, counts, job[p].dump, job[p].trouble)
    BY <1>1, <2>2 DEF JobIs, DatabaseInv, DatabaseTypes, Jobs, Script
  <2>5. RunHolds(p, job'[p], Box(p), files[Script(p)])
    <3>1. job'[p].pc = "dump" /\ job'[p].script = job[p].script /\ job'[p].port = job[p].port
          /\ job'[p].passed = job[p].passed /\ job'[p].counts = counts /\ job'[p].trouble = job[p].trouble
      BY <2>4 DEF JobIs, Script
    <3> QED  BY <1>1, <2>3, <3>1 DEF RunHolds, Undisturbed, Unfailed, Drilling, Seeded, Dumped, Restored
  <2>6. job'[p] \in Jobs /\ job'[p].script = Script(p) /\ job'[p].trouble = job[p].trouble
    BY <1>1, <2>1, <2>4 DEF JobIs, Jobs, Places, Drilling, Seeded
  <2>7. job' = [job EXCEPT ![p] = job'[p]]
    BY <2>4 DEF JobIs
  <2> QED  BY <1>1, <2>2, <2>5, <2>6, <2>7, BoxStays, FilesStay DEF StepOf
<1> QED  BY <1>2, <1>3

LEMMA DumpSteps == ASSUME DatabaseInv, NEW p \in Runners, Running(p), DumpDatabase(p) PROVE StepOf(p)
<1>1. /\ job[p] \in Jobs /\ Script(p) \in Scripts /\ Box(p) \in Boxes /\ files[Script(p)] \in Files
      /\ RunHolds(p, job[p], Box(p), files[Script(p)]) /\ job[p].pc = "dump"
  BY AtRun DEF DumpDatabase, At
<1>2. CASE ~Queries(p)
  <2>1. job[p].trouble # "none"
    BY <1>1, <1>2, LoadedIs, DatabaseAssumption
    DEF RunHolds, Undisturbed, Drilling, Seeded, Queries, Answers, ComposeWorks, DatabaseAssumption, Jobs
  <2> QED  BY <1>2, <2>1, AbortSteps DEF DumpDatabase
<1>3. CASE Queries(p)
  <2>1. Box(p).source \in Databases /\ Script(p) = "drill"
    BY <1>1, <1>3 DEF Queries, Boxes, RunHolds, Drilling, Seeded, Script
  <2>2. JobIs(p, "recreate", job[p].passed, job[p].counts, Box(p).source, job[p].trouble) /\ UNCHANGED box
    BY <1>1, <1>3 DEF DumpDatabase, JobIs, DatabaseInv, DatabaseTypes, Jobs, Script
  <2>3. files' = [files EXCEPT ![Script(p)].dump = p]
    BY <1>3, <2>1 DEF DumpDatabase
  <2>4. /\ files' = [files EXCEPT ![Script(p)] = files'[Script(p)]]
        /\ files'[Script(p)] \in Files
        /\ files'[Script(p)].compose = files[Script(p)].compose
    BY <1>1, <2>3 DEF DatabaseInv, DatabaseTypes, Files
  <2>5. job[p].trouble # "overlap" => Box(p).source = Loaded(p)
    BY <1>1 DEF RunHolds, Undisturbed, Drilling, Seeded
  <2> QED  BY <1>1, <2>1, <2>2, <2>4, <2>5, BoxStays
           DEF StepOf, MovesTo, JobIs, Jobs, RunHolds, Undisturbed, Unfailed, Places, Drilling, Seeded, Dumped,
               Restored, Script
<1> QED  BY <1>2, <1>3

LEMMA RecreateSteps == ASSUME DatabaseInv, NEW p \in Runners, Running(p), RecreateDatabase(p) PROVE StepOf(p)
<1>1. /\ job[p] \in Jobs /\ Script(p) \in Scripts /\ Box(p) \in Boxes /\ files[Script(p)] \in Files
      /\ RunHolds(p, job[p], Box(p), files[Script(p)]) /\ job[p].pc = "recreate"
  BY AtRun DEF RecreateDatabase, At
<1>2. CASE ~Answers(p)
  <2>1. job[p].trouble # "none"
    BY <1>1, <1>2, DatabaseAssumption
    DEF RunHolds, Undisturbed, Drilling, Seeded, Dumped, Restored, Answers, ComposeWorks, DatabaseAssumption, Jobs
  <2> QED  BY <1>2, <2>1, AbortSteps DEF RecreateDatabase
<1>3. CASE Answers(p)
  <2> DEFINE b == [Box(p) EXCEPT !.restore = EmptyDb]
  <2>1. /\ b \in Boxes /\ b.state = Box(p).state /\ b.port = Box(p).port /\ b.source = Box(p).source
        /\ b.restore # NoFile
    BY <1>1, EmptyTypes, DatabaseAssumption DEF Boxes, Databases, DatabaseAssumption
  <2>2. MovesTo(p, "restore", job[p].passed) /\ UNCHANGED files
    BY <1>3, GotoIs DEF RecreateDatabase
  <2>3. SetBox(p, b)
    BY <1>3 DEF RecreateDatabase
  <2> HIDE DEF b
  <2>4. box' = [box EXCEPT ![Script(p)] = box'[Script(p)]] /\ box'[Script(p)] = b
    BY <2>3, BoxIs
  <2> QED  BY <1>1, <2>1, <2>2, <2>4, FilesStay
           DEF StepOf, MovesTo, JobIs, Jobs, RunHolds, Undisturbed, Unfailed, Places, Drilling, Seeded, Dumped,
               Restored, Script
<1> QED  BY <1>2, <1>3

LEMMA RestoreSteps == ASSUME DatabaseInv, NEW p \in Runners, Running(p), RestoreDatabase(p) PROVE StepOf(p)
<1>1. /\ job[p] \in Jobs /\ Script(p) \in Scripts /\ Box(p) \in Boxes /\ files[Script(p)] \in Files
      /\ RunHolds(p, job[p], Box(p), files[Script(p)]) /\ job[p].pc = "restore"
  BY AtRun DEF RestoreDatabase, At
<1>2. CASE ~(Answers(p) /\ Box(p).restore # NoFile)
  <2>1. job[p].trouble # "none"
    BY <1>1, <1>2, DatabaseAssumption
    DEF RunHolds, Undisturbed, Drilling, Seeded, Dumped, Restored, Answers, ComposeWorks, DatabaseAssumption, Jobs
  <2> QED  BY <1>2, <2>1, AbortSteps DEF RestoreDatabase
<1>3. CASE (Answers(p) /\ Box(p).restore # NoFile)
  <2> DEFINE b == [Box(p) EXCEPT !.restore = job[p].dump]
  <2>1. /\ b \in Boxes /\ b.state = Box(p).state /\ b.port = Box(p).port /\ b.source = Box(p).source
        /\ b.restore = job[p].dump
    BY <1>1 DEF Boxes, Jobs
  <2>2. MovesTo(p, "check", job[p].passed) /\ UNCHANGED files
    BY <1>3, GotoIs DEF RestoreDatabase
  <2>3. SetBox(p, b)
    BY <1>3 DEF RestoreDatabase
  <2> HIDE DEF b
  <2>4. box' = [box EXCEPT ![Script(p)] = box'[Script(p)]] /\ box'[Script(p)] = b
    BY <2>3, BoxIs
  <2> QED  BY <1>1, <2>1, <2>2, <2>4, FilesStay
           DEF StepOf, MovesTo, JobIs, Jobs, RunHolds, Undisturbed, Unfailed, Places, Drilling, Seeded, Dumped,
               Restored, Script
<1> QED  BY <1>2, <1>3

LEMMA CheckSteps == ASSUME DatabaseInv, NEW p \in Runners, Running(p), MigrateCheck(p) PROVE StepOf(p)
<1>1. /\ job[p] \in Jobs /\ Script(p) \in Scripts /\ Box(p) \in Boxes /\ files[Script(p)] \in Files
      /\ RunHolds(p, job[p], Box(p), files[Script(p)]) /\ job[p].pc = "check"
  BY AtRun DEF MigrateCheck, At
<1> DEFINE Fits == Dials(p) /\ Box(p).restore # NoFile /\ Box(p).restore.schema
<1>2. CASE ~Fits
  <2>1. job[p].trouble # "overlap" => Answers(p) /\ Dials(p) /\ Box(p).restore = Loaded(p) /\ job[p].counts = Counts(Loaded(p))
    BY <1>1, DatabaseAssumption
    DEF RunHolds, Undisturbed, Drilling, Seeded, Dumped, Restored, Answers, Dials, ComposeWorks,
        DatabaseAssumption, Jobs
  <2>2. job[p].trouble # "none"
    BY <1>2, <2>1, LoadedIs
  <2> QED  BY <1>2, <2>2, AbortSteps DEF MigrateCheck
<1>3. CASE Fits
  <2>1. MovesTo(p, "compare", job[p].passed) /\ UNCHANGED <<box, files>>
    BY <1>3, GotoIs DEF MigrateCheck
  <2> QED  BY <1>1, <2>1, BoxStays, FilesStay
           DEF StepOf, MovesTo, JobIs, Jobs, RunHolds, Undisturbed, Unfailed, Places, Drilling, Seeded, Dumped,
               Restored, Script
<1> QED  BY <1>2, <1>3

LEMMA CompareSteps == ASSUME DatabaseInv, NEW p \in Runners, Running(p), CompareCounts(p) PROVE StepOf(p)
<1>1. /\ job[p] \in Jobs /\ Script(p) \in Scripts /\ Box(p) \in Boxes /\ files[Script(p)] \in Files
      /\ RunHolds(p, job[p], Box(p), files[Script(p)]) /\ job[p].pc = "compare"
  BY AtRun DEF CompareCounts, At
<1> DEFINE Fits == Answers(p) /\ Box(p).restore # NoFile /\ Box(p).restore.schema /\ Counts(Box(p).restore) = job[p].counts
<1>2. CASE ~Fits
  <2>1. job[p].trouble # "overlap" => Answers(p) /\ Dials(p) /\ Box(p).restore = Loaded(p) /\ job[p].counts = Counts(Loaded(p))
    BY <1>1, DatabaseAssumption
    DEF RunHolds, Undisturbed, Drilling, Seeded, Dumped, Restored, Answers, Dials, ComposeWorks,
        DatabaseAssumption, Jobs
  <2>2. job[p].trouble # "none"
    BY <1>2, <2>1, LoadedIs
  <2> QED  BY <1>2, <2>2, AbortSteps DEF CompareCounts
<1>3. CASE Fits
  <2>1. MovesTo(p, "verify", job[p].passed) /\ UNCHANGED <<box, files>>
    BY <1>3, GotoIs DEF CompareCounts
  <2> QED  BY <1>1, <2>1, BoxStays, FilesStay
           DEF StepOf, MovesTo, JobIs, Jobs, RunHolds, Undisturbed, Unfailed, Places, Drilling, Seeded, Dumped,
               Restored, Script
<1> QED  BY <1>2, <1>3

LEMMA VerifySteps == ASSUME DatabaseInv, NEW p \in Runners, Running(p), VerifySample(p) PROVE StepOf(p)
<1>1. /\ job[p] \in Jobs /\ Script(p) \in Scripts /\ Box(p) \in Boxes /\ files[Script(p)] \in Files
      /\ RunHolds(p, job[p], Box(p), files[Script(p)]) /\ job[p].pc = "verify"
  BY AtRun DEF VerifySample, At
<1> DEFINE Fits == Answers(p) /\ Box(p).restore # NoFile /\ Box(p).restore.rows # Nobody
<1>2. CASE ~Fits
  <2>1. job[p].trouble # "overlap" => Answers(p) /\ Dials(p) /\ Box(p).restore = Loaded(p) /\ job[p].counts = Counts(Loaded(p))
    BY <1>1, DatabaseAssumption
    DEF RunHolds, Undisturbed, Drilling, Seeded, Dumped, Restored, Answers, Dials, ComposeWorks,
        DatabaseAssumption, Jobs
  <2>2. job[p].trouble # "none"
    BY <1>2, <2>1, LoadedIs
  <2> QED  BY <1>2, <2>2, AbortSteps DEF VerifySample
<1>3. CASE Fits
  <2>1. MovesTo(p, "down", job[p].passed) /\ UNCHANGED <<box, files>>
    BY <1>3, GotoIs DEF VerifySample
  <2> QED  BY <1>1, <2>1, BoxStays, FilesStay
           DEF StepOf, MovesTo, JobIs, Jobs, RunHolds, Undisturbed, Unfailed, Places, Drilling, Seeded, Dumped,
               Restored, Script
<1> QED  BY <1>2, <1>3

LEMMA TestSteps == ASSUME DatabaseInv, NEW p \in Runners, Running(p), IntegrationTests(p) PROVE StepOf(p)
<1>1. /\ job[p] \in Jobs /\ Script(p) \in Scripts /\ Box(p) \in Boxes /\ files[Script(p)] \in Files
      /\ RunHolds(p, job[p], Box(p), files[Script(p)]) /\ job[p].pc = "test"
  BY AtRun DEF IntegrationTests, At
<1> DEFINE fit == Dials(p) /\ Box(p).source = EmptyDb
<1>2. CASE /\ ~(fit /\ job[p].trouble # "overlap")
           /\ job' = [job EXCEPT ![p].pc = "down", ![p].passed = FALSE,
                                 ![p].trouble = Worse(@, IF Box(p).state = "init" THEN "early" ELSE "none")]
           /\ UNCHANGED <<box, files>>
  <2> DEFINE u == IF Box(p).state = "init" THEN "early" ELSE "none"
  <2>1. job' = [job EXCEPT ![p].pc = "down", ![p].passed = FALSE, ![p].trouble = Worse(@, u)]
        /\ UNCHANGED <<box, files>>
    BY <1>2
  <2>2. u \in TroubleKinds /\ job[p].trouble \in TroubleKinds
    BY <1>1 DEF TroubleKinds, Jobs
  <2>3. /\ Worse(job[p].trouble, u) \in TroubleKinds
        /\ job[p].trouble = "overlap" => Worse(job[p].trouble, u) = "overlap"
        /\ job[p].trouble # "none" \/ u # "none" => Worse(job[p].trouble, u) # "none"
        /\ Worse(job[p].trouble, u) \in {job[p].trouble, u}
    BY <2>2, WorseOfTwo
  <2>4. job[p].trouble # "overlap" => Box(p).state = "init" \/ Box(p).source # EmptyDb
    BY <1>1, <1>2 DEF RunHolds, Undisturbed, Dials, Boxes
  <2>5. Worse(job[p].trouble, u) = "overlap" => job[p].trouble = "overlap"
    BY <2>3
  <2>6. job[p].trouble = "none" => u = "early" \/ Box(p).source # EmptyDb
    BY <2>4
  <2> HIDE DEF u
  <2>7. JobIs(p, "down", FALSE, job[p].counts, job[p].dump, Worse(job[p].trouble, u))
    BY <1>1, <2>1 DEF JobIs, DatabaseInv, DatabaseTypes, Jobs, Script
  <2>8. RunHolds(p, job'[p], Box(p), files[Script(p)])
    <3>1. job'[p].pc = "down" /\ job'[p].script = job[p].script /\ job'[p].port = job[p].port
          /\ job'[p].passed = FALSE /\ job'[p].trouble = Worse(job[p].trouble, u)
      BY <2>7 DEF JobIs, Script
    <3>2. job[p].trouble # "overlap" => files[Script(p)].compose = job[p].port
      BY <1>1 DEF RunHolds, Undisturbed
    <3>3. job'[p].trouble = "none" => Box(p).source # EmptyDb
      BY <2>3, <2>6, <3>1
    <3>4. job[p].script = "integration"
      BY <1>1 DEF RunHolds
    <3> QED  BY <2>3, <3>1, <3>2, <3>3, <3>4 DEF RunHolds, Undisturbed, Unfailed, Drilling, Seeded, Dumped, Restored
  <2>9. job'[p] \in Jobs /\ job'[p].script = Script(p) /\ job'[p].trouble = Worse(job[p].trouble, u)
    BY <1>1, <2>3, <2>7 DEF JobIs, Jobs, Places
  <2>10. job' = [job EXCEPT ![p] = job'[p]]
    BY <2>7 DEF JobIs
  <2> QED  BY <1>1, <2>1, <2>3, <2>8, <2>9, <2>10, BoxStays, FilesStay DEF StepOf
<1>3. CASE fit /\ Goto(p, "down") /\ UNCHANGED <<box, files>>
  <2>1. MovesTo(p, "down", job[p].passed) /\ UNCHANGED <<box, files>> /\ Script(p) = "integration"
    BY <1>1, <1>3, GotoIs DEF RunHolds, Script
  <2> QED  BY <1>1, <2>1, BoxStays, FilesStay
           DEF StepOf, MovesTo, JobIs, Jobs, RunHolds, Undisturbed, Unfailed, Places, Drilling, Seeded, Dumped,
               Restored, Script
<1> QED  BY <1>2, <1>3 DEF IntegrationTests

LEMMA UnlinkSteps == ASSUME DatabaseInv, NEW p \in Runners, Running(p), Unlink(p) PROVE StepOf(p)
<1>1. /\ job[p] \in Jobs /\ Script(p) \in Scripts /\ Box(p) \in Boxes /\ files[Script(p)] \in Files
      /\ RunHolds(p, job[p], Box(p), files[Script(p)]) /\ job[p].pc = "unlink"
  BY AtRun DEF Unlink, At
<1>2. MovesTo(p, "ended", job[p].passed) /\ UNCHANGED box
  BY GotoIs DEF Unlink
<1>3. files' = [files EXCEPT ![Script(p)] = files'[Script(p)]] /\ files'[Script(p)] \in Files
  BY <1>1, EmptyTypes DEF Unlink, DatabaseInv, DatabaseTypes
<1> QED  BY <1>1, <1>2, <1>3, BoxStays
         DEF StepOf, MovesTo, JobIs, Jobs, RunHolds, Undisturbed, Unfailed, Places, Drilling, Seeded, Dumped,
             Restored, Script

\* Tests that are broken off may leave tables, and change nothing else.
LEMMA BreakOff ==
    ASSUME DatabaseInv, NEW p \in Runners, Running(p), BreakTestsOff(p)
    PROVE  /\ box' = [box EXCEPT ![Script(p)] = box'[Script(p)]]
           /\ box'[Script(p)] \in Boxes
           /\ job[p].pc # "test" => box'[Script(p)] = Box(p)
<1>1. Box(p) \in Boxes /\ Script(p) \in Scripts
  BY AtRun
<1>2. CASE UNCHANGED box
  BY <1>1, <1>2, BoxStays
<1>3. CASE ~UNCHANGED box
  <2>1. At(p, "test") /\ Box(p).source # NoFile
    BY <1>3 DEF BreakTestsOff
  <2>2. PICK db \in {Box(p).source, [EmptyDb EXCEPT !.rows = p]} : SetBox(p, [Box(p) EXCEPT !.source = db])
    BY <1>3 DEF BreakTestsOff
  <2>3. db \in Databases
    <3>1. [EmptyDb EXCEPT !.rows = p] \in Databases
      BY DEF EmptyDb, Databases
    <3>2. Box(p).source \in Databases
      BY <1>1, <2>1 DEF Boxes
    <3> QED  BY <2>2, <3>1, <3>2
  <2>4. [Box(p) EXCEPT !.source = db] \in Boxes
    BY <1>1, <2>3 DEF Boxes
  <2> QED  BY <2>1, <2>2, <2>4, BoxIs DEF At
<1> QED  BY <1>2, <1>3

LEMMA CommandSteps == ASSUME DatabaseInv, NEW p \in Runners, Running(p), CommandFails(p) PROVE StepOf(p)
<1> DEFINE u == IF At(p, "down") THEN "left" ELSE "command"
           pc == CASE At(p, "cleanup") -> "up" [] At(p, "down") -> "unlink" [] OTHER -> "down"
           passed == job[p].passed /\ job[p].pc \in {"cleanup", "down"}
<1>1. /\ job[p] \in Jobs /\ Script(p) \in Scripts /\ Box(p) \in Boxes /\ files[Script(p)] \in Files
      /\ RunHolds(p, job[p], Box(p), files[Script(p)]) /\ job[p].pc # "unlink" /\ job[p].pc # "ended"
  BY AtRun DEF CommandFails, At, Running
<1>2. /\ job' = [job EXCEPT ![p].trouble = Worse(@, u), ![p].pc = pc, ![p].passed = passed]
      /\ BreakTestsOff(p) /\ UNCHANGED files
  <2>1. job \in [Runners -> Jobs \cup {NoJob}]
    BY DEF DatabaseInv, DatabaseTypes
  <2> QED  BY <1>1, <2>1 DEF CommandFails, Jobs
<1>3. /\ u \in TroubleKinds /\ job[p].trouble \in TroubleKinds /\ u # "overlap" /\ u # "none"
      /\ passed \in BOOLEAN /\ pc \in Places
  BY <1>1 DEF TroubleKinds, Jobs, Places
<1>4. /\ Worse(job[p].trouble, u) \in TroubleKinds /\ Worse(job[p].trouble, u) # "none"
      /\ job[p].trouble = "overlap" => Worse(job[p].trouble, u) = "overlap"
      /\ u = "left" => Worse(job[p].trouble, u) \in {"left", "overlap"}
      /\ Worse(job[p].trouble, u) = "overlap" => job[p].trouble = "overlap"
  <2>1. Worse(job[p].trouble, u) \in {job[p].trouble, u}
    BY <1>3, WorseOfTwo
  <2> QED  BY <1>3, <2>1, WorseOfTwo
<1>5. /\ pc \in {"up", "unlink", "down"}
      /\ pc = "up" => job[p].pc = "cleanup" /\ (passed <=> job[p].passed)
      /\ pc = "unlink" => job[p].pc = "down" /\ u = "left"
      /\ pc = "down" => ~passed
      /\ pc \in {"up", "unlink"} => job[p].pc # "test"
  BY DEF At
<1> HIDE DEF u, pc, passed
<1> DEFINE b == box'[Script(p)]
<1>9. /\ box' = [box EXCEPT ![Script(p)] = b] /\ b \in Boxes
      /\ job[p].pc # "test" => b = Box(p)
  BY <1>2, BreakOff
<1> HIDE DEF b
<1>6. /\ job' = [job EXCEPT ![p] = job'[p]]
      /\ job'[p] = [job[p] EXCEPT !.trouble = Worse(job[p].trouble, u), !.pc = pc, !.passed = passed]
  BY <1>1, <1>2 DEF DatabaseInv, DatabaseTypes
<1>7. /\ job'[p] \in Jobs /\ job'[p].script = Script(p) /\ job'[p].port = job[p].port /\ job'[p].pc = pc
      /\ job'[p].trouble = Worse(job[p].trouble, u) /\ job'[p].passed = passed
  BY <1>1, <1>3, <1>4, <1>6 DEF Jobs, Script
<1>8. RunHolds(p, job'[p], b, files[Script(p)])
  <2>1. Worse(job[p].trouble, u) # "overlap" => Undisturbed(p, job[p], Box(p), files[Script(p)])
    BY <1>1, <1>4 DEF RunHolds
  <2>2. Worse(job[p].trouble, u) # "overlap" => Undisturbed(p, job'[p], b, files[Script(p)])
    BY <1>4, <1>5, <1>7, <1>9, <2>1 DEF Undisturbed, Drilling, Seeded, Dumped, Restored
  <2> QED  BY <1>4, <1>5, <1>7, <2>2 DEF RunHolds, Drilling, Seeded, Dumped, Restored
<1> QED  BY <1>1, <1>2, <1>4, <1>6, <1>7, <1>8, <1>9, FilesStay DEF StepOf, b

LEMMA KilledSteps == ASSUME DatabaseInv, NEW p \in Runners, Running(p), JobKilled(p) PROVE StepOf(p)
<1>1. /\ job[p] \in Jobs /\ Script(p) \in Scripts /\ Box(p) \in Boxes /\ files[Script(p)] \in Files
  BY AtRun
<1>2. /\ box' = [box EXCEPT ![Script(p)] = box'[Script(p)]] /\ box'[Script(p)] \in Boxes
      /\ UNCHANGED files
  BY BreakOff DEF JobKilled
<1>3. /\ Worse(job[p].trouble, "left") \in TroubleKinds
      /\ job[p].trouble = "overlap" => Worse(job[p].trouble, "left") = "overlap"
  BY <1>1, WorseOfTwo DEF TroubleKinds, Jobs
<1>4. /\ job' = [job EXCEPT ![p] = job'[p]]
      /\ job'[p] = [job[p] EXCEPT !.pc = "ended", !.passed = FALSE, !.trouble = Worse(job[p].trouble, "left")]
  BY <1>1 DEF DatabaseInv, DatabaseTypes, JobKilled, Jobs
<1>5. /\ job'[p] \in Jobs /\ job'[p].script = Script(p) /\ job'[p].pc = "ended"
      /\ job'[p].trouble = Worse(job[p].trouble, "left")
  BY <1>1, <1>3, <1>4 DEF Jobs, Places, Script
<1>6. ASSUME NEW b PROVE RunHolds(p, job'[p], b, files[Script(p)])
  BY <1>5 DEF RunHolds, Drilling, Seeded, Dumped, Restored
<1> QED  BY <1>1, <1>2, <1>3, <1>4, <1>5, <1>6, FilesStay DEF StepOf

LEMMA JobStepKeeps == ASSUME DatabaseInv, NEW p \in Runners, JobStep(p) \/ JobKilled(p) PROVE DatabaseInv'
<1>1. Running(p)
  BY DEF JobStep, JobKilled
<1>2. StepOf(p)
  <2>1. CASE JobSteps(p)
    BY <1>1, <2>1, CleanupSteps, UpSteps, WaitSteps, MigrateUpSteps, SeedSteps, CountSteps, DumpSteps,
       RecreateSteps, RestoreSteps, CheckSteps, CompareSteps, VerifySteps, TestSteps, TakeDownSteps, UnlinkSteps
    DEF JobSteps
  <2> QED  BY <1>1, <2>1, CommandSteps, KilledSteps DEF JobStep
<1> QED  BY <1>1, <1>2, StepKeeps

LEMMA SameDatabases == DatabaseInv /\ UNCHANGED databaseVars => DatabaseInv'
BY DEF DatabaseInv, DatabaseTypes, Apart, Running, Script, databaseVars

LEMMA DatabaseNext == DatabaseInv /\ [Next]_vars => DatabaseInv'
<1> SUFFICES ASSUME DatabaseInv, [Next]_vars PROVE DatabaseInv'
  OBVIOUS
<1>1. CASE RunJob
  <2>1. PICK k \in Scripts, keep \in KeepChoices : JobStart(Manual, k, keep)
    BY <1>1 DEF RunJob
  <2> QED  BY <2>1, JobStartKeeps, ReleaseAssumption DEF ReleaseAssumption
<1>2. CASE StartChild
  <2>1. PICK k \in Scripts : JobStart(Child, k, {})
    BY <1>2 DEF StartChild, Scripts
  <2> QED  BY <2>1, JobStartKeeps, ReleaseAssumption DEF ReleaseAssumption
<1>3. CASE DrillCheckEnds \/ Orphaned \/ ManualEnds \/ ChildStepEnds
  <2>1. \/ \E p \in Runners : JobRead(p)
        \/ UNCHANGED databaseVars
    BY <1>3, ReleaseAssumption
    DEF DrillCheckEnds, Orphaned, ManualEnds, ChildStepEnds, ReleaseAssumption, databaseVars, JobRead
  <2> QED  BY <2>1, JobReadKeeps, SameDatabases
<1>4. CASE DatabaseBoots
  BY <1>4, ServerReadyKeeps DEF DatabaseBoots
<1>5. CASE \E p \in Runners : JobMoves(p) \/ JobDies(p)
  BY <1>5, JobStepKeeps DEF JobMoves, JobDies
<1>6. CASE \/ RunPreflight \/ Collect \/ StartPreflight \/ PreflightChecks \/ OtherStepEnds
           \/ CollectorFinishes \/ CollectorStops \/ UNCHANGED vars
  BY <1>6, SameDatabases DEF RunPreflight, Collect, StartPreflight, PreflightChecks, OtherStepEnds,
                             CollectorFinishes, CollectorStops, vars, databaseVars
<1> QED  BY <1>1, <1>2, <1>3, <1>4, <1>5, <1>6 DEF Next, ReleaseSteps

LEMMA DatabaseInvMeans == DatabaseInv => DrillProvesRestore /\ LeftoversHarmless /\ NothingLeft
<1> SUFFICES ASSUME DatabaseInv PROVE DrillProvesRestore /\ LeftoversHarmless /\ NothingLeft
  OBVIOUS
<1>1. ASSUME NEW p \in Runners, At(p, "down") \/ At(p, "unlink")
      PROVE  RunHolds(p, job[p], Box(p), files[Script(p)]) /\ job[p].pc \in {"down", "unlink"}
  BY <1>1, AtRun DEF At, Running
<1>2. DrillProvesRestore
  <2> SUFFICES ASSUME NEW p \in Runners, At(p, "down"), Script(p) = "drill", job[p].passed,
                      job[p].trouble # "overlap"
               PROVE  Box(p).restore = job[p].dump /\ job[p].dump.rows = p
    BY DEF DrillProvesRestore
  <2>1. job[p].dump = Loaded(p) /\ Box(p).restore = Loaded(p)
    BY <1>1 DEF At, RunHolds, Undisturbed, Script
  <2> QED  BY <2>1, LoadedIs
<1>3. LeftoversHarmless
  BY <1>1 DEF LeftoversHarmless, At, RunHolds, Unfailed, Script
<1>4. NothingLeft
  BY <1>1 DEF NothingLeft, At, RunHolds, Undisturbed
<1> QED  BY <1>2, <1>3, <1>4

\* Whatever runs beside it and whatever killed runs have left, a drill that
\* passes undisturbed has restored its own rows and an undisturbed drill fails
\* only by a failure of its own; integration tests fail besides on what broken
\* off ones left in the volume, which they do not clear first; and the last
\* down of an undisturbed run leaves nothing (run_backup_restore_drill.py,
\* run_repository_db_integration.py).
THEOREM ReleaseDatabases == Spec => [](DrillProvesRestore /\ LeftoversHarmless /\ NothingLeft)
<1>1. Spec => []DatabaseInv
  BY DatabaseStarts, DatabaseNext, PTL DEF Spec, Init
<1> QED  BY <1>1, DatabaseInvMeans, PTL

(***************************************************************************)
(* The release evidence                                                    *)
(***************************************************************************)

StepNames == {"migration-status", "preflight", "frontend-e2e", "runtime-precheck", "smoke-check",
              "db-integration", "backup-restore-drill", "runtime-observability-snapshot",
              "retention-preview", "capacity-estimate"}

\* Where a step is in StepOrder, and the number of one at place n.
Place(s) == CHOOSE i \in DOMAIN StepOrder : StepOrder[i] = s
Below(chosen, n) == {s \in chosen : Place(s) > 2 /\ Place(s) < n}
NumberAt(chosen, n) == 3 + Cardinality(Below(chosen, n))

LEMMA StepsAre ==
    /\ DOMAIN StepOrder = 1..10
    /\ StepOrder[1] = "migration-status" /\ StepOrder[2] = "preflight" /\ StepOrder[3] = "frontend-e2e"
    /\ StepOrder[4] = "runtime-precheck" /\ StepOrder[5] = "smoke-check" /\ StepOrder[6] = "db-integration"
    /\ StepOrder[7] = "backup-restore-drill" /\ StepOrder[8] = "runtime-observability-snapshot"
    /\ StepOrder[9] = "retention-preview" /\ StepOrder[10] = "capacity-estimate"
BY DEF StepOrder

LEMMA PlacesAre ==
    /\ Place("migration-status") = 1 /\ Place("preflight") = 2 /\ Place("frontend-e2e") = 3
    /\ Place("runtime-precheck") = 4 /\ Place("smoke-check") = 5 /\ Place("db-integration") = 6
    /\ Place("backup-restore-drill") = 7 /\ Place("runtime-observability-snapshot") = 8
    /\ Place("retention-preview") = 9 /\ Place("capacity-estimate") = 10
<1>1. Place("migration-status") = 1 /\ Place("preflight") = 2 /\ Place("frontend-e2e") = 3
  BY StepsAre DEF Place
<1>2. Place("runtime-precheck") = 4 /\ Place("smoke-check") = 5 /\ Place("db-integration") = 6
  BY StepsAre DEF Place
<1>3. Place("backup-restore-drill") = 7 /\ Place("runtime-observability-snapshot") = 8
  BY StepsAre DEF Place
<1>4. Place("retention-preview") = 9 /\ Place("capacity-estimate") = 10
  BY StepsAre DEF Place
<1> QED  BY <1>1, <1>2, <1>3, <1>4

LEMMA PlaceOf == \A s \in StepNames : Place(s) \in 1..10 /\ StepOrder[Place(s)] = s
BY StepsAre, PlacesAre DEF StepNames

LEMMA AtPlace == \A n \in 1..10 : StepOrder[n] \in StepNames /\ Place(StepOrder[n]) = n
<1> SUFFICES ASSUME NEW n \in 1..10 PROVE StepOrder[n] \in StepNames /\ Place(StepOrder[n]) = n
  OBVIOUS
<1>1. n \in {1, 2, 3, 4, 5, 6, 7, 8, 9, 10}
  OBVIOUS
<1> QED  BY <1>1, StepsAre, PlacesAre DEF StepNames

LEMMA ChoicesAre == \A chosen \in StepChoices : chosen \subseteq StepNames
BY EvidenceAssumption, StepsAre, AtPlace DEF EvidenceAssumption, ToSet

LEMMA BelowFinite ==
    ASSUME NEW chosen, chosen \subseteq StepNames, NEW n
    PROVE  IsFiniteSet(Below(chosen, n)) /\ Cardinality(Below(chosen, n)) \in Nat
<1>1. IsFiniteSet(1..10)
  <2>1. 1 \in Int /\ 10 \in Int
    OBVIOUS
  <2> QED  BY <2>1, FS_Interval, Zenon
<1>2. IsFiniteSet(StepNames)
  <2> DEFINE f == [i \in 1..10 |-> StepOrder[i]]
  <2>1. f \in Surjection(1..10, StepNames)
    BY AtPlace, PlaceOf DEF Surjection
  <2> QED  BY <1>1, <2>1, FS_Surjection
<1>3. Below(chosen, n) \subseteq StepNames
  BY DEF Below
<1> QED  BY <1>2, <1>3, FS_Subset, FS_CardinalityType

\* One more place: one more number if its step is chosen.
LEMMA NumberSteps ==
    ASSUME NEW chosen, chosen \subseteq StepNames, NEW n \in 3..10
    PROVE  /\ NumberAt(chosen, n) \in Nat
           /\ NumberAt(chosen, n + 1) = NumberAt(chosen, n) + (IF StepOrder[n] \in chosen THEN 1 ELSE 0)
<1>1. \A s \in StepNames : Place(s) \in 1..10 /\ (Place(s) = n <=> s = StepOrder[n])
  BY PlaceOf, AtPlace
<1>2. IsFiniteSet(Below(chosen, n)) /\ Cardinality(Below(chosen, n)) \in Nat
  BY BelowFinite
<1>3. CASE StepOrder[n] \in chosen
  <2>1. Below(chosen, n + 1) = Below(chosen, n) \cup {StepOrder[n]}
    BY <1>1, <1>3 DEF Below
  <2>2. StepOrder[n] \notin Below(chosen, n)
    BY <1>1 DEF Below
  <2>3. Cardinality(Below(chosen, n) \cup {StepOrder[n]}) = Cardinality(Below(chosen, n)) + 1
    BY <1>2, <2>2, FS_AddElement
  <2>4. Cardinality(Below(chosen, n + 1)) = Cardinality(Below(chosen, n)) + 1
    BY <2>1, <2>3
  <2> QED  BY <1>2, <1>3, <2>4 DEF NumberAt
<1>4. CASE StepOrder[n] \notin chosen
  <2>1. Below(chosen, n + 1) = Below(chosen, n)
    BY <1>1, <1>4 DEF Below
  <2> QED  BY <1>2, <1>4, <2>1 DEF NumberAt
<1> QED  BY <1>3, <1>4

LEMMA FirstNumber == ASSUME NEW chosen, chosen \subseteq StepNames PROVE NumberAt(chosen, 3) = 3
<1>1. Below(chosen, 3) = {}
  <2>1. \A s \in chosen : Place(s) \in 1..10
    BY PlaceOf
  <2> QED  BY <2>1 DEF Below
<1> QED  BY <1>1, FS_EmptySet DEF NumberAt

LEMMA NumberIs ==
    ASSUME NEW chosen, NEW n \in 3..10
    PROVE  EvidenceNumber(chosen, StepOrder[n]) = NumberAt(chosen, n)
<1>1. n = Place(StepOrder[n])
  BY AtPlace
<1>2. StepOrder[n] # "migration-status" /\ StepOrder[n] # "preflight"
  BY <1>1, PlacesAre
<1> QED  BY <1>1, <1>2 DEF EvidenceNumber, NumberAt, Below, Place

\* The steps of s have rising numbers from lo up to, but not including, hi.
Rising(chosen, s, lo, hi) ==
    /\ s \in Seq(StepNames)
    /\ \A i \in 1..Len(s) : LET n == EvidenceNumber(chosen, s[i]) IN n \in Nat /\ lo <= n /\ n < hi
    /\ \A i, j \in 1..Len(s) : i < j => EvidenceNumber(chosen, s[i]) < EvidenceNumber(chosen, s[j])

LEMMA RisingTogether ==
    ASSUME NEW chosen, NEW s, NEW t, NEW lo \in Nat, NEW mid \in Nat, NEW hi \in Nat,
           lo <= mid, mid <= hi, Rising(chosen, s, lo, mid), Rising(chosen, t, mid, hi)
    PROVE  Rising(chosen, s \o t, lo, hi)
<1> DEFINE N(x) == EvidenceNumber(chosen, x)
<1>1. /\ s \in Seq(StepNames) /\ t \in Seq(StepNames) /\ s \o t \in Seq(StepNames)
      /\ Len(s) \in Nat /\ Len(t) \in Nat /\ Len(s \o t) = Len(s) + Len(t)
  BY ConcatProperties DEF Rising
<1>2. \A i \in 1..Len(s) + Len(t) : (s \o t)[i] = IF i <= Len(s) THEN s[i] ELSE t[i - Len(s)]
  BY <1>1, ConcatProperties
<1>3. /\ \A i \in 1..Len(s) : N(s[i]) \in Nat /\ lo <= N(s[i]) /\ N(s[i]) < mid
      /\ \A i \in 1..Len(t) : N(t[i]) \in Nat /\ mid <= N(t[i]) /\ N(t[i]) < hi
      /\ \A i, j \in 1..Len(s) : i < j => N(s[i]) < N(s[j])
      /\ \A i, j \in 1..Len(t) : i < j => N(t[i]) < N(t[j])
  BY DEF Rising
<1> HIDE DEF N
<1>4. ASSUME NEW i \in 1..Len(s) + Len(t)
      PROVE  N((s \o t)[i]) \in Nat /\ lo <= N((s \o t)[i]) /\ N((s \o t)[i]) < hi
  <2>1. CASE i <= Len(s)
    BY <1>1, <1>2, <1>3, <2>1
  <2>2. CASE i > Len(s)
    <3>1. i - Len(s) \in 1..Len(t) /\ (s \o t)[i] = t[i - Len(s)]
      BY <1>1, <1>2, <2>2
    <3> QED  BY <1>3, <3>1
  <2> QED  BY <1>1, <2>1, <2>2
<1>5. ASSUME NEW i \in 1..Len(s) + Len(t), NEW j \in 1..Len(s) + Len(t), i < j
      PROVE  N((s \o t)[i]) < N((s \o t)[j])
  <2>1. CASE j <= Len(s)
    BY <1>1, <1>2, <1>3, <1>5, <2>1
  <2>2. CASE i > Len(s)
    <3>1. /\ i - Len(s) \in 1..Len(t) /\ (s \o t)[i] = t[i - Len(s)]
          /\ j - Len(s) \in 1..Len(t) /\ (s \o t)[j] = t[j - Len(s)]
          /\ i - Len(s) < j - Len(s)
      BY <1>1, <1>2, <1>5, <2>2
    <3> QED  BY <1>3, <3>1
  <2>3. CASE i <= Len(s) /\ j > Len(s)
    <3>1. /\ i \in 1..Len(s) /\ (s \o t)[i] = s[i]
          /\ j - Len(s) \in 1..Len(t) /\ (s \o t)[j] = t[j - Len(s)]
      BY <1>1, <1>2, <2>3
    <3>2. N((s \o t)[i]) \in Nat /\ N((s \o t)[i]) < mid
      BY <1>3, <3>1
    <3>3. N((s \o t)[j]) \in Nat /\ mid <= N((s \o t)[j])
      BY <1>3, <3>1
    <3> QED  BY <3>2, <3>3
  <2> QED  BY <1>1, <2>1, <2>2, <2>3
<1> QED  BY <1>1, <1>4, <1>5 DEF Rising, N

LEMMA OptionRises ==
    ASSUME NEW chosen, chosen \subseteq StepNames, NEW n \in 3..10
    PROVE  Rising(chosen, Option(chosen, StepOrder[n]), NumberAt(chosen, n), NumberAt(chosen, n + 1))
<1>1. /\ NumberAt(chosen, n) \in Nat /\ StepOrder[n] \in StepNames
      /\ NumberAt(chosen, n + 1) = NumberAt(chosen, n) + (IF StepOrder[n] \in chosen THEN 1 ELSE 0)
      /\ EvidenceNumber(chosen, StepOrder[n]) = NumberAt(chosen, n)
  BY NumberSteps, NumberIs, AtPlace
<1>2. CASE StepOrder[n] \in chosen
  <2> DEFINE s == <<StepOrder[n]>>
  <2>1. s \in Seq(StepNames) /\ Len(s) = 1 /\ s[1] = StepOrder[n]
    BY <1>1
  <2>2. Option(chosen, StepOrder[n]) = s
    BY <1>2 DEF Option
  <2> HIDE DEF s
  <2>3. \A i \in 1..Len(s) : i = 1 /\ EvidenceNumber(chosen, s[i]) = NumberAt(chosen, n)
    BY <1>1, <2>1
  <2>4. NumberAt(chosen, n + 1) = NumberAt(chosen, n) + 1
    BY <1>1, <1>2
  <2>5. Rising(chosen, s, NumberAt(chosen, n), NumberAt(chosen, n + 1))
    BY <1>1, <2>1, <2>3, <2>4 DEF Rising
  <2> QED  BY <2>2, <2>5
<1>3. CASE StepOrder[n] \notin chosen
  <2>1. Option(chosen, StepOrder[n]) = <<>>
    BY <1>3 DEF Option
  <2>2. <<>> \in Seq(StepNames) /\ Len(<<>>) = 0
    OBVIOUS
  <2> QED  BY <2>1, <2>2 DEF Rising
<1> QED  BY <1>2, <1>3

\* The evidence steps are run in the order of their numbers.
LEMMA StepsRise ==
    ASSUME NEW chosen, chosen \subseteq StepNames
    PROVE  /\ SelectedSteps(chosen) \in Seq(StepNames)
           /\ \A i, j \in 1..Len(SelectedSteps(chosen)) : i < j =>
                 EvidenceNumber(chosen, SelectedSteps(chosen)[i]) < EvidenceNumber(chosen, SelectedSteps(chosen)[j])
           /\ \A i \in 1..Len(SelectedSteps(chosen)) : EvidenceNumber(chosen, SelectedSteps(chosen)[i]) \in Nat
<1> DEFINE O(step) == Option(chosen, step)
           A(n) == NumberAt(chosen, n)
           first == O("migration-status") \o <<"preflight">>
<1>1. \A n \in 3..10 : A(n) \in Nat /\ A(n + 1) \in Nat /\ A(n) <= A(n + 1)
  BY NumberSteps
<1>2. A(3) = 3
  BY FirstNumber
<1>3. ASSUME NEW n \in 3..10, NEW s, Rising(chosen, s, 1, A(n)), 1 <= A(n)
      PROVE  Rising(chosen, s \o O(StepOrder[n]), 1, A(n + 1)) /\ 1 <= A(n + 1)
  <2>1. Rising(chosen, O(StepOrder[n]), A(n), A(n + 1))
    BY OptionRises
  <2>2. A(n) \in Nat /\ A(n + 1) \in Nat /\ A(n) <= A(n + 1)
    BY <1>1
  <2> HIDE DEF O, A
  <2> QED  BY <1>3, <2>1, <2>2, RisingTogether
<1>4. Rising(chosen, first, 1, 3)
  <2>1. Rising(chosen, O("migration-status"), 1, 2)
    <3>1. EvidenceNumber(chosen, "migration-status") = 1
      BY DEF EvidenceNumber
    <3>2. "migration-status" \in StepNames
      BY DEF StepNames
    <3>3. <<"migration-status">> \in Seq(StepNames) /\ <<>> \in Seq(StepNames) /\ Len(<<>>) = 0
      BY <3>2
    <3>4. Rising(chosen, <<"migration-status">>, 1, 2)
      BY <3>1, <3>3 DEF Rising
    <3>5. Rising(chosen, <<>>, 1, 2)
      BY <3>3 DEF Rising
    <3> QED  BY <3>4, <3>5 DEF Option
  <2>2. Rising(chosen, <<"preflight">>, 2, 3)
    <3>1. EvidenceNumber(chosen, "preflight") = 2
      BY DEF EvidenceNumber
    <3>2. "preflight" \in StepNames
      BY DEF StepNames
    <3> QED  BY <3>1, <3>2 DEF Rising
  <2> HIDE DEF O
  <2> QED  BY <2>1, <2>2, RisingTogether
<1> HIDE DEF O, A, first
<1>5. Rising(chosen, first \o O(StepOrder[3]), 1, A(4)) /\ 1 <= A(4)
  BY <1>2, <1>3, <1>4
<1>6. Rising(chosen, first \o O(StepOrder[3]) \o O(StepOrder[4]), 1, A(5)) /\ 1 <= A(5)
  BY <1>3, <1>5
<1>7. Rising(chosen, first \o O(StepOrder[3]) \o O(StepOrder[4]) \o O(StepOrder[5]), 1, A(6)) /\ 1 <= A(6)
  BY <1>3, <1>6
<1> DEFINE mid == first \o O(StepOrder[3]) \o O(StepOrder[4]) \o O(StepOrder[5])
<1> HIDE DEF mid
<1>8. Rising(chosen, mid \o O(StepOrder[6]), 1, A(7)) /\ 1 <= A(7)
  BY <1>3, <1>7 DEF mid
<1>9. Rising(chosen, mid \o O(StepOrder[6]) \o O(StepOrder[7]), 1, A(8)) /\ 1 <= A(8)
  BY <1>3, <1>8
<1>10. Rising(chosen, mid \o O(StepOrder[6]) \o O(StepOrder[7]) \o O(StepOrder[8]), 1, A(9)) /\ 1 <= A(9)
  BY <1>3, <1>9
<1>11. Rising(chosen, mid \o O(StepOrder[6]) \o O(StepOrder[7]) \o O(StepOrder[8]) \o O(StepOrder[9]),
              1, A(10)) /\ 1 <= A(10)
  BY <1>3, <1>10
<1>12. Rising(chosen, mid \o O(StepOrder[6]) \o O(StepOrder[7]) \o O(StepOrder[8]) \o O(StepOrder[9])
                      \o O(StepOrder[10]), 1, A(11))
  BY <1>3, <1>11
<1>13. SelectedSteps(chosen) = mid \o O(StepOrder[6]) \o O(StepOrder[7]) \o O(StepOrder[8]) \o O(StepOrder[9])
                               \o O(StepOrder[10])
  BY StepsAre DEF SelectedSteps, mid, first, O
<1>14. Rising(chosen, SelectedSteps(chosen), 1, A(11))
  BY <1>12, <1>13
<1> QED  BY <1>14 DEF Rising

\* What the collector has entered of the steps that it goes through.
ExitCodes == {0, 1, 127}
EvidenceFile(chosen, step) == <<EvidenceNumber(chosen, step), step>>
EntrySet == [step : StepNames, file : Nat \X StepNames, code : ExitCodes]
Entered(chosen, entries) ==
    /\ entries \in Seq(EntrySet)
    /\ Len(entries) <= Len(SelectedSteps(chosen))
    /\ \A n \in 1..Len(entries) : /\ entries[n].step = SelectedSteps(chosen)[n]
                                  /\ entries[n].file = EvidenceFile(chosen, SelectedSteps(chosen)[n])

\* The collector under way knows where it is.
CollectorShape ==
    collector.pc # "idle" =>
       /\ collector.pc \in {"running", "passed", "failed"}
       /\ collector = [pc |-> collector.pc, run |-> collector.run, chosen |-> collector.chosen,
                       continue |-> collector.continue, i |-> collector.i, entries |-> collector.entries]
       /\ collector.run = folder.runs /\ collector.run >= 1
       /\ collector.chosen \in StepChoices
       /\ Entered(collector.chosen, collector.entries)
       /\ collector.i = Len(collector.entries) + 1

\* Its commands, the bounds on them, and the runs into the directory so far.
RunsCounted == /\ folder = [files |-> folder.files, manifest |-> folder.manifest, runs |-> folder.runs]
               /\ spent = [commands |-> spent.commands, kills |-> spent.kills]
               /\ folder.runs \in Nat /\ spent.commands \in Nat
               /\ folder.runs <= spent.commands /\ spent.commands <= MaxCommands

\* A file tells what entry e of a run says, or what a later run has written since.
Tells(written, e, run) == e.file \in DOMAIN written /\ written[e.file] = [run |-> run, code |-> e.code]
TellsSince(written, e, run) == \/ Tells(written, e, run)
                               \/ e.file \in DOMAIN written /\ written[e.file].run > run
CollectorTells == collector.pc = "running" =>
    \A n \in 1..Len(collector.entries) : Tells(folder.files, collector.entries[n], collector.run)

ManifestHolds ==
    folder.manifest # NoManifest =>
       LET m == folder.manifest IN
       /\ m.run \in Nat /\ m.run <= folder.runs /\ (collector.pc = "running" => m.run < folder.runs)
       /\ m.chosen \in StepChoices
       /\ Entered(m.chosen, m.entries)
       /\ \A n \in 1..Len(m.entries) : TellsSince(folder.files, m.entries[n], m.run)
       /\ Len(m.entries) < Len(SelectedSteps(m.chosen)) =>
             Len(m.entries) >= 1 /\ m.entries[Len(m.entries)].code # 0

EvidenceInv == CollectorShape /\ RunsCounted /\ CollectorTells /\ ManifestHolds

LEMMA EvidenceStarts == Init => EvidenceInv
<1> SUFFICES ASSUME Init PROVE EvidenceInv
  OBVIOUS
<1>1. collector = [pc |-> "idle"] /\ collector.pc = "idle"
  BY DEF Init, EvidenceInit, CollectorIdle
<1>2. folder = [files |-> <<>>, manifest |-> NoManifest, runs |-> 0] /\ spent = [commands |-> 0, kills |-> 0]
  BY DEF Init, EvidenceInit
<1>3. RunsCounted
  BY <1>2, ReleaseAssumption DEF RunsCounted, ReleaseAssumption
<1>4. ManifestHolds
  BY <1>2 DEF ManifestHolds
<1> QED  BY <1>1, <1>3, <1>4 DEF EvidenceInv, CollectorShape, CollectorTells

\* The next step of the loop is entered at its place.
LEMMA EntryAppended ==
    ASSUME NEW chosen \in StepChoices, NEW entries, Entered(chosen, entries),
           Len(entries) < Len(SelectedSteps(chosen)), NEW code \in ExitCodes, NEW step,
           step = SelectedSteps(chosen)[Len(entries) + 1]
    PROVE  LET e == [step |-> step, file |-> EvidenceFile(chosen, step), code |-> code] IN
           /\ Entered(chosen, Append(entries, e))
           /\ Len(Append(entries, e)) = Len(entries) + 1
           /\ Append(entries, e)[Len(entries) + 1] = e
           /\ \A n \in 1..Len(entries) : Append(entries, e)[n] = entries[n]
           /\ \A n \in 1..Len(entries) : entries[n].file # e.file
<1> DEFINE e == [step |-> step, file |-> EvidenceFile(chosen, step), code |-> code]
           steps == SelectedSteps(chosen)
           N(x) == EvidenceNumber(chosen, x)
<1>1. /\ steps \in Seq(StepNames)
      /\ \A i, j \in 1..Len(steps) : i < j => N(steps[i]) < N(steps[j])
      /\ \A i \in 1..Len(steps) : N(steps[i]) \in Nat
  BY ChoicesAre, StepsRise
<1>2. /\ entries \in Seq(EntrySet) /\ Len(entries) \in Nat /\ Len(steps) \in Nat
      /\ Len(entries) + 1 \in 1..Len(steps) /\ step = steps[Len(entries) + 1] /\ step \in StepNames
  BY <1>1 DEF Entered
<1>3. \A n \in 1..Len(entries) : /\ n \in 1..Len(steps) /\ n < Len(entries) + 1
                                 /\ entries[n].step = steps[n] /\ entries[n].file = <<N(steps[n]), steps[n]>>
  BY <1>2 DEF Entered, EvidenceFile
<1> HIDE DEF steps, N
<1>4. N(step) \in Nat
  BY <1>1, <1>2
<1>5. e.step = step /\ e.file = <<N(step), step>> /\ e.code = code /\ e \in EntrySet
  BY <1>2, <1>4 DEF EvidenceFile, EntrySet, N
<1> HIDE DEF e
<1>6. /\ Append(entries, e) \in Seq(EntrySet) /\ Len(Append(entries, e)) = Len(entries) + 1
      /\ Append(entries, e)[Len(entries) + 1] = e
      /\ \A n \in 1..Len(entries) : Append(entries, e)[n] = entries[n]
  BY <1>2, <1>5, AppendProperties
<1>7. ASSUME NEW n \in 1..Len(entries) PROVE entries[n].file # e.file
  <2>1. N(steps[n]) < N(steps[Len(entries) + 1]) /\ N(steps[n]) \in Nat
    BY <1>1, <1>2, <1>3
  <2>2. N(steps[n]) # N(step)
    BY <1>2, <1>4, <2>1
  <2> QED  BY <1>3, <1>5, <2>2
<1>8. ASSUME NEW n \in 1..Len(entries) + 1
      PROVE  Append(entries, e)[n].step = steps[n] /\ Append(entries, e)[n].file = <<N(steps[n]), steps[n]>>
  <2>1. CASE n = Len(entries) + 1
    BY <1>2, <1>5, <1>6, <2>1
  <2>2. CASE n # Len(entries) + 1
    <3>1. n \in 1..Len(entries)
      BY <1>2, <2>2
    <3> QED  BY <1>3, <1>6, <3>1
  <2> QED  BY <2>1, <2>2
<1>9. Entered(chosen, Append(entries, e))
  BY <1>2, <1>6, <1>8 DEF Entered, EvidenceFile, steps, N
<1> QED  BY <1>6, <1>7, <1>9 DEF e

LEMMA CollectKeeps == EvidenceInv /\ Collect => EvidenceInv'
<1> SUFFICES ASSUME EvidenceInv, Collect PROVE EvidenceInv'
  OBVIOUS
<1>1. PICK chosen \in StepChoices, continue \in BOOLEAN : CollectorStart(chosen, continue)
  BY DEF Collect
<1>2. /\ folder.runs \in Nat /\ spent.commands \in Nat /\ folder.runs <= spent.commands
      /\ spent.commands < MaxCommands /\ MaxCommands \in Nat
      /\ folder = [files |-> folder.files, manifest |-> folder.manifest, runs |-> folder.runs]
      /\ spent = [commands |-> spent.commands, kills |-> spent.kills]
  BY ReleaseAssumption DEF EvidenceInv, RunsCounted, ReleaseAssumption, Collect, Typed
<1>3. /\ folder' = [files |-> folder.files, manifest |-> folder.manifest, runs |-> folder.runs + 1]
      /\ spent' = [commands |-> spent.commands + 1, kills |-> spent.kills]
      /\ collector' = [pc |-> "running", run |-> folder.runs + 1, chosen |-> chosen,
                       continue |-> continue, i |-> 1, entries |-> <<>>]
  BY <1>1, <1>2 DEF CollectorStart, Collect, Typed
<1>4. RunsCounted'
  BY <1>2, <1>3 DEF RunsCounted
<1>5. Entered(chosen, <<>>)
  <2>1. Len(SelectedSteps(chosen)) \in Nat
    BY ChoicesAre, StepsRise
  <2> QED  BY <2>1 DEF Entered
<1>6. CollectorShape'
  BY <1>2, <1>3, <1>5 DEF CollectorShape
<1>7. CollectorTells'
  BY <1>3 DEF CollectorTells
<1>8. ManifestHolds'
  BY <1>2, <1>3 DEF EvidenceInv, ManifestHolds, TellsSince, Tells
<1> QED  BY <1>4, <1>6, <1>7, <1>8 DEF EvidenceInv

LEMMA StepEndsKeeps ==
    ASSUME EvidenceInv, NEW code \in ExitCodes, StepEnds(code), UNCHANGED spent
    PROVE  EvidenceInv'
<1> DEFINE chosen == collector.chosen
           old == collector.entries
           step == Steps[collector.i]
           e == [step |-> step, file |-> EvidenceFile(chosen, step), code |-> code]
           entries == Append(old, e)
           written == [f \in DOMAIN folder.files \cup {e.file} |->
                         IF f = e.file THEN [run |-> collector.run, code |-> code] ELSE folder.files[f]]
           stop == code # 0 /\ ~collector.continue
           m == [run |-> collector.run, chosen |-> chosen, entries |-> entries]
<1>1. /\ collector.pc = "running" /\ collector.i <= Len(SelectedSteps(chosen)) /\ chosen \in StepChoices
      /\ collector = [pc |-> "running", run |-> collector.run, chosen |-> chosen,
                      continue |-> collector.continue, i |-> collector.i, entries |-> old]
      /\ collector.run = folder.runs /\ collector.run >= 1 /\ folder.runs \in Nat
      /\ Entered(chosen, old) /\ collector.i = Len(old) + 1
  BY DEF StepEnds, AtStep, Steps, EvidenceInv, CollectorShape, RunsCounted
<1>2. /\ step = SelectedSteps(chosen)[Len(old) + 1] /\ Len(old) < Len(SelectedSteps(chosen))
      /\ Len(old) \in Nat /\ Len(SelectedSteps(chosen)) \in Nat
  <2>1. Len(SelectedSteps(chosen)) \in Nat /\ Len(old) \in Nat
    BY <1>1, ChoicesAre, StepsRise DEF Entered
  <2> QED  BY <1>1, <2>1 DEF Steps
<1>3. /\ Entered(chosen, entries)
      /\ Len(entries) = Len(old) + 1
      /\ entries[Len(old) + 1] = e
      /\ \A n \in 1..Len(old) : entries[n] = old[n]
      /\ \A n \in 1..Len(old) : old[n].file # e.file
  <2> HIDE DEF step
  <2> QED  BY <1>1, <1>2, EntryAppended
<1>4. /\ collector' = [collector EXCEPT !.i = @ + 1, !.entries = entries, !.pc = IF stop THEN "failed" ELSE @]
      /\ folder' = [folder EXCEPT !.files = written, !.manifest = IF stop THEN m ELSE @]
  BY DEF StepEnds, WriteManifest, EvidenceFile
<1>5. e.file \in DOMAIN written /\ written[e.file] = [run |-> collector.run, code |-> code] /\ e.code = code
  OBVIOUS
<1>6. \A f \in DOMAIN folder.files : f # e.file => f \in DOMAIN written /\ written[f] = folder.files[f]
  OBVIOUS
<1>7. \A f \in DOMAIN folder.files : f \in DOMAIN written /\ (written[f] = folder.files[f] \/ written[f].run = collector.run)
  OBVIOUS
<1> HIDE DEF step, e, entries, written, m
<1>8. /\ collector' = [pc |-> IF stop THEN "failed" ELSE "running", run |-> collector.run, chosen |-> chosen,
                       continue |-> collector.continue, i |-> collector.i + 1, entries |-> entries]
      /\ folder' = [files |-> written, manifest |-> IF stop THEN m ELSE folder.manifest, runs |-> folder.runs]
  <2>1. folder = [files |-> folder.files, manifest |-> folder.manifest, runs |-> folder.runs]
    BY DEF EvidenceInv, RunsCounted
  <2> QED  BY <1>1, <1>4, <2>1
<1>9. RunsCounted'
  BY <1>8 DEF EvidenceInv, RunsCounted
<1>10. CollectorShape'
  BY <1>1, <1>2, <1>3, <1>8 DEF CollectorShape
<1>11. ASSUME NEW n \in 1..Len(entries) PROVE Tells(written, entries[n], collector.run)
  <2>1. CASE n = Len(old) + 1
    BY <1>3, <1>5, <1>8, <2>1 DEF Tells
  <2>2. CASE n # Len(old) + 1
    <3>1. n \in 1..Len(old) /\ entries[n] = old[n] /\ old[n].file # e.file
      BY <1>2, <1>3, <2>2
    <3>2. Tells(folder.files, old[n], collector.run)
      BY <1>1, <3>1 DEF EvidenceInv, CollectorTells
    <3> QED  BY <1>6, <1>8, <3>1, <3>2 DEF Tells
  <2> QED  BY <2>1, <2>2
<1>12. CollectorTells'
  BY <1>8, <1>11 DEF CollectorTells
<1>13. ManifestHolds'
  <2>1. CASE stop
    <3>1. folder'.manifest = m /\ m.run = collector.run /\ m.chosen = chosen /\ m.entries = entries
      BY <1>8, <2>1 DEF m
    <3>2. entries[Len(entries)].code # 0 /\ Len(entries) >= 1
      BY <1>2, <1>3, <1>5, <2>1
    <3>3. collector'.pc = "failed" /\ folder'.runs = folder.runs
      BY <1>8, <2>1
    <3>4. \A n \in 1..Len(entries) : TellsSince(written, entries[n], collector.run)
      BY <1>11 DEF TellsSince
    <3>5. folder'.files = written
      BY <1>8
    <3> QED  BY <1>1, <1>3, <3>1, <3>2, <3>3, <3>4, <3>5 DEF ManifestHolds
  <2>2. CASE ~stop
    <3>1. folder'.manifest = folder.manifest /\ folder'.files = written /\ folder'.runs = folder.runs
          /\ collector'.pc = "running"
      BY <1>8, <2>2
    <3>2. SUFFICES ASSUME folder.manifest # NoManifest PROVE ManifestHolds'
      BY <3>1 DEF ManifestHolds
    <3> DEFINE o == folder.manifest
    <3>3. /\ o.run \in Nat /\ o.run < folder.runs /\ o.chosen \in StepChoices /\ Entered(o.chosen, o.entries)
          /\ \A n \in 1..Len(o.entries) : TellsSince(folder.files, o.entries[n], o.run)
          /\ Len(o.entries) < Len(SelectedSteps(o.chosen)) => Len(o.entries) >= 1 /\ o.entries[Len(o.entries)].code # 0
      BY <1>1, <3>2 DEF EvidenceInv, ManifestHolds
    <3>4. \A n \in 1..Len(o.entries) : TellsSince(written, o.entries[n], o.run)
      BY <1>1, <1>7, <3>3 DEF TellsSince, Tells
    <3> QED  BY <1>1, <3>1, <3>3, <3>4 DEF ManifestHolds
  <2> QED  BY <2>1, <2>2
<1> QED  BY <1>9, <1>10, <1>12, <1>13 DEF EvidenceInv

LEMMA CollectorEndsKeeps == EvidenceInv /\ CollectorEnds /\ UNCHANGED spent => EvidenceInv'
<1> SUFFICES ASSUME EvidenceInv, CollectorEnds, UNCHANGED spent PROVE EvidenceInv'
  OBVIOUS
<1> DEFINE chosen == collector.chosen
           entries == collector.entries
           pc == IF Failed(entries) THEN "failed" ELSE "passed"
           m == [run |-> collector.run, chosen |-> chosen, entries |-> entries]
<1>1. /\ collector.pc = "running" /\ collector.i > Len(SelectedSteps(chosen)) /\ chosen \in StepChoices
      /\ collector = [pc |-> "running", run |-> collector.run, chosen |-> chosen,
                      continue |-> collector.continue, i |-> collector.i, entries |-> entries]
      /\ collector.run = folder.runs /\ collector.run >= 1 /\ folder.runs \in Nat
      /\ Entered(chosen, entries) /\ collector.i = Len(entries) + 1
  BY DEF CollectorEnds, Steps, EvidenceInv, CollectorShape, RunsCounted
<1>2. Len(entries) \in Nat /\ Len(SelectedSteps(chosen)) \in Nat /\ ~(Len(entries) < Len(SelectedSteps(chosen)))
  <2>1. Len(SelectedSteps(chosen)) \in Nat /\ Len(entries) \in Nat
    BY <1>1, ChoicesAre, StepsRise DEF Entered
  <2> QED  BY <1>1, <2>1
<1>3. /\ collector' = [collector EXCEPT !.pc = pc]
      /\ folder' = [folder EXCEPT !.manifest = m]
  BY DEF CollectorEnds, WriteManifest
<1>4. pc \in {"failed", "passed"}
  OBVIOUS
<1> HIDE DEF pc, m
<1>5. /\ collector' = [pc |-> pc, run |-> collector.run, chosen |-> chosen,
                       continue |-> collector.continue, i |-> collector.i, entries |-> entries]
      /\ folder' = [files |-> folder.files, manifest |-> m, runs |-> folder.runs]
  <2>1. folder = [files |-> folder.files, manifest |-> folder.manifest, runs |-> folder.runs]
    BY DEF EvidenceInv, RunsCounted
  <2> QED  BY <1>1, <1>3, <2>1
<1>6. RunsCounted'
  BY <1>5 DEF EvidenceInv, RunsCounted
<1>7. CollectorShape' /\ CollectorTells'
  BY <1>1, <1>4, <1>5 DEF CollectorShape, CollectorTells
<1>8. ManifestHolds'
  <2>1. m.run = collector.run /\ m.chosen = chosen /\ m.entries = entries
    BY DEF m
  <2>2. \A n \in 1..Len(entries) : TellsSince(folder.files, entries[n], collector.run)
    BY <1>1, <1>5 DEF EvidenceInv, CollectorTells, TellsSince, Tells
  <2> QED  BY <1>1, <1>2, <1>4, <1>5, <2>1, <2>2 DEF ManifestHolds
<1> QED  BY <1>6, <1>7, <1>8 DEF EvidenceInv

\* A collector that is broken off or read leaves its directory behind.
LEMMA CollectorIdles == EvidenceInv /\ collector' = CollectorIdle /\ UNCHANGED <<folder, spent>> => EvidenceInv'
<1> SUFFICES ASSUME EvidenceInv, collector' = [pc |-> "idle"], UNCHANGED <<folder, spent>> PROVE EvidenceInv'
  BY DEF CollectorIdle
<1>1. RunsCounted'
  BY DEF EvidenceInv, RunsCounted
<1>2. CollectorShape' /\ CollectorTells'
  BY DEF CollectorShape, CollectorTells
<1>3. ManifestHolds'
  BY DEF EvidenceInv, ManifestHolds, TellsSince, Tells
<1> QED  BY <1>1, <1>2, <1>3 DEF EvidenceInv

LEMMA CollectorStays ==
    ASSUME EvidenceInv, UNCHANGED <<collector, folder>>, Typed \/ spent'.commands = spent.commands,
           spent' = [commands |-> spent'.commands, kills |-> spent'.kills]
    PROVE  EvidenceInv'
<1>1. RunsCounted'
  <2>1. spent'.commands = spent.commands \/ (spent'.commands = spent.commands + 1 /\ spent.commands < MaxCommands)
    <3>1. spent = [commands |-> spent.commands, kills |-> spent.kills]
      BY DEF EvidenceInv, RunsCounted
    <3>2. CASE Typed
      <4>1. spent' = [commands |-> spent.commands + 1, kills |-> spent.kills] /\ spent.commands < MaxCommands
        BY <3>1, <3>2 DEF Typed
      <4> QED  BY <4>1
    <3> QED  BY <3>2
  <2> QED  BY <2>1, ReleaseAssumption DEF EvidenceInv, RunsCounted, ReleaseAssumption
<1>2. CollectorShape' /\ CollectorTells'
  BY DEF EvidenceInv, CollectorShape, CollectorTells, Tells
<1>3. ManifestHolds'
  BY DEF EvidenceInv, ManifestHolds, TellsSince, Tells
<1> QED  BY <1>1, <1>2, <1>3 DEF EvidenceInv

LEMMA SpentKept == EvidenceInv => spent = [commands |-> spent.commands, kills |-> spent.kills]
BY DEF EvidenceInv, RunsCounted

LEMMA EvidenceNext == EvidenceInv /\ [Next]_vars => EvidenceInv'
<1> SUFFICES ASSUME EvidenceInv, [Next]_vars PROVE EvidenceInv'
  OBVIOUS
<1>1. CASE Collect
  BY <1>1, CollectKeeps
<1>2. CASE ChildStepEnds \/ OtherStepEnds
  <2>1. \E code \in ExitCodes : StepEnds(code) /\ UNCHANGED spent
    BY <1>2 DEF ChildStepEnds, OtherStepEnds, ExitCodes, ExitCode
  <2> QED  BY <2>1, StepEndsKeeps
<1>3. CASE CollectorFinishes
  BY <1>3, CollectorEndsKeeps, CollectorIdles DEF CollectorFinishes, CollectorRead
<1>4. CASE CollectorStops
  BY <1>4, CollectorIdles DEF CollectorStops, CollectorBroken
<1>5. CASE RunPreflight \/ RunJob
  <2>1. UNCHANGED <<collector, folder>> /\ Typed
    BY <1>5 DEF RunPreflight, RunJob
  <2>2. spent' = [commands |-> spent.commands + 1, kills |-> spent.kills]
    BY <2>1, SpentKept DEF Typed
  <2>3. spent' = [commands |-> spent'.commands, kills |-> spent'.kills]
    BY <2>2
  <2> QED  BY <2>1, <2>3, CollectorStays
<1>6. CASE \E p \in Runners : JobDies(p)
  <2>1. UNCHANGED <<collector, folder>> /\ spent' = [spent EXCEPT !.kills = @ + 1]
    BY <1>6 DEF JobDies
  <2>2. spent' = [commands |-> spent.commands, kills |-> spent.kills + 1]
    BY <2>1, SpentKept
  <2>3. spent' = [commands |-> spent'.commands, kills |-> spent'.kills] /\ spent'.commands = spent.commands
    BY <2>2
  <2> QED  BY <2>1, <2>3, CollectorStays
<1>7. CASE \/ StartChild \/ StartPreflight \/ PreflightChecks \/ DrillCheckEnds \/ ManualEnds \/ Orphaned
           \/ DatabaseBoots \/ (\E p \in Runners : JobMoves(p)) \/ UNCHANGED vars
  <2>1. UNCHANGED <<collector, folder, spent>>
    BY <1>7 DEF StartChild, StartPreflight, PreflightChecks, DrillCheckEnds, ManualEnds, Orphaned,
                DatabaseBoots, JobMoves, vars
  <2>2. spent' = [commands |-> spent'.commands, kills |-> spent'.kills] /\ spent'.commands = spent.commands
    BY <2>1, SpentKept
  <2> QED  BY <2>1, <2>2, CollectorStays
<1> QED  BY <1>1, <1>2, <1>3, <1>4, <1>5, <1>6, <1>7 DEF Next, ReleaseSteps

LEMMA EvidenceInvMeans == EvidenceInv => ManifestTruthful
<1> SUFFICES ASSUME EvidenceInv, folder.manifest # NoManifest PROVE ManifestTruthful
  BY DEF ManifestTruthful
<1> DEFINE m == folder.manifest
           entry == m.entries
           steps == SelectedSteps(m.chosen)
           names == [i \in DOMAIN entry |-> entry[i].step]
<1>1. /\ m.run \in Nat /\ m.chosen \in StepChoices /\ Entered(m.chosen, entry)
      /\ \A n \in 1..Len(entry) : TellsSince(folder.files, entry[n], m.run)
      /\ Len(entry) < Len(steps) => Len(entry) >= 1 /\ entry[Len(entry)].code # 0
  BY DEF EvidenceInv, ManifestHolds
<1>2. /\ entry \in Seq(EntrySet) /\ Len(entry) \in Nat /\ DOMAIN entry = 1..Len(entry)
      /\ steps \in Seq(StepNames) /\ Len(steps) \in Nat /\ Len(entry) <= Len(steps)
      /\ \A n \in 1..Len(entry) : entry[n].step = steps[n] /\ entry[n].file = EvidenceFile(m.chosen, steps[n])
  BY <1>1, ChoicesAre, StepsRise DEF Entered
<1>3. \A i \in DOMAIN entry : LET f == folder.files[entry[i].file] IN
         \/ f = [run |-> m.run, code |-> entry[i].code]
         \/ f.run > m.run
  BY <1>1, <1>2 DEF TellsSince, Tells
<1>4. ASSUME NEW i \in DOMAIN entry, NEW j \in DOMAIN entry, i < j
      PROVE  entry[i].file[1] < entry[j].file[1]
  <2>1. i \in 1..Len(steps) /\ j \in 1..Len(steps) /\ i \in 1..Len(entry) /\ j \in 1..Len(entry)
    BY <1>2
  <2>2. EvidenceNumber(m.chosen, steps[i]) < EvidenceNumber(m.chosen, steps[j])
    BY <1>1, <1>4, <2>1, ChoicesAre, StepsRise
  <2> HIDE DEF m, steps
  <2>3. /\ entry[i].file[1] = EvidenceNumber(m.chosen, steps[i])
        /\ entry[j].file[1] = EvidenceNumber(m.chosen, steps[j])
    BY <1>2, <2>1 DEF EvidenceFile
  <2> QED  BY <2>2, <2>3
<1>5. IsPrefix(names, steps)
  <2>1. \A n \in 1..Len(entry) : entry[n].step \in StepNames
    <3>1. \A n \in 1..Len(entry) : n \in 1..Len(steps) /\ entry[n].step = steps[n]
      BY <1>2
    <3> HIDE DEF entry, steps
    <3>2. \A n \in 1..Len(steps) : steps[n] \in StepNames
      BY <1>2
    <3> QED  BY <3>1, <3>2
  <2>2. names \in Seq(StepNames) /\ Len(names) = Len(entry) /\ \A n \in 1..Len(entry) : names[n] = steps[n]
    BY <1>2, <2>1
  <2> HIDE DEF names, steps, entry
  <2>3. SubSeq(names, 1, Len(names)) = SubSeq(steps, 1, Len(names))
    <3>1. SubSeq(names, 1, Len(names)) \in Seq(StepNames) /\ SubSeq(steps, 1, Len(names)) \in Seq(StepNames)
      BY <1>2, <2>2, SubSeqProperties
    <3>2. /\ Len(SubSeq(names, 1, Len(names))) = Len(names) /\ Len(SubSeq(steps, 1, Len(names))) = Len(names)
          /\ \A n \in 1..Len(names) : SubSeq(names, 1, Len(names))[n] = names[n] /\ SubSeq(steps, 1, Len(names))[n] = steps[n]
      BY <1>2, <2>2, SubSeqProperties
    <3> QED  BY <1>2, <2>2, <3>1, <3>2, SeqEqual
  <2> QED  BY <1>2, <2>2, <2>3 DEF IsPrefix
<1>6. Len(entry) < Len(steps) => Last(entry).code # 0
  BY <1>1 DEF Last
<1> QED  BY <1>3, <1>4, <1>5, <1>6 DEF ManifestTruthful

\* Preflight is at one of its checks, or past the last.
CheckHolds ==
    preflight.pc # "idle" =>
       /\ preflight.pc \in {"running", "passed", "failed"}
       /\ preflight.args \in PreflightArgs \cup {DefaultArgs}
       /\ preflight.i \in 1..(Len(Checks) + 1)

LEMMA ChecksAre ==
    ASSUME NEW args \in PreflightArgs \cup {DefaultArgs}
    PROVE  Len(SelectedChecks(args)) \in Nat
<1>1. Base(args) \in Seq(Names)
  <2>1. DefaultChecks \in Seq(Names)
    BY DefaultsAreChecks
  <2>2. CASE args \in PreflightArgs
    <3>1. args.only \in Seq(OnlyChoices)
      BY <2>2, PreflightAssumption DEF PreflightAssumption
    <3>2. OnlyChoices \subseteq Names
      <4>1. \A i \in DOMAIN DefaultChecks : DefaultChecks[i] \in Names
        BY <2>1, ElementOfSeq
      <4> QED  BY <4>1 DEF OnlyChoices, Names, ToSet
    <3>3. args.only \in Seq(Names)
      BY <3>1, <3>2, SeqMonotonic
    <3> QED  BY <2>1, <3>3 DEF Base
  <2>3. CASE args = DefaultArgs
    BY <2>1, <2>3 DEF Base, DefaultArgs
  <2> QED  BY <2>2, <2>3
<1>2. Extras(args) \in Seq(Names)
  BY ExtrasAreChecks
<1> HIDE DEF SelectedChecks
<1>3. SelectedChecks(args) \in Seq(Names)
  BY <1>1, <1>2, ConcatProperties DEF SelectedChecks
<1> QED  BY <1>3

LEMMA CheckMoves ==
    ASSUME Shaped, CheckHolds, PreflightPasses \/ (\E passed : CheckEnds(passed))
    PROVE  CheckHolds'
<1>1. /\ preflight.pc = "running" /\ preflight.args \in PreflightArgs \cup {DefaultArgs}
      /\ preflight.i \in 1..(Len(Checks) + 1)
      /\ preflight = [pc |-> "running", args |-> preflight.args, tree |-> preflight.tree, i |-> preflight.i]
  BY DEF Shaped, CheckHolds, PreflightPasses, CheckEnds, AtCheck
<1>2. Len(Checks) \in Nat
  BY <1>1, ChecksAre DEF Checks
<1>3. \E pc \in {"running", "passed", "failed"}, i \in 1..(Len(Checks) + 1) :
         preflight' = [pc |-> pc, args |-> preflight.args, tree |-> preflight.tree, i |-> i]
  <2>1. CASE PreflightPasses
    <3>1. preflight' = [pc |-> "passed", args |-> preflight.args, tree |-> preflight.tree, i |-> preflight.i]
      BY <1>1, <2>1 DEF PreflightPasses
    <3> QED  BY <1>1, <3>1
  <2>2. CASE \E passed : CheckEnds(passed)
    <3>1. PICK passed : CheckEnds(passed)
      BY <2>2
    <3>2. preflight.i <= Len(Checks)
      BY <3>1 DEF CheckEnds, AtCheck
    <3>3. CASE passed
      <4>1. preflight' = [pc |-> "running", args |-> preflight.args, tree |-> preflight.tree, i |-> preflight.i + 1]
        BY <1>1, <3>1, <3>3 DEF CheckEnds
      <4>2. preflight.i + 1 \in 1..(Len(Checks) + 1)
        BY <1>1, <1>2, <3>2
      <4> QED  BY <4>1, <4>2
    <3>4. CASE ~passed
      <4>1. preflight' = [pc |-> "failed", args |-> preflight.args, tree |-> preflight.tree, i |-> preflight.i]
        BY <1>1, <3>1, <3>4 DEF CheckEnds
      <4> QED  BY <1>1, <4>1
    <3> QED  BY <3>3, <3>4
  <2> QED  BY <2>1, <2>2
<1>4. Checks' = Checks /\ preflight'.args = preflight.args
  BY <1>3 DEF Checks
<1> QED  BY <1>1, <1>3, <1>4 DEF CheckHolds

LEMMA CheckNext == Shaped /\ CheckHolds /\ [Next]_vars => CheckHolds'
<1> SUFFICES ASSUME Shaped, CheckHolds, [Next]_vars PROVE CheckHolds'
  OBVIOUS
<1>1. CASE RunPreflight \/ StartPreflight
  <2>0. PICK args \in PreflightArgs \cup {DefaultArgs} : \E tree : PreflightStart(args, tree)
    BY <1>1 DEF RunPreflight, StartPreflight
  <2>1. PICK tree : PreflightStart(args, tree)
    BY <2>0
  <2>2. PICK pc \in {"failed", "running"} : preflight' = [pc |-> pc, args |-> args, tree |-> tree, i |-> 1]
    BY <2>1 DEF PreflightStart
  <2>3. Checks' = SelectedChecks(args)
    BY <2>2 DEF Checks
  <2>4. Len(SelectedChecks(args)) \in Nat
    BY ChecksAre
  <2> QED  BY <2>2, <2>3, <2>4 DEF CheckHolds
<1>2. CASE PreflightChecks \/ DrillCheckEnds
  <2>1. PreflightPasses \/ (\E passed : CheckEnds(passed))
    BY <1>2 DEF PreflightChecks, DrillCheckEnds, RunCheck
  <2> QED  BY <2>1, CheckMoves
<1>3. CASE preflight' = PreflightIdle
  BY <1>3 DEF CheckHolds, PreflightIdle
<1>4. CASE UNCHANGED preflight
  BY <1>4 DEF CheckHolds, Checks
<1>5. CASE \/ RunJob \/ Collect \/ StartChild \/ ManualEnds \/ ChildStepEnds \/ OtherStepEnds
           \/ CollectorFinishes \/ CollectorStops \/ Orphaned
           \/ DatabaseBoots \/ (\E p \in Runners : JobMoves(p) \/ JobDies(p)) \/ UNCHANGED vars
  <2>1. preflight' = PreflightIdle \/ UNCHANGED preflight
    BY <1>5 DEF RunJob, Collect, StartChild, ManualEnds, ChildStepEnds, OtherStepEnds, CollectorFinishes,
                CollectorStops, Orphaned, DatabaseBoots, JobMoves, JobDies, PreflightRead, vars
  <2> QED  BY <1>3, <1>4, <2>1
<1> QED  BY <1>1, <1>2, <1>5 DEF Next, ReleaseSteps

LEMMA ReleaseTypes == DatabaseInv /\ EvidenceInv /\ CheckHolds => TypeOK
<1> SUFFICES ASSUME DatabaseInv, EvidenceInv, CheckHolds PROVE TypeOK
  OBVIOUS
<1>1. folder.runs \in 0..MaxCommands
  BY ReleaseAssumption DEF EvidenceInv, RunsCounted, ReleaseAssumption
<1>2. collector.pc \in {"idle", "running", "passed", "failed"}
  BY DEF EvidenceInv, CollectorShape
<1>3. collector.pc # "idle" => /\ collector.run \in 1..MaxCommands
                               /\ collector.i \in 1..(Len(Steps) + 1)
                               /\ Len(collector.entries) = collector.i - 1
  <2> SUFFICES ASSUME collector.pc # "idle"
               PROVE  /\ collector.run \in 1..MaxCommands
                      /\ collector.i \in 1..(Len(Steps) + 1)
                      /\ Len(collector.entries) = collector.i - 1
    OBVIOUS
  <2>1. /\ collector.run = folder.runs /\ collector.run >= 1 /\ collector.chosen \in StepChoices
        /\ Entered(collector.chosen, collector.entries) /\ collector.i = Len(collector.entries) + 1
    BY DEF EvidenceInv, CollectorShape
  <2>2. /\ Len(Steps) \in Nat /\ Len(collector.entries) \in Nat /\ Len(collector.entries) <= Len(Steps)
    BY <2>1, ChoicesAre, StepsRise DEF Entered, Steps
  <2> QED  BY <1>1, <2>1, <2>2, ReleaseAssumption DEF ReleaseAssumption
<1>4. preflight.pc \in {"idle", "running", "passed", "failed"}
  BY DEF CheckHolds
<1>5. \A k \in Scripts : box[k].state \in {"none", "init", "ready"} /\ files[k].compose \in Ports \cup {NoFile}
  BY DEF DatabaseInv, DatabaseTypes, Boxes, Files
<1>6. \A p \in Runners : Running(p) => Script(p) \in Scripts /\ job[p].port \in Ports
  BY AtRun DEF Jobs
<1> QED  BY <1>1, <1>2, <1>3, <1>4, <1>5, <1>6 DEF TypeOK, CheckHolds

\* The manifest of collect_release_evidence.py tells the truth about the files
\* beside it, whichever options each run into the directory had and wherever it
\* was broken off; the scripts keep to their states and bounds.
THEOREM ReleaseManifest == Spec => [](TypeOK /\ ManifestTruthful)
<1>1. Init => CheckHolds
  BY DEF Init, PreflightInit, PreflightIdle, CheckHolds
<1>2. Spec => []GateInv
  BY GateInit, GateNext, PTL DEF Spec
<1>3. GateInv => Shaped
  BY DEF GateInv
<1>4. Spec => []CheckHolds
  BY <1>1, <1>2, <1>3, CheckNext, PTL DEF Spec
<1>5. Spec => []EvidenceInv
  BY EvidenceStarts, EvidenceNext, PTL DEF Spec
<1>6. Spec => []DatabaseInv
  BY DatabaseStarts, DatabaseNext, PTL DEF Spec, Init
<1> QED  BY <1>4, <1>5, <1>6, EvidenceInvMeans, ReleaseTypes, PTL
=============================================================================
