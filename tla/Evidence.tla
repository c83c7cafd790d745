------------------------------ MODULE Evidence -------------------------------
(***************************************************************************)
(* scripts/collect_release_evidence.py: runs the selected evidence steps,  *)
(* writes the output of each to a numbered file and, at its end, a         *)
(* manifest that names the files with their exit codes.  The directory may *)
(* be one that an earlier run has used.  Interrupting the collector leaves *)
(* the files it has written, and the manifest of the run before.           *)
(***************************************************************************)
EXTENDS Naturals, Sequences, SequencesExt, FiniteSets

CONSTANTS StepChoices,  \* sets of options that the collector is called with
          NoManifest

VARIABLES collector,  \* the process: pc, options, the step it is at, the manifest so far
          folder      \* the output directory: files and manifest.json

\* Every step that an option can add, in the order of the code; preflight
\* always runs, migration-status unless it is skipped.
StepOrder == <<"migration-status", "preflight", "frontend-e2e", "runtime-precheck", "smoke-check",
               "db-integration", "backup-restore-drill", "runtime-observability-snapshot",
               "retention-preview", "capacity-estimate">>

ASSUME EvidenceAssumption == StepChoices \subseteq SUBSET ToSet(StepOrder)

Option(chosen, step) == IF step \in chosen THEN <<step>> ELSE <<>>
SelectedSteps(chosen) ==
    Option(chosen, "migration-status") \o <<"preflight">>
    \o Option(chosen, "frontend-e2e") \o Option(chosen, "runtime-precheck") \o Option(chosen, "smoke-check")
    \o Option(chosen, "db-integration") \o Option(chosen, "backup-restore-drill")
    \o Option(chosen, "runtime-observability-snapshot") \o Option(chosen, "retention-preview")
    \o Option(chosen, "capacity-estimate")

\* Mutant: the numbering forgets the step that was added last.
EvidenceNumberOld(chosen, step) ==
    CASE step = "migration-status" -> 1
      [] step = "preflight" -> 2
      [] OTHER -> LET place(s) == CHOOSE i \in DOMAIN StepOrder : StepOrder[i] = s
                  IN 3 + Cardinality({s \in chosen : place(s) > 3 /\ place(s) < place(step)})

\* evidence_filename counts the optional steps before this one from 03 on.
EvidenceNumber(chosen, step) ==
    CASE step = "migration-status" -> 1
      [] step = "preflight" -> 2
      [] OTHER -> LET place(s) == CHOOSE i \in DOMAIN StepOrder : StepOrder[i] = s
                  IN 3 + Cardinality({s \in chosen : place(s) > 2 /\ place(s) < place(step)})

CollectorIdle == [pc |-> "idle"]

EvidenceInit == /\ collector = CollectorIdle
                /\ folder = [files |-> <<>>, manifest |-> NoManifest, runs |-> 0]

CollectorStart(chosen, continue) ==
    /\ collector.pc = "idle"
    /\ collector' = [pc |-> "running", run |-> folder.runs + 1, chosen |-> chosen,
                     continue |-> continue, i |-> 1, entries |-> <<>>]
    /\ folder' = [folder EXCEPT !.runs = @ + 1]

Steps == SelectedSteps(collector.chosen)
AtStep == collector.pc = "running" /\ collector.i <= Len(Steps)
Failed(entries) == \E i \in DOMAIN entries : entries[i].code # 0

WriteManifest(entries) == [run |-> collector.run, chosen |-> collector.chosen, entries |-> entries]

\* run_step has the exit code (127 for a tool that is not there), writes the
\* output file, and the loop of main goes on or ends with a manifest and code 1.
StepEnds(code) ==
    /\ AtStep
    /\ LET step == Steps[collector.i]
           file == <<EvidenceNumber(collector.chosen, step), step>>
           entries == Append(collector.entries, [step |-> step, file |-> file, code |-> code])
           written == [f \in DOMAIN folder.files \cup {file} |->
                         IF f = file THEN [run |-> collector.run, code |-> code] ELSE folder.files[f]]
           stop == code # 0 /\ ~collector.continue
       IN /\ collector' = [collector EXCEPT !.i = @ + 1, !.entries = entries, !.pc = IF stop THEN "failed" ELSE @]
          /\ folder' = [folder EXCEPT !.files = written, !.manifest = IF stop THEN WriteManifest(entries) ELSE @]

CollectorEnds ==
    /\ collector.pc = "running" /\ collector.i > Len(Steps)
    /\ folder' = [folder EXCEPT !.manifest = WriteManifest(collector.entries)]
    /\ collector' = [collector EXCEPT !.pc = IF Failed(collector.entries) THEN "failed" ELSE "passed"]

\* Interrupted or killed between two writes.
CollectorBroken == /\ collector.pc = "running"
                   /\ collector' = CollectorIdle
                   /\ UNCHANGED folder

CollectorRead == /\ collector.pc \in {"passed", "failed"}
                 /\ collector' = CollectorIdle
                 /\ UNCHANGED folder
=============================================================================
