---------------------------- MODULE CommandLine ----------------------------
(***************************************************************************)
(* The command line (titan_decoder/cli.py): the order in which main hands  *)
(* one invocation to its stages, what each of them may write, and the exit *)
(* code that a pipeline acts upon.                                         *)
(***************************************************************************)
EXTENDS Naturals, Sequences, SequencesExt

CONSTANTS
    Invocations,        \* the invocations: see Invocation
    BatchFiles          \* sequence of the stems of the files of a batch

Levels == 0 .. 4        \* CLEAN, LOW, MEDIUM, HIGH, CRITICAL
Unrated == 5            \* no risk assessment
Exports == <<"ioc", "case", "timeline", "evidence_timeline", "graph", "jsonl">>

\* The commands that end an invocation early, in the order they are looked
\* for, with what each can end in: whether it succeeded, and its exit code.
InfoOrder == <<"schema_version", "quarantine_list", "quarantine_restore", "calibrate",
    "list_rule_packs", "plugin_validate", "plugin_list", "rules_validate",
    "list_decoders", "doctor", "vault_prune", "vault_list", "correlation_search",
    "vault_search">>
Judged == {"quarantine_restore", "calibrate", "plugin_validate", "rules_validate",
           "doctor", "correlation_search"}
VaultCommands == {"vault_prune", "vault_list", "vault_search"}
InfoEnds(command) ==
    CASE command \in Judged -> {[ok |-> ok, code |-> IF ok THEN 0 ELSE 1] : ok \in BOOLEAN}
      [] command \in VaultCommands -> {[ok |-> ok, code |-> 0] : ok \in BOOLEAN}
      [] OTHER -> {[ok |-> TRUE, code |-> 0]}

Invocation ==
    [commands : SUBSET ToSet(InfoOrder), mode : {"single", "scan", "batch"},
     file : {"none", "missing", "unreadable", "empty", "good"},
     evidence : {"none", "good", "bad_path", "malformed"},
     profile : {"none", "safe", "fast", "full"}, depth : 0 .. 9,
     offline : BOOLEAN, profiled : BOOLEAN, detections : BOOLEAN,
     assurance : BOOLEAN, enrichment : BOOLEAN, phase5 : BOOLEAN,
     exports : SUBSET (ToSet(Exports) \cup {"intelligence", "forensics"}),
     vault : BOOLEAN, strict : BOOLEAN, limited : BOOLEAN, failOn : Levels \cup {Unrated},
     out : {"file", "stdout", "none"}]

\* A stem is not the name that wrote gives the file of an enrichment.
ASSUME CommandLineAssumption ==
    /\ Invocations \subseteq Invocation
    /\ BatchFiles \in Seq(ToSet(BatchFiles)) /\ "enrichment" \notin ToSet(BatchFiles)

VARIABLES
    given,              \* the invocation
    cli                 \* [pc, code, level, wrote, stored, valid, fits, depth, at, failed, ok]
                        \* the stage, the exit code, the risk level in the report,
                        \* the files written, the vault, and of a batch the next file
                        \* and the files that failed

cliVars == <<given, cli>>

FirstStage(valid, fits) ==
    [pc |-> "info", code |-> 0, level |-> Unrated, wrote |-> {}, stored |-> FALSE,
     valid |-> valid, fits |-> fits, depth |-> 0, at |-> 1, failed |-> {}, ok |-> TRUE]

CliInit ==
    /\ given \in Invocations
    /\ \E valid, fits \in BOOLEAN : cli = FirstStage(valid, fits)

CliAt(pc) == cli.pc = pc /\ UNCHANGED given
Next_(pc) == cli' = [cli EXCEPT !.pc = pc]
Leaves(code) == cli' = [cli EXCEPT !.pc = "exit", !.code = code]
Writes(file, pc) == cli' = [cli EXCEPT !.pc = pc, !.wrote = @ \cup {file}]

\* handle_info_commands: the first in order decides.
RunInfoCommand ==
    /\ CliAt("info")
    /\ \/ given.commands = {} /\ Next_("config")
       \/ \E k \in DOMAIN InfoOrder :
            /\ InfoOrder[k] \in given.commands
            /\ \A j \in 1 .. k - 1 : InfoOrder[j] \notin given.commands
            /\ \E end \in InfoEnds(InfoOrder[k]) :
                 cli' = [cli EXCEPT !.pc = "exit", !.code = end.code, !.ok = end.ok]

\* apply_runtime_config: a depth on the command line overrides the profile's.
ProfileDepth == [none |-> 5, safe |-> 3, fast |-> 3, full |-> 8]
ApplyConfig ==
    /\ CliAt("config")
    /\ cli' = [cli EXCEPT !.pc = CASE given.mode = "scan" -> "scan"
                                   [] given.mode = "batch" -> "batch"
                                   [] OTHER -> "load",
                          !.depth = IF given.depth # 0 THEN given.depth
                                    ELSE ProfileDepth[given.profile]]

\* run_deep_scan, whose scanner is DeepScan.
RunDeepScan ==
    /\ CliAt("scan")
    /\ \E analyzed \in BOOLEAN :
         cli' = [cli EXCEPT !.pc = "exit", !.code = IF analyzed THEN 0 ELSE 1,
                            !.wrote = IF analyzed THEN @ \cup {"report"} ELSE @]

-----------------------------------------------------------------------------
(* One payload *)

LoadInput ==
    /\ CliAt("load")
    /\ IF given.file = "good" \/ (given.file = "none" /\ given.evidence # "none")
       THEN Next_("evidence") ELSE Leaves(1)

\* Only a path that does not exist ends the run; evidence that cannot be
\* parsed is left out of it.
ParseEvidence ==
    /\ CliAt("evidence")
    /\ IF given.evidence = "bad_path" THEN Leaves(1) ELSE Next_("analysis")

\* A profiled run has no handlers: an interrupt ends it with a traceback.
RunAnalysis ==
    /\ CliAt("analysis")
    /\ \/ Next_("detections")
       \/ Leaves(1)
       \/ ~given.profiled /\ Leaves(130)

RunDetections ==
    /\ CliAt("detections")
    /\ IF given.detections
       THEN \E l \in Levels : cli' = [cli EXCEPT !.pc = "assurance", !.level = l]
       ELSE Next_("assurance")

\* The static suite scores the report again, with the same rules and without
\* the YARA matches; what the report then says is what main goes on with.
AttachAssurance ==
    /\ CliAt("assurance")
    /\ \/ /\ given.assurance
          /\ \E l \in Levels : cli' = [cli EXCEPT !.pc = "enrichment", !.level = l]
       \/ given.assurance /\ Leaves(1)
       \/ ~given.assurance /\ Next_("enrichment")

RunEnrichment ==
    /\ CliAt("enrichment")
    /\ IF given.enrichment /\ ~given.offline
       THEN Writes("enrichment", "phase5") ELSE Next_("phase5")

RunPhase5 ==
    /\ CliAt("phase5")
    /\ \/ Next_("ioc")
       \/ given.phase5 /\ Leaves(1)

\* The exports in their order; only the graph's failure is survived.
After(export) ==
    LET k == CHOOSE j \in DOMAIN Exports : Exports[j] = export IN
    IF k = Len(Exports) THEN "vault" ELSE Exports[k + 1]

Export ==
    \E export \in ToSet(Exports) :
        /\ CliAt(export)
        /\ IF export \notin given.exports THEN Next_(After(export))
           ELSE \/ Writes(export, After(export))
                \/ IF export = "graph" THEN Next_(After(export)) ELSE Leaves(1)

\* _vault_store: the report file, then its index, whose errors only warn.
StoreInVault ==
    /\ CliAt("vault")
    /\ \/ ~given.vault /\ Next_("strict")
       \/ given.vault /\ cli' = [cli EXCEPT !.pc = "strict", !.stored = TRUE]
       \/ given.vault /\ Leaves(1)

ValidateContract ==
    /\ CliAt("strict")
    /\ IF given.strict /\ ~cli.valid THEN Leaves(1) ELSE Next_("intelligence")

WriteIntelligence ==
    /\ CliAt("intelligence")
    /\ IF "intelligence" \in given.exports
       THEN Writes("intelligence", "size") \/ Leaves(1) ELSE Next_("size")

GuardSize ==
    /\ CliAt("size")
    /\ IF given.limited /\ ~cli.fits THEN Leaves(1) ELSE Next_("output")

\* A closed pipe on standard output is not an error.
WriteReport ==
    /\ CliAt("output")
    /\ CASE given.out = "file" -> Writes("report", "forensics") \/ Leaves(1)
         [] given.out = "stdout" -> Writes("report", "forensics") \/ Next_("forensics")
         [] OTHER -> Next_("forensics")

WriteForensics ==
    /\ CliAt("forensics")
    /\ IF "forensics" \in given.exports
       THEN Writes("forensics", "verdict") \/ Leaves(1) ELSE Next_("verdict")
\* Without a threshold, or without a risk assessment, the run succeeds.
FailOnRisk ==
    /\ CliAt("verdict")
    /\ Leaves(IF /\ given.failOn # Unrated /\ cli.level # Unrated
                 /\ cli.level >= given.failOn
              THEN 2 ELSE 0)

-----------------------------------------------------------------------------
(* A batch *)

Stems(files) == {BatchFiles[k] : k \in files}

BatchFails == cli' = [cli EXCEPT !.at = @ + 1, !.failed = @ \cup {cli.at}]

\* One file: read, analyzed, checked, saved under its stem, stored.
BatchFile ==
    /\ CliAt("batch") /\ cli.at <= Len(BatchFiles)
    /\ \/ BatchFails
       \/ \E valid, fits \in BOOLEAN :
            IF (given.strict /\ ~valid) \/ (given.limited /\ ~fits) THEN BatchFails
            ELSE LET saved == cli.wrote \cup {BatchFiles[cli.at]} IN
                 \/ cli' = [cli EXCEPT !.at = @ + 1, !.wrote = saved]
                 \/ given.vault /\ cli' = [cli EXCEPT !.at = @ + 1, !.wrote = saved,
                                                      !.failed = @ \cup {cli.at}]

BatchInterrupted ==
    /\ CliAt("batch") /\ cli.at <= Len(BatchFiles)
    /\ cli' = [cli EXCEPT !.pc = "exit", !.code = IF cli.failed = {} THEN 0 ELSE 1,
                          !.ok = FALSE]

\* Variant: a file that failed is only told of.
BatchEndsWell ==
    /\ CliAt("batch") /\ cli.at > Len(BatchFiles)
    /\ Leaves(IF BatchFiles = <<>> THEN 1 ELSE 0)

BatchEnds ==
    /\ CliAt("batch") /\ cli.at > Len(BatchFiles)
    /\ Leaves(IF BatchFiles = <<>> \/ cli.failed # {} THEN 1 ELSE 0)

CliNext ==
    \/ RunInfoCommand \/ ApplyConfig \/ RunDeepScan
    \/ LoadInput \/ ParseEvidence \/ RunAnalysis \/ RunDetections \/ AttachAssurance
    \/ RunEnrichment \/ RunPhase5 \/ Export \/ StoreInVault \/ ValidateContract
    \/ WriteIntelligence \/ GuardSize \/ WriteReport \/ WriteForensics \/ FailOnRisk
    \/ BatchFile \/ BatchInterrupted \/ BatchEnds

CliSpec == CliInit /\ [][CliNext]_cliVars

-----------------------------------------------------------------------------
(* Properties *)

Analyzed == given.commands = {} /\ given.mode = "single"

\* What a pipeline may conclude from the exit code.  0: every file asked for
\* is written (the graph aside), the report satisfies the contract and the
\* size it was held to, and the level it states is below the threshold.
\* 2: the report was written just so, but its own level reaches the threshold.
\* Of a batch that was not interrupted, 0 says that no file failed and
\* that every stem has a report.
\* Nothing is sent to a network service in offline mode.
ExitTellsTruth ==
    cli.pc = "exit" =>
        /\ Analyzed /\ cli.code \in {0, 2} =>
             /\ given.exports \ {"graph"} \subseteq cli.wrote
             /\ given.out = "file" => "report" \in cli.wrote
             /\ (given.strict => cli.valid) /\ (given.limited => cli.fits)
             /\ cli.code = 2 <=> given.failOn # Unrated /\ cli.level \in given.failOn .. 4
             /\ given.vault => cli.stored
        /\ given.commands = {} /\ given.mode = "batch" /\ cli.code = 0 /\ cli.ok =>
             cli.wrote = Stems(DOMAIN BatchFiles)
        /\ given.commands # {} /\ cli.code = 0 /\ ~cli.ok =>
             given.commands \cap VaultCommands # {}
        /\ given.offline => "enrichment" \notin cli.wrote
=============================================================================
