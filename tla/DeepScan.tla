------------------------------ MODULE DeepScan ------------------------------
(***************************************************************************)
(* DeepScanner.scan (titan_decoder/core/deep_scan.py): one file after the  *)
(* other is read within the byte limits, analyzed, given to the assurance  *)
(* providers (core/assurance_providers.py), judged, reported and perhaps   *)
(* quarantined.  A failure of any of these drops the file to the errors    *)
(* and keeps what was already written.  The files belong to other programs *)
(* too: one may be rewritten between any two steps.                        *)
(***************************************************************************)
EXTENDS Assurance

CONSTANTS
    Bodies,             \* what a file can hold
    Gone,               \* no file: another program or a quarantine moved it
    BodySize,           \* [Bodies -> Nat]
    BodyFacts,          \* [Bodies -> ReportFacts]: what the analysis finds
    Discovered,         \* files under the target, in scan order
    MaxFiles,           \* deep_scan_max_files
    MaxFile,            \* max_data_size
    MaxScanTotal,           \* deep_scan_max_total_bytes
    Providers,          \* configured: subset of {"sandbox", "provenance", "authenticode"}
    MaxRewrites         \* bound: files rewritten by other programs

ASSUME DeepScanAssumption ==
    /\ BodySize \in [Bodies -> Nat] /\ BodyFacts \in [Bodies -> ReportFacts]
    /\ Gone \notin Bodies
    /\ {Discovered, MaxFiles, MaxFile, MaxScanTotal} \subseteq Nat \ {0}

Candidates == 1 .. (IF Discovered < MaxFiles THEN Discovered ELSE MaxFiles)

VARIABLES
    scan,               \* [pc, file, body, facts, verdict]: the loop's locals
    samples,            \* the files
    rewrites,           \* how often another program wrote
    totalBytes,
    results,            \* of path, digest, verdict and quarantined digest
    failed,             \* files in errors
    savedReports,       \* files with a report in reports_dir
    attestations,       \* the sandbox and provenance directories, by digest
    cancelled           \* cancel_event

scanVars == <<scan, samples, rewrites, totalBytes, results, failed,
              savedReports, attestations, cancelled>>

SandboxVerdicts == {"malicious", "suspicious", "clean"}
NoFacts == CHOOSE f \in ReportFacts : f.outcome = "none" /\ ~f.root /\ ~f.static

ScanInit ==
    /\ scan = [pc |-> "next", file |-> 0, body |-> Gone,
               facts |-> NoFacts, verdict |-> "INDETERMINATE"]
    /\ samples \in [Candidates -> Bodies]
    /\ rewrites = 0 /\ totalBytes = 0 /\ cancelled = FALSE
    /\ results = {} /\ failed = {} /\ savedReports = {}
    /\ attestations = [sandbox |-> [b \in Bodies |-> "none"],
                       provenance |-> [b \in Bodies |-> "none"]]

ScanAt(pc) == scan.pc = pc
To(pc) == scan' = [scan EXCEPT !.pc = pc]
On == samples[scan.file]

\* except Exception: whatever was saved or filed before stays.
Failure ==
    /\ To("next") /\ failed' = failed \cup {scan.file}
    /\ UNCHANGED <<samples, rewrites, totalBytes, results, savedReports, attestations, cancelled>>

NextSample ==
    /\ ScanAt("next")
    /\ IF cancelled \/ scan.file + 1 \notin Candidates
       THEN To("done")
       ELSE scan' = [scan EXCEPT !.pc = "stat", !.file = scan.file + 1]
    /\ UNCHANGED <<samples, rewrites, totalBytes, results, failed, savedReports, attestations, cancelled>>

WithinLimits(size) == size <= MaxFile /\ totalBytes + size <= MaxScanTotal

Stat ==
    /\ ScanAt("stat")
    /\ IF On = Gone \/ (On # Gone /\ ~WithinLimits(BodySize[On])) THEN Failure
       ELSE /\ To("read")
            /\ UNCHANGED <<samples, rewrites, totalBytes, results, failed,
                           savedReports, attestations, cancelled>>
\* Variant: the limits are checked against the size taken before.
ReadUnchecked ==
    /\ ScanAt("read") /\ On # Gone
    /\ scan' = [scan EXCEPT !.pc = "analyze", !.body = On]
    /\ totalBytes' = totalBytes + BodySize[On]
    /\ UNCHANGED <<samples, rewrites, results, failed, savedReports, attestations, cancelled>>

\* The file may have grown since its size was taken.
Read ==
    /\ ScanAt("read")
    /\ IF On = Gone \/ (On # Gone /\ ~WithinLimits(BodySize[On])) THEN Failure
       ELSE /\ scan' = [scan EXCEPT !.pc = "analyze", !.body = On]
            /\ totalBytes' = totalBytes + BodySize[On]
            /\ UNCHANGED <<samples, rewrites, results, failed, savedReports, attestations, cancelled>>

\* A cancelled run reports a root node that it did not explore.  A detection
\* plugin may add findings of its declared rules; one whose detect raises adds
\* none, one whose rules or findings raise as they are listed ends the file.
Analyze ==
    /\ ScanAt("analyze")
    /\ \/ /\ \E found \in BOOLEAN :
               LET f == BodyFacts[scan.body]
                   cut == [f EXCEPT !.outcome = "incomplete"] IN
               scan' = [scan EXCEPT
                   !.pc = IF Providers = {} THEN "judge" ELSE "collect",
                   !.facts = [IF cancelled THEN cut ELSE f EXCEPT !.detections = @ \/ found]]
          /\ UNCHANGED <<samples, rewrites, totalBytes, results, failed, savedReports,
                         attestations, cancelled>>
       \/ Failure

-----------------------------------------------------------------------------
(* AssuranceProviderRunner *)

\* collect: the file must still be the one that was analyzed.
Collect ==
    /\ ScanAt("collect")
    /\ IF On # scan.body THEN Failure
       ELSE /\ To("sandbox")
            /\ UNCHANGED <<samples, rewrites, totalBytes, results, failed,
                           savedReports, attestations, cancelled>>

\* A provider answers on the file it finds; its answer is filed under the
\* digest only if the file is the same afterwards.  A provider that fails
\* leaves the older attestation in its place.
File(kind, value, pc) ==
    /\ To(pc)
    /\ \/ attestations' = [attestations EXCEPT ![kind][scan.body] =
                              IF On = scan.body THEN value ELSE @]
       \/ UNCHANGED attestations
    /\ UNCHANGED <<samples, rewrites, totalBytes, results, failed, savedReports, cancelled>>

Skip(kind, pc) ==
    /\ kind \notin Providers /\ To(pc)
    /\ UNCHANGED <<samples, rewrites, totalBytes, results, failed, savedReports, attestations, cancelled>>

RunSandbox ==
    /\ ScanAt("sandbox")
    /\ \/ Skip("sandbox", "provenance")
       \/ "sandbox" \in Providers
          /\ \E v \in SandboxVerdicts : File("sandbox", v, "provenance")

RunProvenance ==
    /\ ScanAt("provenance")
    /\ \/ Skip("provenance", "authenticode")
       \/ "provenance" \in Providers
          /\ \E v \in {"untrusted", "identified"} : File("provenance", v, "authenticode")

\* It files under the same digest as the provenance command.  Its own timeout
\* is no OSError, RuntimeError or ValueError and ends the file.
RunAuthenticode ==
    /\ ScanAt("authenticode")
    /\ \/ Skip("authenticode", "judge")
       \/ "authenticode" \in Providers /\ (File("provenance", "identified", "judge") \/ Failure)

-----------------------------------------------------------------------------
EvidenceOn(digest) ==
    [malicious |-> "silent", trusted |-> "silent",
     sandbox |-> attestations.sandbox[digest],
     provenance |-> attestations.provenance[digest]]

\* run_static_checks (the rule packs may not load) and evaluate
Judge ==
    /\ ScanAt("judge")
    /\ \/ /\ scan' = [scan EXCEPT !.pc = "report",
                          !.verdict = Verdict(scan.facts, EvidenceOn(scan.body))]
          /\ UNCHANGED <<samples, rewrites, totalBytes, results, failed,
                         savedReports, attestations, cancelled>>
       \/ Failure

SaveReport ==
    /\ ScanAt("report")
    /\ \/ /\ To("quarantine") /\ savedReports' = savedReports \cup {scan.file}
          /\ UNCHANGED <<samples, rewrites, totalBytes, results, failed, attestations, cancelled>>
       \/ Failure

Result(filed) == [path |-> scan.file, digest |-> scan.body,
                  verdict |-> scan.verdict, quarantine |-> filed]

\* The vault takes what the path holds now and not what was analyzed.
Quarantine ==
    /\ ScanAt("quarantine")
    /\ \/ /\ scan.verdict \in {"MALICIOUS", "SUSPICIOUS"} /\ On # Gone
          /\ results' = results \cup {Result(On)} /\ samples' = [samples EXCEPT ![scan.file] = Gone]
          /\ To("next") /\ UNCHANGED <<rewrites, totalBytes, failed, savedReports, attestations, cancelled>>
       \/ /\ scan.verdict \notin {"MALICIOUS", "SUSPICIOUS"}
          /\ results' = results \cup {Result(Gone)}
          /\ To("next") /\ UNCHANGED <<samples, rewrites, totalBytes, failed,
                                       savedReports, attestations, cancelled>>
       \/ scan.verdict \in {"MALICIOUS", "SUSPICIOUS"} /\ Failure

\* The cancel event may be set at any time.
CancelScan ==
    /\ ~cancelled /\ cancelled' = TRUE
    /\ UNCHANGED <<scan, samples, rewrites, totalBytes, results, failed, savedReports, attestations>>

Rewrite ==
    /\ rewrites < MaxRewrites /\ rewrites' = rewrites + 1
    /\ \E i \in Candidates, b \in Bodies \cup {Gone} : samples' = [samples EXCEPT ![i] = b]
    /\ UNCHANGED <<scan, totalBytes, results, failed, savedReports, attestations, cancelled>>

ScanNext ==
    \/ NextSample \/ Stat \/ Read \/ Analyze
    \/ Collect \/ RunSandbox \/ RunProvenance \/ RunAuthenticode
    \/ Judge \/ SaveReport \/ Quarantine
    \/ CancelScan \/ Rewrite

ScanSpec == ScanInit /\ [][ScanNext]_scanVars

-----------------------------------------------------------------------------
(* Properties *)

\* No report, attestation, signature or scanner that is missing turns a file
\* that is not benign into one without malicious evidence: the verdict over
\* the facts of the current file never improves when a piece is taken away.
\* (A malicious-hash list is the exception: assurance.py reads one that
\* cannot be opened as one without the hash.)
LosingEvidenceNeverHelps ==
    ScanAt("report") =>
        LET e == EvidenceOn(scan.body) IN
        scan.verdict # "NO_MALICIOUS_EVIDENCE" =>
            /\ \A less \in LessEvidence(e) : ~Benign(scan.facts, less)
            /\ \A less \in LessReported(scan.facts) : ~Benign(less, e)

\* The bytes analyzed stay within the limit although files grow after their
\* size was taken; every file that was looked at ends either as one result
\* or as one error, and a result has its report on disk; without other
\* writers the vault holds the very content that the verdict is about.
ScanAccounts ==
    /\ totalBytes <= MaxScanTotal
    /\ \A r \in results : r.path \in savedReports /\ r.path \notin failed
    /\ ScanAt("next") \/ ScanAt("done") =>
         failed \cup {r.path : r \in results} = 1 .. scan.file
    /\ ScanAt("done") /\ ~cancelled => scan.file = Cardinality(Candidates)
    /\ rewrites = 0 => \A r \in results : r.quarantine \in {Gone, r.digest}
=============================================================================
