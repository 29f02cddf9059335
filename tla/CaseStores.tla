----------------------------- MODULE CaseStores -----------------------------
(***************************************************************************)
(* The databases that runs of the command line share: the correlation      *)
(* database (titan_decoder/correlation), the older indicator store         *)
(* (core/correlation.py) and the case vault (core/vault.py).  Runs are     *)
(* processes of their own; a step below is one transaction or one file, so *)
(* another run, a prune or a kill can come between any two.                *)
(***************************************************************************)
EXTENDS Naturals, FiniteSets

CONSTANTS
    Runs,               \* concurrent runs; each has an analysis id of its own
    Indicators,
    FoundIn,              \* [Runs -> SUBSET Indicators]: the indicators of a run
    Recording,          \* [Runs -> BOOLEAN]: without --correlation-no-record
    MaxPrunes           \* bound: prunes of the vault

ASSUME StoresAssumption == FoundIn \in [Runs -> SUBSET Indicators]

VARIABLES
    runStage,              \* runStage[r]: what r does next, or ended, failed or killed
    priors,             \* priors[r]: analyses r was compared with
    analyses, fingerprints, timelines,  \* runs in the correlation database
    seen,               \* seen[r]: [analyses, fingerprints, timelines] r reports over
    linked,             \* <<run, indicator>> of the indicator store
    matches,            \* matches[r]: <<run, indicator>> the store told r
    caseFiles,          \* runs with a report file in the vault
    indexed,            \* runs in the vault's index
    known,              \* indicators of the vault
    links,              \* <<run, indicator>> of the vault
    pruned, prunes      \* runs deleted from the index, number of prunes

storeVars == <<runStage, priors, analyses, fingerprints, timelines, seen, linked, matches,
               caseFiles, indexed, known, links, pruned, prunes>>
correlationVars == <<analyses, fingerprints, timelines>>
vaultVars == <<caseFiles, indexed, known, links, pruned, prunes>>

NothingSeen == [analyses |-> {}, fingerprints |-> {}, timelines |-> {}]

StoresInit ==
    /\ runStage = [r \in Runs |-> "compare"]
    /\ priors = [r \in Runs |-> {}] /\ seen = [r \in Runs |-> NothingSeen]
    /\ matches = [r \in Runs |-> {}] /\ linked = {}
    /\ analyses = {} /\ fingerprints = {} /\ timelines = {}
    /\ caseFiles = {} /\ indexed = {} /\ known = {} /\ links = {} /\ pruned = {} /\ prunes = 0

Goes(r, from, to) == runStage[r] = from /\ runStage' = [runStage EXCEPT ![r] = to]

-----------------------------------------------------------------------------
(* analyze_milestone5 *)

\* CorrelationEngine.correlate reads every other analysis before it records.
Compare(r) ==
    /\ Goes(r, "compare", IF Recording[r] THEN "analysis" ELSE "report")
    /\ priors' = [priors EXCEPT ![r] = {s \in analyses \ {r} : FoundIn[s] \cap FoundIn[r] # {}}]
    /\ UNCHANGED <<seen, linked, matches>> /\ UNCHANGED correlationVars /\ UNCHANGED vaultVars

RecordAnalysis(r) ==
    /\ Goes(r, "analysis", "fingerprint") /\ analyses' = analyses \cup {r}
    /\ UNCHANGED <<priors, seen, linked, matches, fingerprints, timelines>> /\ UNCHANGED vaultVars

RecordFingerprint(r) ==
    /\ Goes(r, "fingerprint", "timeline") /\ fingerprints' = fingerprints \cup {r}
    /\ UNCHANGED <<priors, seen, linked, matches, analyses, timelines>> /\ UNCHANGED vaultVars

RecordTimeline(r) ==
    /\ Goes(r, "timeline", "report") /\ timelines' = timelines \cup {r}
    /\ UNCHANGED <<priors, seen, linked, matches, analyses, fingerprints>> /\ UNCHANGED vaultVars

\* Variant: what was found before recording is reported.
ReadBackPriors(r) ==
    /\ Goes(r, "report", "match")
    /\ seen' = [seen EXCEPT ![r] = [analyses |-> priors[r] \cup {r},
                                    fingerprints |-> priors[r] \cup {r},
                                    timelines |-> priors[r] \cup {r}]]
    /\ UNCHANGED <<priors, linked, matches>> /\ UNCHANGED correlationVars /\ UNCHANGED vaultVars

\* Campaigns, reuse and shared payloads are computed over what is stored now,
\* with the subject itself.
ReadBack(r) ==
    /\ Goes(r, "report", "match")
    /\ seen' = [seen EXCEPT ![r] = [analyses |-> analyses \cup {r},
                                    fingerprints |-> fingerprints \cup {r},
                                    timelines |-> timelines \cup {r}]]
    /\ UNCHANGED <<priors, linked, matches>> /\ UNCHANGED correlationVars /\ UNCHANGED vaultVars

\* An sqlite3 error is no OSError, RuntimeError or ValueError: the run ends.
CorrelationFails(r) ==
    /\ runStage[r] \in {"compare", "analysis", "fingerprint", "timeline", "report"}
    /\ runStage' = [runStage EXCEPT ![r] = "failed"]
    /\ UNCHANGED <<priors, seen, linked, matches>> /\ UNCHANGED correlationVars /\ UNCHANGED vaultVars

-----------------------------------------------------------------------------
(* The indicator store: matches first, then one transaction *)

MatchPriors(r) ==
    /\ Goes(r, "match", "link")
    /\ matches' = [matches EXCEPT ![r] = {l \in linked : l[2] \in FoundIn[r]}]
    /\ UNCHANGED <<priors, seen, linked>> /\ UNCHANGED correlationVars /\ UNCHANGED vaultVars

\* Any error is a warning.
LinkIndicators(r) ==
    /\ Goes(r, "link", "save")
    /\ \/ linked' = linked \cup ({r} \X FoundIn[r])
       \/ UNCHANGED linked
    /\ UNCHANGED <<priors, seen, matches>> /\ UNCHANGED correlationVars /\ UNCHANGED vaultVars

-----------------------------------------------------------------------------
(* _vault_store: the report file, then the index *)

SaveCase(r) ==
    /\ Goes(r, "save", "index") /\ caseFiles' = caseFiles \cup {r}
    /\ UNCHANGED <<priors, seen, linked, matches, indexed, known, links, pruned, prunes>>
    /\ UNCHANGED correlationVars

\* Opening a corrupt index is a VaultError: a warning, and the run ends well.
RecordRun(r) ==
    /\ runStage[r] = "index"
    /\ \/ runStage' = [runStage EXCEPT ![r] = "iocs"] /\ indexed' = indexed \cup {r}
       \/ runStage' = [runStage EXCEPT ![r] = "unindexed"] /\ UNCHANGED indexed
    /\ UNCHANGED <<priors, seen, linked, matches, caseFiles, known, links, pruned, prunes>>
    /\ UNCHANGED correlationVars

RecordIocs(r) ==
    /\ Goes(r, "iocs", "ended")
    /\ known' = known \cup FoundIn[r] /\ links' = links \cup ({r} \X FoundIn[r])
    /\ UNCHANGED <<priors, seen, linked, matches, caseFiles, indexed, pruned, prunes>>
    /\ UNCHANGED correlationVars

\* Another sqlite3 error after the open is not caught.
VaultFails(r) ==
    /\ runStage[r] \in {"index", "iocs"} /\ runStage' = [runStage EXCEPT ![r] = "failed"]
    /\ UNCHANGED <<priors, seen, linked, matches>> /\ UNCHANGED correlationVars /\ UNCHANGED vaultVars
\* prune_days: the runs of the index that are old enough, then the links of no
\* run, then the indicators of no link.  The report files stay.
Prune ==
    /\ prunes < MaxPrunes /\ prunes' = prunes + 1
    /\ \E old \in SUBSET indexed \ {{}} :
         /\ indexed' = indexed \ old /\ pruned' = pruned \cup old
         /\ links' = {l \in links : l[1] \in indexed'}
         /\ known' = known \cap {l[2] : l \in links'}
    /\ UNCHANGED <<runStage, priors, seen, linked, matches, caseFiles>> /\ UNCHANGED correlationVars

KillRun(r) ==
    /\ runStage[r] \notin {"ended", "unindexed", "failed", "killed"}
    /\ runStage' = [runStage EXCEPT ![r] = "killed"]
    /\ UNCHANGED <<priors, seen, linked, matches>> /\ UNCHANGED correlationVars /\ UNCHANGED vaultVars

StoresNext ==
    \/ \E r \in Runs :
         \/ Compare(r) \/ RecordAnalysis(r) \/ RecordFingerprint(r) \/ RecordTimeline(r)
         \/ ReadBack(r) \/ CorrelationFails(r)
         \/ MatchPriors(r) \/ LinkIndicators(r)
         \/ SaveCase(r) \/ RecordRun(r) \/ RecordIocs(r) \/ VaultFails(r) \/ KillRun(r)
    \/ Prune

StoresSpec == StoresInit /\ [][StoresNext]_storeVars

\* search_value: indicators joined with links joined with runs.
SearchVault(i) == IF i \in known THEN {r \in indexed : <<r, i>> \in links} ELSE {}

-----------------------------------------------------------------------------
(* Properties *)

HasReported(r) == seen[r].analyses # {}

\* Of two concurrent runs that both record themselves and get their sections,
\* one at least reports over both, in each of the three tables, although
\* neither may have found the other among the prior analyses; and a run that
\* stored its case and was not pruned is found under each of its indicators
\* with its report on disk, whatever others stored and pruned.
CasesConnected ==
    /\ \A r, s \in Runs :
         r # s /\ HasReported(r) /\ HasReported(s) /\ Recording[r] /\ Recording[s] =>
           \A table \in {"analyses", "fingerprints", "timelines"} :
             s \in seen[r][table] \/ r \in seen[s][table]
    /\ \A r \in Runs : runStage[r] = "ended" /\ r \notin pruned =>
         r \in caseFiles /\ \A i \in FoundIn[r] : r \in SearchVault(i)
=============================================================================
