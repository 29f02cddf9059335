--------------------------- MODULE JudgementProofs ---------------------------
(***************************************************************************)
(* How a run comes to its findings: the plugins that may add some, the     *)
(* rules, YARA and the risk score of a report, and the verdict of a deep   *)
(* scan.  For any packages, dependencies and collisions what is active may *)
(* run; for any reports, packs, plugins and YARA rules a judgement is      *)
(* sound; for any files, providers and rewrites by other programs a        *)
(* verdict never gains from missing evidence; and for any evidence files   *)
(* the indicators and links of a report stand for exactly what they hold.  *)
(*                                                                         *)
(* What a fold computes is shown by induction over its sequence, with one  *)
(* instance of FoldInduction for each fold.                                *)
(***************************************************************************)
EXTENDS DeepScan, PluginManager, Judgement, EvidenceFiles,
        FiniteSetTheorems, SequenceTheorems, TLAPS

(***************************************************************************)
(* The verdict.  A benign one needs every control, so it can be written as *)
(* a conjunction; each conjunct can only become false when a piece of what *)
(* it rests on is taken away.                                              *)
(***************************************************************************)
StaticPassed(f, e) ==
    /\ ~HashListed(e.malicious, f)
    /\ f.static /\ f.yara # "unavailable" /\ f.yara # "matched"
    /\ ~f.detections /\ ~f.signals
DynamicPassed(f, e) == f.active => Attested(e.sandbox, f) = "clean"
ProvenancePassed(f, e) ==
    HashListed(e.trusted, f) \/ Attested(e.provenance, f) = "identified"

AllPassed(f, e) ==
    /\ f.outcome = "complete" /\ ~f.opaque /\ ~f.foreign
    /\ StaticPassed(f, e) /\ DynamicPassed(f, e) /\ ProvenancePassed(f, e)

\* A verdict is benign exactly when the controls of assurance.py all pass.
LEMMA BenignIsAllPassed ==
  ASSUME NEW f, f \in Facts, NEW e
  PROVE  Benign(f, e) <=> AllPassed(f, e)
<1> USE DEF Control, Passed, Failed, Unavailable
<1> DEFINE Fine(c) == c.state \in {"pass", "not_applicable"} /\ c.disposition = "none"
<1>1. Fine(DecodingControl(f)) <=> f.outcome = "complete"
  BY DEF DecodingControl
<1>2. f.outcome = "complete" => (Fine(FormatControl(f)) <=> ~f.opaque /\ ~f.foreign)
  BY DEF FormatControl
<1>3. f.outcome = "complete" => (Fine(OpaqueControl(f)) <=> ~f.opaque)
  BY DEF OpaqueControl
<1>4. Fine(StaticControl(f, e)) <=> StaticPassed(f, e)
  BY DEF StaticControl, StaticPassed
<1>5. Fine(DynamicControl(f, e)) <=> DynamicPassed(f, e)
  BY DEF DynamicControl, DynamicPassed
<1>6. Fine(ProvenanceControl(f, e)) <=> ProvenancePassed(f, e)
  BY DEF ProvenanceControl, ProvenancePassed
<1>7. \A c \in Controls(f, e) :
         c.disposition \in {"none", "malicious", "suspicious"}
  BY DEF Controls, DecodingControl, FormatControl, OpaqueControl, StaticControl,
         DynamicControl, ProvenanceControl
<1>8. Benign(f, e) <=> \A c \in Controls(f, e) : Fine(c)
  BY <1>7 DEF Benign, Verdict
<1> QED
  BY <1>1, <1>2, <1>3, <1>4, <1>5, <1>6, <1>8 DEF Controls, AllPassed

\* The verdict of evaluate is benign for no poorer facts or evidence, unless
\* it was benign before.
THEOREM VerdictMonotone ==
  ASSUME NEW f \in ReportFacts, NEW e \in Evidence, ~Benign(f, e)
  PROVE  /\ \A less \in LessEvidence(e) : ~Benign(f, less)
         /\ \A less \in LessReported(f) : ~Benign(less, e)
<1> USE DEF Attested, HashListed
<1>1. f \in Facts /\ ~AllPassed(f, e)
  BY BenignIsAllPassed DEF ReportFacts
<1>2. ASSUME NEW less \in LessEvidence(e) PROVE ~Benign(f, less)
  <2>1. /\ less.malicious = e.malicious
        /\ less.trusted \in {e.trusted, "unreadable"}
        /\ less.sandbox \in {e.sandbox, "none", "foreign"}
        /\ less.provenance \in {e.provenance, "none", "foreign"}
    BY DEF LessEvidence, Evidence
  <2>2. AllPassed(f, less) => AllPassed(f, e)
    BY <2>1 DEF AllPassed, StaticPassed, DynamicPassed, ProvenancePassed
  <2> QED
    BY <1>1, <2>2, BenignIsAllPassed
<1>3. ASSUME NEW less \in LessReported(f) PROVE ~Benign(less, e)
  <2>1. /\ less \in Facts
        /\ less.root = f.root /\ less.foreign = f.foreign
        /\ less.detections = f.detections /\ less.active = f.active
        /\ less.outcome \in {f.outcome, "none", "incomplete"}
        /\ less.outcome = "complete" => less.opaque = f.opaque
        /\ less.static => f.static /\ less.signals = f.signals
                          /\ less.yara \in {f.yara, "unavailable"}
    BY <1>1 DEF LessReported, Facts
  <2>2. AllPassed(less, e) => AllPassed(f, e)
    BY <2>1 DEF AllPassed, StaticPassed, DynamicPassed, ProvenancePassed
  <2> QED
    BY <1>1, <2>1, <2>2, BenignIsAllPassed
<1> QED
  BY <1>2, <1>3

(***************************************************************************)
(* The scan.  What the properties rest on: where the loop stands, what the *)
(* current file's locals are worth there, and that the bytes read are      *)
(* still in the file as long as no other program has written.              *)
(***************************************************************************)
Before == {"next", "done"}
NothingHeld == {"stat", "read"}
FileRead == {"analyze"}
Judging == {"collect", "sandbox", "provenance", "authenticode", "judge"}
Judged == {"report", "quarantine"}

ScanTypes ==
    /\ scan \in [pc : Before \cup NothingHeld \cup FileRead \cup Judging \cup Judged,
                 file : {0} \cup Candidates, body : Bodies \cup {Gone},
                 facts : Facts, verdict : Verdicts]
    /\ samples \in [Candidates -> Bodies \cup {Gone}]
    /\ rewrites \in Nat /\ totalBytes \in Nat /\ cancelled \in BOOLEAN
    /\ attestations \in [sandbox : [Bodies -> SandboxFiles],
                         provenance : [Bodies -> ProvenanceFiles]]

\* The verdict is the one over the facts and the evidence of the current file.
JudgedHere ==
    /\ scan.pc \notin Before => scan.file \in Candidates
    /\ scan.pc \in FileRead \cup Judging \cup Judged => scan.body \in Bodies
    /\ scan.pc \in Judging \cup Judged => scan.facts \in ReportFacts
    /\ scan.pc \in Judged => scan.verdict = Verdict(scan.facts, EvidenceOn(scan.body))

PathsRead == {r.path : r \in results}

\* Files up to the current one are accounted for, once.
Accounted ==
    /\ failed \cup PathsRead = IF scan.pc \in Before THEN 1 .. scan.file ELSE 1 .. (scan.file - 1)
    /\ failed \cap PathsRead = {}
    /\ PathsRead \subseteq savedReports
    /\ scan.pc = "quarantine" => scan.file \in savedReports
    /\ scan.pc = "done" /\ ~cancelled => scan.file + 1 \notin Candidates

Untouched ==
    /\ totalBytes <= MaxScanTotal
    /\ rewrites = 0 =>
         /\ \A r \in results : r.quarantine \in {Gone, r.digest}
         /\ scan.pc \in FileRead \cup Judging \cup Judged => On = scan.body

ScanInv == ScanTypes /\ JudgedHere /\ Accounted /\ Untouched

LEMMA NoFactsAreFacts == NoFacts \in ReportFacts
<1> DEFINE f == [outcome |-> "none", opaque |-> FALSE, foreign |-> FALSE, root |-> FALSE,
                 static |-> FALSE, yara |-> "off", detections |-> FALSE,
                 signals |-> FALSE, active |-> FALSE]
<1>1. f \in ReportFacts /\ f.outcome = "none" /\ ~f.root /\ ~f.static
  BY DEF ReportFacts, Facts
<1> QED
  BY <1>1 DEF NoFacts

LEMMA CandidatesAre ==
  /\ Candidates \subseteq Nat \ {0}
  /\ \A n \in Candidates : 1 .. n \subseteq Candidates
  /\ 1 \in Candidates
  BY DeepScanAssumption DEF Candidates

LEMMA ScanInvInit == ScanInit => ScanInv
<1> SUFFICES ASSUME ScanInit PROVE ScanInv
  OBVIOUS
<1>1. ScanTypes
  BY NoFactsAreFacts, DeepScanAssumption
  DEF ScanInit, ScanTypes, Before, ReportFacts, Verdicts, SandboxFiles, ProvenanceFiles
<1>2. JudgedHere
  BY DEF ScanInit, JudgedHere, Before, FileRead, Judging, Judged
<1>3. Accounted
  BY DEF ScanInit, Accounted, Before, PathsRead
<1>4. Untouched
  BY DeepScanAssumption DEF ScanInit, Untouched, FileRead, Judging, Judged
<1> QED
  BY <1>1, <1>2, <1>3, <1>4 DEF ScanInv

(* A file dropped to the errors. *)
LEMMA FailureKeeps ==
  ASSUME ScanInv, scan.pc \notin Before, Failure
  PROVE  ScanInv'
<1> USE DEF Failure, To
<1>0. scan.file \in Candidates /\ scan.file \in Nat \ {0}
  BY CandidatesAre DEF ScanInv, JudgedHere
<1>1. ScanTypes'
  BY DEF ScanInv, ScanTypes, Before
<1>2. scan' = [scan EXCEPT !.pc = "next"] /\ scan'.pc = "next" /\ scan'.file = scan.file
  BY DEF ScanInv, ScanTypes
<1>3. JudgedHere'
  BY <1>2 DEF JudgedHere, Before, FileRead, Judging, Judged
<1>4. Accounted'
  <2>1. PathsRead' = PathsRead /\ scan.file \notin PathsRead
    BY <1>0 DEF ScanInv, Accounted, PathsRead
  <2>2. 1 .. scan.file = (1 .. (scan.file - 1)) \cup {scan.file}
    BY <1>0
  <2> QED
    BY <1>0, <1>2, <2>1, <2>2 DEF ScanInv, Accounted, Before
<1>5. Untouched'
  BY <1>2 DEF ScanInv, Untouched, FileRead, Judging, Judged
<1> QED
  BY <1>1, <1>3, <1>4, <1>5 DEF ScanInv

(* A step that only moves the loop on, within the file that was judged. *)
LEMMA MoveKeeps ==
  ASSUME ScanInv, NEW pc \in Judging \cup {"read"}, scan.pc \notin Before,
         scan.pc \notin Judged, pc \in Judging => scan.pc \in Judging, To(pc),
         UNCHANGED <<samples, rewrites, totalBytes, results, failed, savedReports, cancelled>>,
         \/ UNCHANGED attestations
         \/ attestations' \in [sandbox : [Bodies -> SandboxFiles],
                               provenance : [Bodies -> ProvenanceFiles]]
  PROVE  ScanInv'
<1>1. /\ scan' = [scan EXCEPT !.pc = pc] /\ scan'.pc = pc /\ scan'.file = scan.file
      /\ scan'.body = scan.body /\ scan'.facts = scan.facts
  BY DEF ScanInv, ScanTypes, To
<1>2. ScanTypes'
  BY DEF ScanInv, ScanTypes, To, NothingHeld
<1>3. JudgedHere'
  BY <1>1 DEF ScanInv, JudgedHere, Before, NothingHeld, FileRead, Judging, Judged
<1>4. Accounted'
  BY <1>1 DEF ScanInv, Accounted, Before, Judging, Judged, PathsRead
<1>5. Untouched'
  BY <1>1 DEF ScanInv, Untouched, FileRead, Judging, Judged, On
<1> QED
  BY <1>2, <1>3, <1>4, <1>5 DEF ScanInv

LEMMA NextSampleKeeps == ScanInv /\ NextSample => ScanInv'
<1> SUFFICES ASSUME ScanInv, NextSample PROVE ScanInv'
  OBVIOUS
<1> USE DEF NextSample, ScanAt, To
<1>0. scan.pc = "next" /\ scan.file \in Nat
  BY CandidatesAre DEF ScanInv, ScanTypes
<1>1. CASE cancelled \/ scan.file + 1 \notin Candidates
  <2>1. scan' = [scan EXCEPT !.pc = "done"] /\ scan'.pc = "done" /\ scan'.file = scan.file
    BY <1>1 DEF ScanInv, ScanTypes
  <2>2. ScanTypes'
    BY <1>1 DEF ScanInv, ScanTypes, Before
  <2>3. JudgedHere' /\ Untouched'
    BY <2>1 DEF ScanInv, JudgedHere, Untouched, Before, FileRead, Judging, Judged
  <2>4. Accounted'
    BY <1>0, <1>1, <2>1 DEF ScanInv, Accounted, Before, PathsRead
  <2> QED
    BY <2>2, <2>3, <2>4 DEF ScanInv
<1>2. CASE ~(cancelled \/ scan.file + 1 \notin Candidates)
  <2>1. /\ scan' = [scan EXCEPT !.pc = "stat", !.file = scan.file + 1]
        /\ scan'.pc = "stat" /\ scan'.file = scan.file + 1
    BY <1>2 DEF ScanInv, ScanTypes
  <2>2. ScanTypes'
    BY <1>2 DEF ScanInv, ScanTypes, NothingHeld
  <2>3. JudgedHere' /\ Untouched'
    BY <1>2, <2>1 DEF ScanInv, JudgedHere, Untouched, Before, FileRead, Judging, Judged
  <2>4. scan'.file - 1 = scan.file
    BY <1>0, <2>1
  <2>5. Accounted'
    BY <1>0, <2>1, <2>4 DEF ScanInv, Accounted, Before, PathsRead
  <2> QED
    BY <2>2, <2>3, <2>5 DEF ScanInv
<1> QED
  BY <1>1, <1>2

LEMMA StatKeeps == ScanInv /\ Stat => ScanInv'
<1> SUFFICES ASSUME ScanInv, Stat PROVE ScanInv'
  OBVIOUS
<1>1. scan.pc = "stat" /\ scan.pc \notin Before /\ scan.pc \notin Judged
  BY DEF Stat, ScanAt, Before, Judged
<1> QED
  BY <1>1, FailureKeeps, MoveKeeps DEF Stat, Judging

LEMMA ReadKeeps == ScanInv /\ Read => ScanInv'
<1> SUFFICES ASSUME ScanInv, Read PROVE ScanInv'
  OBVIOUS
<1>1. scan.pc = "read" /\ scan.pc \notin Before
  BY DEF Read, ScanAt, Before
<1>2. CASE On = Gone \/ (On # Gone /\ ~WithinLimits(BodySize[On]))
  BY <1>1, <1>2, FailureKeeps DEF Read
<1>3. CASE ~(On = Gone \/ (On # Gone /\ ~WithinLimits(BodySize[On])))
  <2>1. /\ scan' = [scan EXCEPT !.pc = "analyze", !.body = On]
        /\ totalBytes' = totalBytes + BodySize[On]
        /\ UNCHANGED <<samples, rewrites, results, failed, savedReports, attestations, cancelled>>
    BY <1>3 DEF Read
  <2>2. On \in Bodies /\ BodySize[On] \in Nat /\ totalBytes + BodySize[On] <= MaxScanTotal
    BY <1>1, <1>3, DeepScanAssumption DEF ScanInv, ScanTypes, JudgedHere, On, WithinLimits
  <2>3. /\ scan'.pc = "analyze" /\ scan'.file = scan.file /\ scan'.body = On
        /\ scan'.facts = scan.facts
    BY <2>1 DEF ScanInv, ScanTypes
  <2>4. ScanTypes'
    <3> DEFINE bytes == BodySize[On]
    <3>1. totalBytes + bytes \in Nat
      BY <2>2 DEF ScanInv, ScanTypes
    <3>2. totalBytes' \in Nat
      BY <2>1, <3>1
    <3>3. scan' \in [pc : Before \cup NothingHeld \cup FileRead \cup Judging \cup Judged,
                     file : {0} \cup Candidates, body : Bodies \cup {Gone},
                     facts : Facts, verdict : Verdicts]
      BY <2>1, <2>2 DEF ScanInv, ScanTypes, FileRead
    <3> QED
      BY <2>1, <3>2, <3>3 DEF ScanInv, ScanTypes
  <2>5. JudgedHere'
    BY <1>1, <2>2, <2>3 DEF ScanInv, JudgedHere, Before, FileRead, Judging, Judged
  <2>6. Accounted'
    BY <1>1, <2>1, <2>3 DEF ScanInv, Accounted, Before, PathsRead
  <2>7. Untouched'
    BY <2>1, <2>2, <2>3 DEF ScanInv, Untouched, On
  <2> QED
    BY <2>4, <2>5, <2>6, <2>7 DEF ScanInv
<1> QED
  BY <1>2, <1>3

LEMMA AnalyzeKeeps == ScanInv /\ Analyze => ScanInv'
<1> SUFFICES ASSUME ScanInv, Analyze PROVE ScanInv'
  OBVIOUS
<1>1. scan.pc = "analyze" /\ scan.body \in Bodies
  BY DEF Analyze, ScanAt, ScanInv, JudgedHere, FileRead
<1>0. CASE Failure
  BY <1>0, <1>1, FailureKeeps DEF Before
<1>00. SUFFICES ASSUME ~Failure PROVE ScanInv'
  BY <1>0
<1>2. PICK found \in BOOLEAN :
        LET f == BodyFacts[scan.body]
            cut == [f EXCEPT !.outcome = "incomplete"] IN
        scan' = [scan EXCEPT
            !.pc = IF Providers = {} THEN "judge" ELSE "collect",
            !.facts = [IF cancelled THEN cut ELSE f EXCEPT !.detections = @ \/ found]]
  BY <1>00 DEF Analyze
<1> DEFINE f == BodyFacts[scan.body]
           seen == IF cancelled THEN [f EXCEPT !.outcome = "incomplete"] ELSE f
           facts == [seen EXCEPT !.detections = @ \/ found]
           pc == IF Providers = {} THEN "judge" ELSE "collect"
<1>3. f \in ReportFacts
  BY <1>1, DeepScanAssumption
<1>4. seen \in ReportFacts
  BY <1>3 DEF ReportFacts, Facts
<1>5. facts \in ReportFacts
  <2> HIDE DEF seen
  <2>1. seen \in Facts /\ seen.detections \in BOOLEAN
    BY <1>4 DEF ReportFacts, Facts
  <2>2. (seen.detections \/ found) \in BOOLEAN
    BY <2>1
  <2> QED
    BY <1>4, <2>1, <2>2 DEF ReportFacts, Facts
<1> HIDE DEF f, seen, facts
<1>6. scan' = [scan EXCEPT !.pc = pc, !.facts = facts]
  BY <1>2 DEF f, seen, facts
<1>7. /\ scan'.pc = pc /\ scan'.file = scan.file /\ scan'.body = scan.body
      /\ scan'.facts = facts /\ pc \in Judging
  BY <1>6 DEF ScanInv, ScanTypes, Judging
<1>8. UNCHANGED <<samples, rewrites, totalBytes, results, failed, savedReports,
                  attestations, cancelled>>
  BY <1>00 DEF Analyze
<1>9. ScanTypes'
  BY <1>5, <1>6, <1>7, <1>8 DEF ScanInv, ScanTypes, ReportFacts
<1>10. JudgedHere'
  BY <1>1, <1>5, <1>7 DEF ScanInv, JudgedHere, Before, Judging, Judged, FileRead
<1>11. Accounted'
  BY <1>1, <1>7, <1>8 DEF ScanInv, Accounted, Before, Judging, PathsRead
<1>12. Untouched'
  BY <1>1, <1>7, <1>8 DEF ScanInv, Untouched, FileRead, On
<1> QED
  BY <1>9, <1>10, <1>11, <1>12 DEF ScanInv

LEMMA CollectKeeps == ScanInv /\ Collect => ScanInv'
<1> SUFFICES ASSUME ScanInv, Collect PROVE ScanInv'
  OBVIOUS
<1>1. scan.pc = "collect" /\ scan.pc \notin Before /\ scan.pc \in Judging /\ scan.pc \notin Judged
  BY DEF Collect, ScanAt, Before, Judging, Judged
<1> QED
  BY <1>1, FailureKeeps, MoveKeeps DEF Collect, Judging

LEMMA FileKeeps ==
  ASSUME ScanInv, scan.pc \in Judging,
         NEW kind \in {"sandbox", "provenance"}, NEW pc \in Judging,
         NEW value \in IF kind = "sandbox" THEN SandboxFiles ELSE ProvenanceFiles,
         File(kind, value, pc)
  PROVE  ScanInv'
<1>1. scan.pc \notin Before /\ scan.pc \notin Judged
  BY DEF Before, Judging, Judged
<1>2. To(pc) /\ UNCHANGED <<samples, rewrites, totalBytes, results, failed, savedReports, cancelled>>
  BY DEF File
<1>3. \/ UNCHANGED attestations
      \/ attestations' \in [sandbox : [Bodies -> SandboxFiles],
                            provenance : [Bodies -> ProvenanceFiles]]
  <2> SUFFICES ASSUME attestations' = [attestations EXCEPT ![kind][scan.body] =
                                         IF On = scan.body THEN value ELSE @]
               PROVE  attestations' \in [sandbox : [Bodies -> SandboxFiles],
                                         provenance : [Bodies -> ProvenanceFiles]]
    BY DEF File
  <2> DEFINE old == attestations[kind]
             new == [old EXCEPT ![scan.body] = IF On = scan.body THEN value ELSE @]
  <2>1. attestations \in [sandbox : [Bodies -> SandboxFiles],
                          provenance : [Bodies -> ProvenanceFiles]]
    BY DEF ScanInv, ScanTypes
  <2>2. old \in [Bodies -> IF kind = "sandbox" THEN SandboxFiles ELSE ProvenanceFiles]
    BY <2>1
  <2>3. new \in [Bodies -> IF kind = "sandbox" THEN SandboxFiles ELSE ProvenanceFiles]
    <3> HIDE DEF old
    <3> QED
      BY <2>2
  <2>4. attestations' = [attestations EXCEPT ![kind] = new]
    OBVIOUS
  <2> HIDE DEF new
  <2>5. CASE kind = "sandbox"
    BY <2>1, <2>3, <2>4, <2>5
  <2>6. CASE kind = "provenance"
    BY <2>1, <2>3, <2>4, <2>6
  <2> QED
    BY <2>5, <2>6
<1> QED
  BY <1>1, <1>2, <1>3, MoveKeeps

LEMMA ProvidersKeep == ScanInv /\ (RunSandbox \/ RunProvenance \/ RunAuthenticode) => ScanInv'
<1> SUFFICES ASSUME ScanInv, RunSandbox \/ RunProvenance \/ RunAuthenticode PROVE ScanInv'
  OBVIOUS
<1>1. scan.pc \in Judging /\ scan.pc \notin Before /\ scan.pc \notin Judged
  BY DEF RunSandbox, RunProvenance, RunAuthenticode, ScanAt, Before, Judging, Judged
<1>2. ASSUME NEW kind, NEW pc \in Judging, Skip(kind, pc) PROVE ScanInv'
  BY <1>1, <1>2, MoveKeeps DEF Skip
<1>3. CASE RunSandbox
  <2>1. ASSUME NEW v \in SandboxVerdicts, File("sandbox", v, "provenance") PROVE ScanInv'
    BY <1>1, <2>1, FileKeeps DEF SandboxVerdicts, SandboxFiles, Judging
  <2> QED
    BY <1>2, <1>3, <2>1 DEF RunSandbox, Judging
<1>4. CASE RunProvenance
  <2>1. ASSUME NEW v \in {"untrusted", "identified"}, File("provenance", v, "authenticode")
        PROVE  ScanInv'
    BY <1>1, <2>1, FileKeeps DEF ProvenanceFiles, Judging
  <2> QED
    BY <1>2, <1>4, <2>1 DEF RunProvenance, Judging
<1>5. CASE RunAuthenticode
  <2>1. ASSUME File("provenance", "identified", "judge") PROVE ScanInv'
    BY <1>1, <2>1, FileKeeps DEF ProvenanceFiles, Judging
  <2> QED
    BY <1>1, <1>2, <1>5, <2>1, FailureKeeps DEF RunAuthenticode, Judging
<1> QED
  BY <1>3, <1>4, <1>5

LEMMA JudgeKeeps == ScanInv /\ Judge => ScanInv'
<1> SUFFICES ASSUME ScanInv, Judge PROVE ScanInv'
  OBVIOUS
<1>1. scan.pc = "judge" /\ scan.pc \notin Before /\ scan.pc \in Judging
  BY DEF Judge, ScanAt, Before, Judging
<1>2. CASE Failure
  BY <1>1, <1>2, FailureKeeps
<1>3. CASE ~Failure
  <2> DEFINE verdict == Verdict(scan.facts, EvidenceOn(scan.body))
  <2>1. /\ scan' = [scan EXCEPT !.pc = "report", !.verdict = verdict]
        /\ UNCHANGED <<samples, rewrites, totalBytes, results, failed,
                       savedReports, attestations, cancelled>>
    BY <1>3 DEF Judge
  <2>2. verdict \in Verdicts
    BY DEF Verdict, Verdicts
  <2>3. /\ scan'.pc = "report" /\ scan'.file = scan.file /\ scan'.body = scan.body
        /\ scan'.facts = scan.facts /\ scan'.verdict = verdict
    BY <2>1 DEF ScanInv, ScanTypes
  <2>4. ScanTypes'
    <3> HIDE DEF verdict
    <3> QED
      BY <2>1, <2>2 DEF ScanInv, ScanTypes, Judged
  <2>5. JudgedHere'
    BY <1>1, <2>1, <2>3 DEF ScanInv, JudgedHere, Before, FileRead, Judging, Judged, EvidenceOn
  <2>6. Accounted'
    BY <1>1, <2>1, <2>3 DEF ScanInv, Accounted, Before, Judged, PathsRead
  <2>7. Untouched'
    BY <1>1, <2>1, <2>3 DEF ScanInv, Untouched, FileRead, Judging, Judged, On
  <2> QED
    BY <2>4, <2>5, <2>6, <2>7 DEF ScanInv
<1> QED
  BY <1>2, <1>3

LEMMA SaveReportKeeps == ScanInv /\ SaveReport => ScanInv'
<1> SUFFICES ASSUME ScanInv, SaveReport PROVE ScanInv'
  OBVIOUS
<1>1. scan.pc = "report" /\ scan.pc \notin Before /\ scan.pc \in Judged
  BY DEF SaveReport, ScanAt, Before, Judged
<1>2. CASE Failure
  BY <1>1, <1>2, FailureKeeps
<1>3. CASE ~Failure
  <2>1. /\ scan' = [scan EXCEPT !.pc = "quarantine"]
        /\ savedReports' = savedReports \cup {scan.file}
        /\ UNCHANGED <<samples, rewrites, totalBytes, results, failed, attestations, cancelled>>
    BY <1>3 DEF SaveReport, To
  <2>2. /\ scan'.pc = "quarantine" /\ scan'.file = scan.file /\ scan'.body = scan.body
        /\ scan'.facts = scan.facts /\ scan'.verdict = scan.verdict
    BY <2>1 DEF ScanInv, ScanTypes
  <2>3. ScanTypes'
    BY <2>1 DEF ScanInv, ScanTypes, Judged
  <2>4. JudgedHere'
    BY <1>1, <2>1, <2>2 DEF ScanInv, JudgedHere, Before, FileRead, Judging, Judged, EvidenceOn
  <2>5. Accounted'
    BY <1>1, <2>1, <2>2 DEF ScanInv, Accounted, Before, PathsRead
  <2>6. Untouched'
    BY <1>1, <2>1, <2>2 DEF ScanInv, Untouched, Judged, On
  <2> QED
    BY <2>3, <2>4, <2>5, <2>6 DEF ScanInv
<1> QED
  BY <1>2, <1>3

(* The file's one result.  What was filed is the file, or nothing. *)
LEMMA ResultKeeps ==
  ASSUME ScanInv, scan.pc = "quarantine",
         NEW filed \in {Gone, On}, results' = results \cup {Result(filed)}, To("next"),
         \/ UNCHANGED samples
         \/ samples' = [samples EXCEPT ![scan.file] = Gone],
         UNCHANGED <<rewrites, totalBytes, failed, savedReports, attestations, cancelled>>
  PROVE  ScanInv'
<1>1. scan.pc \notin Before /\ scan.pc \in Judged
  BY DEF Before, Judged
<1>2. scan.file \in Candidates /\ scan.file \in Nat \ {0}
  BY <1>1, CandidatesAre DEF ScanInv, JudgedHere
<1>3. scan' = [scan EXCEPT !.pc = "next"] /\ scan'.pc = "next" /\ scan'.file = scan.file
  BY DEF ScanInv, ScanTypes, To
<1>4. ScanTypes'
  BY <1>2, <1>3 DEF ScanInv, ScanTypes, Before
<1>5. JudgedHere'
  BY <1>3 DEF JudgedHere, Before, FileRead, Judging, Judged
<1>6. Accounted'
  <2>1. PathsRead' = PathsRead \cup {scan.file}
    <3> DEFINE new == Result(filed)
    <3>1. new.path = scan.file
      BY DEF Result
    <3> HIDE DEF new
    <3>2. results' = results \cup {new}
      BY DEF new
    <3>3. {r.path : r \in results \cup {new}} = {r.path : r \in results} \cup {new.path}
      OBVIOUS
    <3> QED
      BY <3>1, <3>2, <3>3 DEF PathsRead
  <2>2. failed \cup PathsRead = 1 .. (scan.file - 1) /\ failed \cap PathsRead = {}
        /\ PathsRead \subseteq savedReports /\ scan.file \in savedReports
    BY <1>1 DEF ScanInv, Accounted
  <2>3. scan.file \notin failed
    BY <1>2, <2>2
  <2>4. 1 .. scan.file = (1 .. (scan.file - 1)) \cup {scan.file}
    BY <1>2
  <2> QED
    BY <1>3, <2>1, <2>2, <2>3, <2>4 DEF Accounted, Before
<1>7. Untouched'
  <2>1. rewrites = 0 => On = scan.body
    BY <1>1 DEF ScanInv, Untouched
  <2>2. Result(filed).quarantine = filed /\ Result(filed).digest = scan.body
    BY DEF Result
  <2>3. rewrites = 0 => \A r \in results' : r.quarantine \in {Gone, r.digest}
    BY <2>1, <2>2 DEF ScanInv, Untouched
  <2> QED
    BY <1>3, <2>3 DEF ScanInv, Untouched, FileRead, Judging, Judged
<1> QED
  BY <1>4, <1>5, <1>6, <1>7 DEF ScanInv

LEMMA QuarantineKeeps == ScanInv /\ Quarantine => ScanInv'
<1> SUFFICES ASSUME ScanInv, Quarantine PROVE ScanInv'
  OBVIOUS
<1>1. scan.pc = "quarantine" /\ scan.pc \notin Before
  BY DEF Quarantine, ScanAt, Before
<1> QED
  BY <1>1, FailureKeeps, ResultKeeps DEF Quarantine

LEMMA OthersKeep == ScanInv /\ (CancelScan \/ Rewrite \/ UNCHANGED scanVars) => ScanInv'
<1> SUFFICES ASSUME ScanInv, CancelScan \/ Rewrite \/ UNCHANGED scanVars PROVE ScanInv'
  OBVIOUS
<1> USE DEF ScanInv, ScanTypes, JudgedHere, Accounted, Untouched, PathsRead, EvidenceOn, On
<1>1. CASE CancelScan
  BY <1>1 DEF CancelScan
<1>2. CASE Rewrite
  BY <1>2 DEF Rewrite
<1>3. CASE UNCHANGED scanVars
  BY <1>3 DEF scanVars
<1> QED
  BY <1>1, <1>2, <1>3

LEMMA ScanInvStep == ScanInv /\ [ScanNext]_scanVars => ScanInv'
  BY NextSampleKeeps, StatKeeps, ReadKeeps, AnalyzeKeeps, CollectKeeps, ProvidersKeep,
     JudgeKeeps, SaveReportKeeps, QuarantineKeeps, OthersKeep
  DEF ScanNext

LEMMA ScanInvariant == ScanSpec => []ScanInv
  BY ScanInvInit, ScanInvStep, PTL DEF ScanSpec

\* assurance.py, at the end of every file of every scan: evidence that is
\* missing never makes a verdict benign that was not.
THEOREM ScanNeverGains == ScanSpec => []LosingEvidenceNeverHelps
<1>1. ScanInv => LosingEvidenceNeverHelps
  <2> SUFFICES ASSUME ScanInv, scan.pc = "report", scan.verdict # "NO_MALICIOUS_EVIDENCE"
               PROVE  LET e == EvidenceOn(scan.body) IN
                      /\ \A less \in LessEvidence(e) : ~Benign(scan.facts, less)
                      /\ \A less \in LessReported(scan.facts) : ~Benign(less, e)
    BY DEF LosingEvidenceNeverHelps, ScanAt
  <2>1. scan.body \in Bodies /\ scan.facts \in ReportFacts
    BY DEF ScanInv, JudgedHere, Judged
  <2>2. EvidenceOn(scan.body) \in Evidence
    BY <2>1 DEF ScanInv, ScanTypes, EvidenceOn, Evidence, Lists
  <2>3. ~Benign(scan.facts, EvidenceOn(scan.body))
    BY DEF ScanInv, JudgedHere, Judged, Benign
  <2> QED
    BY <2>1, <2>2, <2>3, VerdictMonotone
<1> QED
  BY <1>1, ScanInvariant, PTL

\* DeepScanner.scan: the byte limit holds although files grow, every file
\* ends once, as a result with its report or as an error, a scan that was not
\* cancelled reaches the last file, and what is quarantined is what was judged
\* unless another program wrote.
THEOREM ScanIsAccounted == ScanSpec => []ScanAccounts
<1>1. ScanInv => ScanAccounts
  <2> SUFFICES ASSUME ScanInv PROVE ScanAccounts
    OBVIOUS
  <2>1. \A r \in results : r.path \in PathsRead
    BY DEF PathsRead
  <2>2. \A r \in results : r.path \in savedReports /\ r.path \notin failed
    BY <2>1 DEF ScanInv, Accounted
  <2>3. ScanAt("next") \/ ScanAt("done") => failed \cup PathsRead = 1 .. scan.file
    BY DEF ScanInv, Accounted, ScanAt, Before
  <2>4. ScanAt("done") /\ ~cancelled => scan.file = Cardinality(Candidates)
    <3> SUFFICES ASSUME ScanAt("done"), ~cancelled PROVE scan.file = Cardinality(Candidates)
      OBVIOUS
    <3>1. PICK n \in Nat \ {0} : Candidates = 1 .. n
      BY DeepScanAssumption DEF Candidates
    <3>2. scan.file \in 0 .. n /\ scan.file + 1 \notin 1 .. n
      BY <3>1 DEF ScanInv, ScanTypes, Accounted, ScanAt
    <3>3. scan.file = n
      BY <3>2
    <3>4. Cardinality(1 .. n) = n
      BY FS_Interval, 1 \in Int, n \in Int
    <3> QED
      BY <3>1, <3>3, <3>4
  <2> QED
    BY <2>2, <2>3, <2>4 DEF ScanInv, Untouched, ScanAccounts, PathsRead
<1> QED
  BY <1>1, ScanInvariant, PTL

-----------------------------------------------------------------------------
(* Plugins *)

Errors == {r[1] : r \in refused}

PluginTypes ==
    /\ DOMAIN manifests \subseteq Packages
    /\ \A p \in DOMAIN manifests :
         /\ manifests[p].version \in Int
         /\ \A id \in Needs(p) : manifests[p].needs[id] \in Int
    /\ order \in Seq(DOMAIN manifests) /\ active \in Seq(DOMAIN manifests)
    /\ loading \in [package : DOMAIN manifests \cup {0}, step : 0 .. 6]
    /\ loading.package = 0 => loading.step = 0
    /\ worker = "running" => loading.package # 0 /\ loading.step = 0
    \* Nothing is ordered before all is read.
    /\ unread # {} => /\ order = <<>> /\ active = <<>> /\ loading = NoneLoading
                      /\ \A r \in refused : r[2] # "missing"

\* What p depends on is among the first n that are active.
Met(p, n) ==
    \A id \in Needs(p) : \E j \in 1 .. n :
        /\ manifests[active[j]].id = id
        /\ manifests[active[j]].version >= manifests[p].needs[id]

InTurn ==
    /\ \A i \in DOMAIN active : Met(active[i], i - 1)
    /\ loading.package # 0 => Met(loading.package, Len(active)) /\ loading.package \notin Tried
    /\ Errors \cap ToSet(active) = {}

RulesApart == \A o1, o2 \in owned : o1[2] = o2[2] => o1[1] = o2[1]

\* Cyclic is left when no package was ready: each of it waits for another of it.
\* Every other package comes after all it depends on that there is.
Ordered(cyclic) ==
    /\ \A p \in cyclic : \E id \in Needs(p) : Known(id) /\ Holder(id) \in cyclic
    /\ \A j \in DOMAIN order :
         \/ order[j] \in cyclic
         \/ \A id \in Needs(order[j]) : Known(id) => \E k \in 1 .. j - 1 : order[k] = Holder(id)
    /\ cyclic \cap ToSet(active) = {} /\ loading.package \notin cyclic

\* What a package was refused for stays missing.
StaysMissing(cyclic) ==
    \A p \in DOMAIN manifests : <<p, "missing">> \in refused =>
        \E id \in Needs(p) : Known(id) => Holder(id) \in Errors \cup cyclic

PluginInv ==
    /\ PluginTypes /\ InTurn /\ RulesApart
    /\ IdsUnique => \E cyclic \in SUBSET DOMAIN manifests : Ordered(cyclic) /\ StaysMissing(cyclic)

LEMMA HolderHolds ==
  ASSUME PluginTypes, IdsUnique, NEW p \in DOMAIN manifests
  PROVE  Holder(manifests[p].id) = p
<1>1. \A q \in DOMAIN manifests : manifests[q].id = manifests[p].id => q = p
  BY DEF IdsUnique
<1>2. p \in Nat
  BY PluginAssumption DEF PluginTypes
<1>3. p <= p
  BY <1>2
<1> QED
  BY <1>1, <1>3 DEF Holder

LEMMA HolderOf ==
  ASSUME PluginTypes, IdsUnique, NEW id, Known(id)
  PROVE  Holder(id) \in DOMAIN manifests /\ manifests[Holder(id)].id = id
BY HolderHolds DEF Known

LEMMA PluginInvInit == PluginInit => PluginInv
<1> SUFFICES ASSUME PluginInit PROVE PluginInv
  OBVIOUS
<1>1. PluginTypes
  <2>1. /\ DOMAIN manifests = Packages
        /\ \A p \in Packages : /\ manifests[p].version \in Int
                             /\ \A id \in DOMAIN manifests[p].needs : manifests[p].needs[id] \in Int
    BY PluginAssumption DEF PluginInit
  <2>2. <<>> \in Seq(Packages)
    OBVIOUS
  <2> QED
    BY <2>1, <2>2 DEF PluginInit, PluginTypes, NoneLoading, Needs
<1>2. InTurn /\ RulesApart
  BY DEF PluginInit, InTurn, RulesApart, NoneLoading, Errors
<1>3. Ordered({}) /\ StaysMissing({})
  BY DEF PluginInit, Ordered, StaysMissing, NoneLoading
<1> QED
  BY <1>1, <1>2, <1>3 DEF PluginInv

\* Before all is read.
LEMMA Reading ==
  ASSUME PluginInv, LoadSingleFile \/ ReadManifest
  PROVE  PluginInv'
<1>1. /\ unread # {} /\ order = <<>> /\ active = <<>> /\ loading = NoneLoading
      /\ UNCHANGED <<order, active, loading, worker>>
      /\ \A r \in refused : r[2] # "missing"
      /\ worker # "running"
  BY DEF LoadSingleFile, ReadManifest, Unread, PluginInv, PluginTypes, NoneLoading
<1>2. \/ UNCHANGED manifests
      \/ \E p : manifests' = [q \in DOMAIN manifests \ {p} |-> manifests[q]]
  BY DEF LoadSingleFile, ReadManifest
<1>3. \A r \in refused' : r[2] # "missing"
  BY <1>1 DEF LoadSingleFile, ReadManifest, PutError
<1>4. /\ DOMAIN manifests' \subseteq DOMAIN manifests
      /\ \A q \in DOMAIN manifests' : manifests'[q] = manifests[q]
  BY <1>2
<1>5. <<>> \in Seq(DOMAIN manifests') /\ DOMAIN <<>> = {} /\ Len(<<>>) = 0 /\ ToSet(<<>>) = {}
  BY DEF ToSet
<1>6. PluginTypes'
  BY <1>1, <1>3, <1>4, <1>5 DEF PluginInv, PluginTypes, NoneLoading, Needs
<1>7. InTurn'
  BY <1>1, <1>5 DEF InTurn, NoneLoading
<1>8. RulesApart'
  BY DEF LoadSingleFile, ReadManifest, PluginInv, RulesApart, RulesTaken
<1>9. Ordered({})' /\ StaysMissing({})'
  BY <1>1, <1>3, <1>5 DEF Ordered, StaysMissing, NoneLoading
<1> QED
  BY <1>6, <1>7, <1>8, <1>9 DEF PluginInv

LEMMA Appending ==
  ASSUME NEW S, NEW s \in Seq(S), NEW t \in Seq(S)
  PROVE  /\ s \o t \in Seq(S) /\ Len(s) \in Nat /\ DOMAIN s = 1 .. Len(s)
         /\ DOMAIN (s \o t) = 1 .. Len(s) + Len(t) /\ Len(t) \in Nat /\ DOMAIN t = 1 .. Len(t)
         /\ \A k \in 1 .. Len(s) : (s \o t)[k] = s[k]
         /\ \A k \in DOMAIN (s \o t) : k > Len(s) => /\ (s \o t)[k] = t[k - Len(s)]
                                                     /\ k - Len(s) \in DOMAIN t
  OBVIOUS

LEMMA Ordering == ASSUME PluginInv, OrderRound PROVE PluginInv'
<1> DEFINE S == IF Ready = {} THEN Remaining ELSE Ready
<1>1. PICK s \in Sorted(S) : order' = order \o s
  BY DEF OrderRound
<1>2. /\ UNCHANGED <<manifests, unread, loading, worker, active, registered, owned, refused>>
      /\ unread = {} /\ loading = NoneLoading /\ active = <<>> /\ PluginTypes
  BY DEF OrderRound, PluginInv
<1>3. S \subseteq Remaining /\ Remaining \subseteq DOMAIN manifests
  BY DEF Ready, Remaining
<1> DEFINE n == Cardinality(S)
<1>4. s \in [1 .. n -> S]
  BY <1>1 DEF Sorted
<1>5. s \in Seq(DOMAIN manifests) /\ \A k \in DOMAIN s : s[k] \in S
  <2>1. S \subseteq Packages
    BY <1>2, <1>3 DEF PluginTypes
  <2> HIDE DEF S
  <2>2. n \in Nat
    BY <2>1, PluginAssumption, FS_Subset, FS_CardinalityType
  <2> HIDE DEF n
  <2> QED
    BY <1>3, <1>4, <2>2
<1> HIDE DEF S, n
<1>6. PluginTypes'
  <2>1. order' \in Seq(DOMAIN manifests)
    BY <1>1, <1>2, <1>5, Appending DEF PluginTypes
  <2> QED
    BY <1>2, <2>1 DEF PluginTypes, Needs
<1>7. InTurn' /\ RulesApart'
  BY <1>2 DEF PluginInv, InTurn, RulesApart, Met, Needs, Errors, Tried
<1>8. ASSUME IdsUnique, NEW cyclic \in SUBSET DOMAIN manifests, Ordered(cyclic), StaysMissing(cyclic)
      PROVE  \E more \in SUBSET DOMAIN manifests : Ordered(more)' /\ StaysMissing(more)'
  <2>0. PICK more : more = cyclic \cup (IF Ready = {} THEN Remaining ELSE {})
    OBVIOUS
  <2>1. more \in SUBSET DOMAIN manifests
    BY <1>3, <2>0
  <2>2. \A p \in more : \E id \in Needs(p) : Known(id) /\ Holder(id) \in more
    BY <1>8, <2>0 DEF Ordered, Ready
  <2>3. ASSUME NEW j \in DOMAIN order', order'[j] \notin more, NEW id \in Needs(order'[j]), Known(id)
        PROVE  \E k \in 1 .. j - 1 : order'[k] = Holder(id)
    <3>1. /\ Len(order) \in Nat /\ DOMAIN order = 1 .. Len(order)
          /\ \A k \in 1 .. Len(order) : order'[k] = order[k]
          /\ j \in 1 .. Len(order) + Len(s) /\ Len(s) \in Nat
          /\ j > Len(order) => order'[j] \in S
      BY <1>1, <1>2, <1>5, <2>3, Appending DEF PluginTypes
    <3>2. CASE j \in 1 .. Len(order)
      <4>1. \E k \in 1 .. j - 1 : order[k] = Holder(id)
        BY <1>8, <2>0, <2>3, <3>1, <3>2 DEF Ordered
      <4> QED
        BY <3>1, <3>2, <4>1
    <3>3. CASE j > Len(order)
      <4>1. order'[j] \in Ready
        BY <1>3, <2>0, <2>3, <3>1, <3>3 DEF S
      <4>2. Holder(id) \notin Remaining /\ Holder(id) \in DOMAIN manifests
        BY <1>2, <1>8, <2>3, <4>1, HolderOf DEF Ready
      <4>3. PICK k \in 1 .. Len(order) : order[k] = Holder(id)
        BY <3>1, <4>2 DEF Remaining, ToSet
      <4> QED
        BY <3>1, <3>3, <4>3
    <3> QED
      BY <3>1, <3>2, <3>3
  <2>4. Ordered(more)'
    <3>1. ToSet(active) = {} /\ loading.package = 0 /\ 0 \notin DOMAIN manifests
      BY <1>2, PluginAssumption DEF ToSet, NoneLoading, PluginTypes
    <3> QED
      BY <1>2, <2>1, <2>2, <2>3, <3>1 DEF Ordered, Needs, Known, Holder
  <2>5. StaysMissing(more)'
    BY <1>2, <1>8, <2>0 DEF StaysMissing, Needs, Known, Holder, Errors
  <2> QED
    BY <2>1, <2>4, <2>5
<1> QED
  BY <1>2, <1>6, <1>7, <1>8 DEF PluginInv, IdsUnique

\* A package is refused that was not tried before.
LEMMA Refusing ==
  ASSUME PluginInv, unread = {}, NEW p \in DOMAIN manifests, p \notin Tried, NEW reason,
         PutError(p, reason), loading.package \in {0, p}, loading' = NoneLoading,
         worker' # "running", UNCHANGED <<manifests, unread, order, active>>, RulesApart',
         \A cyclic \in SUBSET DOMAIN manifests : IdsUnique /\ Ordered(cyclic) /\ reason = "missing" =>
             \E id \in Needs(p) : Known(id) => Holder(id) \in Errors \cup cyclic
  PROVE  PluginInv'
<1>1. Errors' = Errors \cup {p} /\ Tried' = Tried \cup {p}
  <2>1. refused' = refused \cup {<<p, reason>>} /\ <<p, reason>>[1] = p
    BY DEF PutError
  <2>2. Errors' = Errors \cup {p}
    BY <2>1 DEF Errors
  <2> QED
    BY <2>2 DEF Tried, Errors
<1>2. PluginTypes'
  BY DEF PluginInv, PluginTypes, NoneLoading, Needs
<1>3. InTurn'
  BY <1>1 DEF PluginInv, InTurn, Met, Needs, NoneLoading, Tried, Errors
<1>4. ASSUME NEW cyclic \in SUBSET DOMAIN manifests, IdsUnique, Ordered(cyclic), StaysMissing(cyclic)
      PROVE  Ordered(cyclic)' /\ StaysMissing(cyclic)'
  <2>1. 0 \notin DOMAIN manifests
    BY PluginAssumption DEF PluginInv, PluginTypes
  <2>2. Ordered(cyclic)'
    BY <1>4, <2>1, SMTT(30) DEF Ordered, Needs, Known, Holder, NoneLoading
  <2>3. ASSUME NEW q \in DOMAIN manifests, <<q, "missing">> \in refused'
        PROVE  \E id \in Needs(q) : Known(id) => Holder(id) \in Errors' \cup cyclic
    <3>1. CASE <<q, "missing">> \in refused
      BY <1>1, <1>4, <3>1 DEF StaysMissing
    <3>2. CASE <<q, "missing">> = <<p, reason>>
      BY <1>1, <1>4, <3>2
    <3> QED
      BY <2>3, <3>1, <3>2 DEF PutError
  <2> QED
    BY <2>2, <2>3 DEF StaysMissing, Needs, Known, Holder
<1> QED
  BY <1>2, <1>3, <1>4 DEF PluginInv, IdsUnique

LEMMA Starting == ASSUME PluginInv, StartPackage PROVE PluginInv'
<1>1. PICK p \in ToSet(order) :
        /\ IsNext(p)
        /\ \/ /\ \E reason : PutError(p, reason) /\ (reason = "missing" => Missing(p) # {})
              /\ UNCHANGED <<loading, worker>>
           \/ /\ Missing(p) = {} /\ TooOld(p) = {}
              /\ loading' = [package |-> p, step |-> 0] /\ worker' = "running"
              /\ UNCHANGED refused
  BY DEF StartPackage
<1>2. /\ UNCHANGED <<manifests, unread, order, active, registered, owned>>
      /\ unread = {} /\ loading = NoneLoading /\ PluginTypes /\ InTurn /\ RulesApart
  BY DEF StartPackage, PluginInv
<1>3. PICK i \in DOMAIN order :
        order[i] = p /\ p \notin Tried /\ \A j \in 1 .. i - 1 : order[j] \in Tried
  BY <1>1 DEF IsNext
<1>4. p \in DOMAIN manifests /\ DOMAIN order = 1 .. Len(order) /\ Len(order) \in Nat
  BY <1>2, <1>3 DEF PluginTypes
<1>5. p \in Nat \ {0} /\ 0 \notin DOMAIN manifests /\ loading.package = 0 /\ worker # "running"
  BY <1>2, <1>4, PluginAssumption DEF PluginTypes, NoneLoading
<1>6. RulesApart'
  BY <1>2 DEF RulesApart
<1>7. ASSUME NEW reason, PutError(p, reason), reason = "missing" => Missing(p) # {},
             UNCHANGED <<loading, worker>>
      PROVE  PluginInv'
  <2>1. ASSUME NEW cyclic \in SUBSET DOMAIN manifests, IdsUnique, Ordered(cyclic), reason = "missing"
        PROVE  \E id \in Needs(p) : Known(id) => Holder(id) \in Errors \cup cyclic
    <3>1. CASE p \in cyclic
      BY <2>1, <3>1 DEF Ordered
    <3>2. CASE p \notin cyclic
      <4>1. PICK id \in Needs(p) : ~IsActive(id)
        BY <1>7, <2>1 DEF Missing
      <4>2. ASSUME Known(id) PROVE Holder(id) \in Errors
        <5>1. Holder(id) \in Tried
          BY <1>3, <1>4, <2>1, <3>2, <4>2 DEF Ordered
        <5>2. manifests[Holder(id)].id = id
          BY <1>2, <2>1, <4>2, HolderOf
        <5> QED
          BY <4>1, <5>1, <5>2 DEF Tried, IsActive, Errors
      <4> QED
        BY <4>2
    <3> QED
      BY <3>1, <3>2
  <2> QED
    BY <1>2, <1>3, <1>4, <1>5, <1>6, <1>7, <2>1, Refusing
<1>8. ASSUME Missing(p) = {}, TooOld(p) = {}, loading' = [package |-> p, step |-> 0],
             worker' = "running", UNCHANGED refused
      PROVE  PluginInv'
  <2>1. PluginTypes'
    BY <1>2, <1>4, <1>5, <1>8 DEF PluginTypes, Needs, NoneLoading
  <2>2. ASSUME NEW id \in Needs(p)
        PROVE  \E j \in 1 .. Len(active) : /\ manifests[active[j]].id = id
                                           /\ manifests[active[j]].version >= manifests[p].needs[id]
    <3>1. IsActive(id)
      BY <1>8 DEF Missing
    <3>2. ActiveAs(id) \in ToSet(active) /\ manifests[ActiveAs(id)].id = id
      BY <3>1 DEF IsActive, ActiveAs
    <3>3. ~(manifests[ActiveAs(id)].version < manifests[p].needs[id])
      BY <1>8 DEF TooOld
    <3>4. ActiveAs(id) \in DOMAIN manifests
      BY <1>2, <3>2 DEF PluginTypes, ToSet
    <3>5. manifests[ActiveAs(id)].version \in Int /\ manifests[p].needs[id] \in Int
      BY <1>2, <1>4, <3>4 DEF PluginTypes
    <3>6. PICK j \in 1 .. Len(active) : active[j] = ActiveAs(id)
      BY <1>2, <3>2 DEF ToSet, PluginTypes
    <3> QED
      BY <3>2, <3>3, <3>5, <3>6
  <2>3. InTurn'
    BY <1>2, <1>3, <1>5, <1>8, <2>2 DEF InTurn, Met, Needs, Tried, Errors
  <2>4. ASSUME IdsUnique, NEW cyclic \in SUBSET DOMAIN manifests, Ordered(cyclic), StaysMissing(cyclic)
        PROVE  Ordered(cyclic)' /\ StaysMissing(cyclic)'
    <3>1. p \notin cyclic
      <4> SUFFICES ASSUME p \in cyclic PROVE FALSE
        OBVIOUS
      <4>1. PICK id \in Needs(p) : Known(id) /\ Holder(id) \in cyclic
        BY <2>4 DEF Ordered
      <4>2. PICK q \in ToSet(active) : manifests[q].id = id
        BY <1>8 DEF Missing, IsActive
      <4>3. q \in DOMAIN manifests
        BY <1>2, <4>2 DEF PluginTypes, ToSet
      <4>4. q = Holder(id)
        BY <1>2, <2>4, <4>2, <4>3, HolderHolds
      <4> QED
        BY <2>4, <4>1, <4>2, <4>4 DEF Ordered
    <3> QED
      BY <1>2, <1>8, <2>4, <3>1 DEF Ordered, StaysMissing, Needs, Known, Holder, Errors
  <2> QED
    BY <1>2, <1>6, <2>1, <2>3, <2>4 DEF PluginInv, IdsUnique
<1> QED
  BY <1>1, <1>7, <1>8

LEMMA Loading ==
  ASSUME PluginInv, WorkerAnswers \/ WorkerExceedsLimits \/ Register
  PROVE  PluginInv'
<1> DEFINE p == loading.package
<1>1. /\ UNCHANGED <<manifests, unread, order, active>>
      /\ PluginTypes /\ InTurn /\ RulesApart /\ worker' # "running"
      /\ worker = "running" \/ loading.step \in 1 .. 5
  <2>1. PluginTypes /\ InTurn /\ RulesApart
    BY DEF PluginInv
  <2>2. CASE WorkerAnswers \/ WorkerExceedsLimits
    BY <2>1, <2>2 DEF WorkerAnswers, WorkerExceedsLimits
  <2>3. CASE Register
    BY <2>1, <2>3 DEF Register, PluginTypes
  <2> QED
    BY <2>2, <2>3
<1>2. /\ p # 0 /\ unread = {} /\ p \in DOMAIN manifests /\ p \notin Tried /\ Met(p, Len(active))
      /\ loading.step \in 0 .. 5
  BY <1>1 DEF PluginTypes, InTurn, NoneLoading
<1>3. /\ \/ \E reason : reason # "missing" /\ Abandon(reason)
         \/ /\ UNCHANGED refused
            /\ \/ loading' = [loading EXCEPT !.step = 1]
               \/ loading' = [loading EXCEPT !.step = loading.step + 1]
      /\ RulesApart'
  <2>1. CASE WorkerAnswers \/ WorkerExceedsLimits
    BY <1>1, <2>1 DEF WorkerAnswers, WorkerExceedsLimits, RulesApart
  <2>2. CASE Register
    <3>1. CASE Abandon("rules") /\ UNCHANGED owned
      BY <1>1, <3>1 DEF RulesApart
    <3>2. CASE /\ loading' = [loading EXCEPT !.step = @ + 1] /\ UNCHANGED refused
               /\ \/ UNCHANGED owned
                  \/ /\ ~RulesTaken(manifests[p].rules)
                     /\ owned' = owned \cup {<<p, r>> : r \in manifests[p].rules}
      BY <1>1, <3>2 DEF RulesApart, RulesTaken
    <3> QED
      BY <2>2, <3>1, <3>2 DEF Register
  <2> QED
    BY <2>1, <2>2
<1>5. ASSUME NEW reason, reason # "missing", Abandon(reason)
      PROVE  PluginInv'
  BY <1>1, <1>2, <1>3, <1>5, Refusing DEF Abandon
<1>6. ASSUME UNCHANGED refused,
             \/ loading' = [loading EXCEPT !.step = 1]
             \/ loading' = [loading EXCEPT !.step = loading.step + 1]
      PROVE  PluginInv'
  <2>1. /\ loading'.package = p /\ loading' \in [package : DOMAIN manifests \cup {0}, step : 0 .. 6]
    BY <1>1, <1>2, <1>6 DEF PluginTypes
  <2>2. PluginTypes'
    BY <1>1, <1>2, <1>6, <2>1 DEF PluginTypes, Needs
  <2>3. InTurn'
    BY <1>1, <1>2, <1>6, <2>1 DEF InTurn, Met, Needs, Tried, Errors
  <2>4. ASSUME NEW cyclic, Ordered(cyclic), StaysMissing(cyclic)
        PROVE  Ordered(cyclic)' /\ StaysMissing(cyclic)'
    BY <1>1, <1>6, <2>1, <2>4 DEF Ordered, StaysMissing, Needs, Known, Holder, Errors
  <2> QED
    BY <1>1, <1>3, <2>2, <2>3, <2>4 DEF PluginInv, IdsUnique
<1> QED
  BY <1>3, <1>5, <1>6

LEMMA Activating == ASSUME PluginInv, Activate PROVE PluginInv'
<1> DEFINE p == loading.package
<1>1. /\ UNCHANGED <<manifests, unread, order, worker, registered, owned, refused>>
      /\ active' = Append(active, p) /\ loading' = NoneLoading /\ loading.step = 6
      /\ PluginTypes /\ InTurn /\ RulesApart
  BY DEF Activate, PluginInv
<1>2. /\ p # 0 /\ unread = {} /\ p \in DOMAIN manifests /\ p \notin Tried /\ Met(p, Len(active))
      /\ worker # "running"
  BY <1>1 DEF PluginTypes, InTurn, NoneLoading
<1>3. /\ active' \in Seq(DOMAIN manifests) /\ Len(active) \in Nat
      /\ DOMAIN active = 1 .. Len(active) /\ DOMAIN active' = 1 .. Len(active) + 1
      /\ active'[Len(active) + 1] = p /\ \A i \in 1 .. Len(active) : active'[i] = active[i]
  BY <1>1, <1>2 DEF PluginTypes
<1>4. ToSet(active') = ToSet(active) \cup {p}
  BY <1>3 DEF ToSet
<1>5. PluginTypes'
  BY <1>1, <1>2, <1>3 DEF PluginTypes, Needs, NoneLoading
<1>7. (\A i \in DOMAIN active : Met(active[i], i - 1))'
  <2>1. ASSUME NEW i \in DOMAIN active', NEW id \in Needs(active'[i])
        PROVE  \E j \in 1 .. i - 1 : /\ manifests[active'[j]].id = id
                                     /\ manifests[active'[j]].version >= manifests[active'[i]].needs[id]
    <3>1. CASE i \in DOMAIN active
      <4>1. PICK j \in 1 .. i - 1 : /\ manifests[active[j]].id = id
                                    /\ manifests[active[j]].version >= manifests[active[i]].needs[id]
        BY <1>1, <1>3, <2>1, <3>1 DEF InTurn, Met
      <4> QED
        BY <1>3, <3>1, <4>1
    <3>2. CASE i = Len(active) + 1
      <4>1. PICK j \in 1 .. Len(active) : /\ manifests[active[j]].id = id
                                         /\ manifests[active[j]].version >= manifests[p].needs[id]
        BY <1>2, <1>3, <2>1, <3>2 DEF Met
      <4> QED
        BY <1>3, <3>2, <4>1
    <3> QED
      BY <1>3, <3>1, <3>2
  <2> QED
    BY <1>1, <2>1 DEF Met, Needs
<1>8. InTurn'
  <2>1. (Errors \cap ToSet(active) = {})'
    BY <1>1, <1>2, <1>4 DEF InTurn, Errors, Tried
  <2> QED
    BY <1>1, <1>7, <2>1 DEF InTurn, NoneLoading
<1>9. ASSUME NEW cyclic \in SUBSET DOMAIN manifests, Ordered(cyclic), StaysMissing(cyclic)
      PROVE  Ordered(cyclic)' /\ StaysMissing(cyclic)'
  <2>1. 0 \notin DOMAIN manifests
    BY <1>1, PluginAssumption DEF PluginTypes
  <2> QED
    BY <1>1, <1>4, <1>9, <2>1 DEF Ordered, StaysMissing, Needs, Known, Holder, Errors, NoneLoading
<1> QED
  BY <1>1, <1>5, <1>8, <1>9 DEF PluginInv, IdsUnique, RulesApart

LEMMA PluginInvStep == PluginInv /\ [PluginNext]_pluginVars => PluginInv'
<1> SUFFICES ASSUME PluginInv, [PluginNext]_pluginVars PROVE PluginInv'
  OBVIOUS
<1>1. CASE UNCHANGED pluginVars
  <2>1. PluginTypes' /\ InTurn' /\ RulesApart'
    BY <1>1 DEF pluginVars, PluginInv, PluginTypes, InTurn, RulesApart, Needs, Met, Tried, Errors,
                NoneLoading
  <2>2. ASSUME NEW cyclic, Ordered(cyclic), StaysMissing(cyclic)
        PROVE  Ordered(cyclic)' /\ StaysMissing(cyclic)'
    BY <1>1, <2>2 DEF pluginVars, Ordered, StaysMissing, Needs, Known, Holder, Errors
  <2> QED
    BY <1>1, <2>1, <2>2 DEF pluginVars, PluginInv, IdsUnique
<1> QED
  BY <1>1, Reading, Ordering, Starting, Loading, Activating DEF PluginNext

\* plugins/registry.py, for any set of packages, dependencies and versions: a
\* package is active only after all it needs, what was refused for a missing
\* dependency has it missing to the end, and a rule has one owner.
THEOREM ActivationIsSound == PluginSpec => []ActivationSound
<1>1. PluginInv => ActivationSound
  <2> SUFFICES ASSUME PluginInv PROVE ActivationSound
    OBVIOUS
  <2>1. \A i \in DOMAIN active : Met(active[i], i - 1)
    BY DEF PluginInv, InTurn
  <2>2. ASSUME IdsUnique, NEW p \in DOMAIN manifests, <<p, "missing">> \in refused
        PROVE  Missing(p) # {}
    <3>1. PICK cyclic \in SUBSET DOMAIN manifests : Ordered(cyclic) /\ StaysMissing(cyclic)
      BY <2>2 DEF PluginInv
    <3>2. PICK id \in Needs(p) : Known(id) => Holder(id) \in Errors \cup cyclic
      BY <2>2, <3>1 DEF StaysMissing
    <3>3. ASSUME NEW q \in ToSet(active), manifests[q].id = id PROVE FALSE
      <4>1. q \in DOMAIN manifests /\ PluginTypes
        BY <3>3 DEF PluginInv, PluginTypes, ToSet
      <4>2. q = Holder(id) /\ Known(id)
        BY <2>2, <3>3, <4>1, HolderHolds DEF Known
      <4> QED
        BY <3>1, <3>2, <3>3, <4>2 DEF PluginInv, InTurn, Ordered
    <3> QED
      BY <3>2, <3>3 DEF Missing, IsActive
  <2> QED
    BY <2>1, <2>2 DEF ActivationSound, Met, PluginInv, RulesApart
<1> QED
  BY <1>1, PluginInvInit, PluginInvStep, PTL DEF PluginSpec

SomeSeq(s) == \E S : s \in Seq(S)

LEMMA SeqIsSome == ASSUME NEW s, IsSeq(s) PROVE SomeSeq(s)
BY DEF IsSeq, SomeSeq

LEMMA FunctionIsSome ==
  ASSUME NEW n \in Nat, NEW s, s = [k \in 1 .. n |-> s[k]]
  PROVE  SomeSeq(s)
<1> DEFINE S == {s[k] : k \in 1 .. n}
<1>1. s \in [1 .. n -> S]
  OBVIOUS
<1> HIDE DEF S
<1>2. s \in Seq(S)
  BY <1>1
<1> QED BY <1>2 DEF SomeSeq

LEMMA FunctionIsSeq ==
  ASSUME NEW n \in Nat, NEW S, NEW f \in [1 .. n -> S]
  PROVE  f \in Seq(S) /\ Len(f) = n
OBVIOUS

LEMMA SomeLen ==
  ASSUME NEW s, SomeSeq(s)
  PROVE  Len(s) \in Nat /\ DOMAIN s = 1 .. Len(s)
BY DEF SomeSeq

LEMMA NothingIsSome == SomeSeq(<<>>)
<1>1. <<>> \in Seq({})
  OBVIOUS
<1> QED BY <1>1 DEF SomeSeq

LEMMA Extending ==
  ASSUME NEW s, SomeSeq(s), NEW x
  PROVE  /\ SomeSeq(Append(s, x)) /\ DOMAIN Append(s, x) = DOMAIN s \cup {Len(s) + 1}
         /\ Len(Append(s, x)) = Len(s) + 1 /\ Len(s) + 1 \notin DOMAIN s
         /\ Append(s, x)[Len(s) + 1] = x /\ \A k \in DOMAIN s : Append(s, x)[k] = s[k]
<1>1. PICK S : s \in Seq(S)
  BY DEF SomeSeq
<1> DEFINE T == S \cup {x}
<1>2. s \in Seq(T) /\ x \in T
  BY <1>1
<1> HIDE DEF T
<1>3. Append(s, x) \in Seq(T)
  BY <1>2
<1> QED BY <1>2, <1>3 DEF SomeSeq

LEMMA JoinedParts ==
  ASSUME NEW m \in Nat, NEW n \in Nat, NEW s, NEW t, NEW u,
         \A j \in 1 .. m + n : u[j] = IF j <= m THEN s[j] ELSE t[j - m]
  PROVE  /\ \A k \in 1 .. m : k \in 1 .. m + n /\ u[k] = s[k]
         /\ \A k \in 1 .. n : \E j \in 1 .. m + n : u[j] = t[k]
         /\ \A j \in 1 .. m + n : \/ j \in 1 .. m /\ u[j] = s[j]
                                 \/ \E k \in 1 .. n : u[j] = t[k]
<1>1. ASSUME NEW k \in 1 .. m
      PROVE  k \in 1 .. m + n /\ u[k] = s[k]
  OBVIOUS
<1>2. ASSUME NEW k \in 1 .. n
      PROVE  \E j \in 1 .. m + n : u[j] = t[k]
  <2>1. m + k \in 1 .. m + n /\ ~(m + k <= m) /\ (m + k) - m = k
    OBVIOUS
  <2> QED BY <2>1
<1>3. ASSUME NEW j \in 1 .. m + n
      PROVE  (j \in 1 .. m /\ u[j] = s[j]) \/ \E k \in 1 .. n : u[j] = t[k]
  <2>1. CASE j <= m
    BY <2>1
  <2>2. CASE ~(j <= m)
    <3>1. j - m \in 1 .. n
      BY <2>2
    <3> QED BY <2>2, <3>1
  <2> QED BY <2>1, <2>2
<1> QED BY <1>1, <1>2, <1>3

\* u has the parts of s, at their places, and those of t.
Joins(s, t, u) ==
    /\ SomeSeq(u)
    /\ \A k \in DOMAIN s : k \in DOMAIN u /\ u[k] = s[k]
    /\ \A k \in DOMAIN t : \E j \in DOMAIN u : u[j] = t[k]
    /\ \A j \in DOMAIN u : \/ j \in DOMAIN s /\ u[j] = s[j]
                         \/ \E k \in DOMAIN t : u[j] = t[k]

LEMMA Joining ==
  ASSUME NEW s, SomeSeq(s), NEW t, SomeSeq(t)
  PROVE  Joins(s, t, s \o t)
<1> SUFFICES ASSUME NEW u, u = s \o t PROVE Joins(s, t, u)
  OBVIOUS
<1>1. PICK S : s \in Seq(S)
  BY DEF SomeSeq
<1>2. PICK T : t \in Seq(T)
  BY DEF SomeSeq
<1> DEFINE U == S \cup T
           m == Len(s)
           n == Len(t)
<1>3. s \in Seq(U) /\ t \in Seq(U)
  BY <1>1, <1>2
<1> HIDE DEF U
<1>4. /\ u \in Seq(U) /\ DOMAIN u = 1 .. m + n /\ DOMAIN s = 1 .. m /\ DOMAIN t = 1 .. n
      /\ m \in Nat /\ n \in Nat
  BY <1>3
<1>5. \A j \in 1 .. m + n : u[j] = IF j <= m THEN s[j] ELSE t[j - m]
  BY <1>3
<1> HIDE DEF m, n
<1>6. /\ \A k \in 1 .. m : k \in 1 .. m + n /\ u[k] = s[k]
      /\ \A k \in 1 .. n : \E j \in 1 .. m + n : u[j] = t[k]
      /\ \A j \in 1 .. m + n : \/ j \in 1 .. m /\ u[j] = s[j]
                              \/ \E k \in 1 .. n : u[j] = t[k]
  BY ONLY <1>4, <1>5, JoinedParts
<1>7. SomeSeq(u)
  BY <1>4 DEF SomeSeq
<1> QED BY ONLY <1>4, <1>6, <1>7 DEF Joins

LEMMA Prefix ==
  ASSUME NEW S, NEW s \in Seq(S), NEW m \in 0 .. Len(s)
  PROVE  /\ SubSeq(s, 1, m) \in Seq(S) /\ DOMAIN SubSeq(s, 1, m) = 1 .. m
         /\ \A k \in 1 .. m : SubSeq(s, 1, m)[k] = s[k] /\ k \in DOMAIN s
OBVIOUS

-----------------------------------------------------------------------------
(* The rules *)

LEMMA BuiltinsApart ==
  /\ SomeSeq(Builtins)
  /\ \A b \in DOMAIN Builtins : Builtins[b].severity \in DOMAIN Floors
  /\ \A b, c \in DOMAIN Builtins : Builtins[b].id = Builtins[c].id => b = c
  /\ \E b \in DOMAIN Builtins : Builtins[b].id = "TITAN-001"
<1>1. DOMAIN Floors = {"low", "medium", "high", "critical"}
  BY DEF Floors
<1>2. SomeSeq(Builtins)
  <2>1. Builtins = [b \in 1 .. 13 |-> Builtins[b]]
    BY DEF Builtins
  <2> QED BY <2>1, FunctionIsSome
<1>3. DOMAIN Builtins = 1 .. 13
  BY DEF Builtins
<1>4. \A b \in 1 .. 13 : Builtins[b].severity \in {"low", "medium", "high", "critical"}
  BY DEF Builtins
<1>5. \A b, c \in 1 .. 13 : Builtins[b].id = Builtins[c].id => b = c
  BY DEF Builtins
<1>6. Builtins[1].id = "TITAN-001"
  BY DEF Builtins
<1> QED BY <1>1, <1>2, <1>3, <1>4, <1>5, <1>6

\* The built-in rules are among the known, and nothing else has their names.
Keeps(known) ==
    /\ SomeSeq(known)
    /\ \A k \in DOMAIN known : known[k].severity \in DOMAIN Floors
    /\ \A b \in DOMAIN Builtins : \E k \in DOMAIN known : known[k] = Builtins[b]
    /\ \A k \in DOMAIN known, b \in DOMAIN Builtins :
         known[k].id = Builtins[b].id => known[k].severity = Builtins[b].severity

LEMMA AddRuleKeeps ==
  ASSUME NEW known, Keeps(known), NEW rule,
         ValidRule(rule) => rule.severity \in DOMAIN Floors
  PROVE  Keeps(AddRule(known, rule))
<1>1. CASE ~ValidRule(rule) \/ \E k \in DOMAIN known : known[k].id = rule.id
  BY <1>1 DEF AddRule
<1>2. CASE ValidRule(rule) /\ \A k \in DOMAIN known : known[k].id # rule.id
  <2>1. AddRule(known, rule) = Append(known, rule)
    BY <1>2 DEF AddRule
  <2>2. \A b \in DOMAIN Builtins : Builtins[b].id # rule.id
    BY <1>2 DEF Keeps
  <2>3. /\ SomeSeq(Append(known, rule))
        /\ DOMAIN Append(known, rule) = DOMAIN known \cup {Len(known) + 1}
        /\ Append(known, rule)[Len(known) + 1] = rule
        /\ \A k \in DOMAIN known : Append(known, rule)[k] = known[k]
    BY Extending DEF Keeps
  <2> QED BY <1>2, <2>1, <2>2, <2>3 DEF Keeps
<1> QED BY <1>1, <1>2

AddStep(r, known, rule) == AddRule(known, rule)
AddStart(r) == r
AddHolds(r, s, k, known) == Keeps(known)
Adding == INSTANCE FoldInduction WITH Step <- AddStep, Start <- AddStart, Holds <- AddHolds

LEMMA LoadPackKeeps ==
  ASSUME NEW known, Keeps(known), NEW pack, IsSeq(pack.rules),
         \A rule \in ToSet(pack.rules) : ValidRule(rule) => rule.severity \in DOMAIN Floors
  PROVE  Keeps(LoadPack(known, pack))
<1>1. CASE pack.readable
  <2>1. LoadPack(known, pack) = Adding!Folded(known, pack.rules)
    BY <1>1 DEF LoadPack, Adding!Folded, AddStep, AddStart, FoldLeft, MapThenFoldSet, Max,
                Adding!FoldLeft, Adding!MapThenFoldSet, Adding!Max
  <2>2. pack.rules \in Seq(ToSet(pack.rules))
    BY DEF IsSeq
  <2>3. AddHolds(known, pack.rules, 0, AddStart(known))
    BY DEF AddHolds, AddStart
  <2>4. ASSUME NEW k \in 1 .. Len(pack.rules), NEW a, AddHolds(known, pack.rules, k - 1, a)
        PROVE  AddHolds(known, pack.rules, k, AddStep(known, a, pack.rules[k]))
    <3>1. pack.rules[k] \in ToSet(pack.rules)
      BY <2>2
    <3> QED BY <2>4, <3>1, AddRuleKeeps DEF AddHolds, AddStep
  <2>5. AddHolds(known, pack.rules, Len(pack.rules), Adding!Folded(known, pack.rules))
    BY <2>2, <2>3, <2>4, Adding!FoldHolds
  <2> QED BY <2>1, <2>5 DEF AddHolds
<1>2. CASE ~pack.readable
  BY <1>2 DEF LoadPack
<1> QED BY <1>1, <1>2

LoadStep(r, known, pack) == LoadPack(known, pack)
LoadStart(r) == Builtins
PackLoading == INSTANCE FoldInduction WITH Step <- LoadStep, Start <- LoadStart, Holds <- AddHolds

LEMMA RulesKeep ==
  ASSUME NEW packs, IsSeq(packs),
         \A k \in DOMAIN packs :
           /\ IsSeq(packs[k].rules)
           /\ \A rule \in ToSet(packs[k].rules) :
                ValidRule(rule) => rule.severity \in DOMAIN Floors
  PROVE  Keeps(RulesOf(packs))
<1>1. RulesOf(packs) = PackLoading!Folded(0, packs)
  BY DEF RulesOf, LoadStep, LoadStart, PackLoading!Folded, FoldLeft, MapThenFoldSet, Max,
         PackLoading!FoldLeft, PackLoading!MapThenFoldSet, PackLoading!Max
<1>2. packs \in Seq(ToSet(packs)) /\ DOMAIN packs = 1 .. Len(packs)
  BY DEF IsSeq
<1>3. AddHolds(0, packs, 0, LoadStart(0))
  BY BuiltinsApart DEF AddHolds, LoadStart, Keeps
<1>4. ASSUME NEW k \in 1 .. Len(packs), NEW a, AddHolds(0, packs, k - 1, a)
      PROVE  AddHolds(0, packs, k, LoadStep(0, a, packs[k]))
  BY <1>2, <1>4, LoadPackKeeps DEF AddHolds, LoadStep
<1>5. AddHolds(0, packs, Len(packs), PackLoading!Folded(0, packs))
  BY <1>2, <1>3, <1>4, PackLoading!FoldHolds
<1> QED BY <1>1, <1>5 DEF AddHolds

LEMMA ConfiguredRulesKeep ==
  ASSUME NEW configured \in Packs, NEW packs \in Packs
  PROVE  Keeps(RulesOf(configured)) /\ Keeps(RulesOf(configured \o packs))
<1>1. Keeps(RulesOf(configured))
  BY RulesKeep, JudgementAssumption
<1> DEFINE S == ToSet(configured) \cup ToSet(packs)
           all == configured \o packs
<1>2. configured \in Seq(S) /\ packs \in Seq(S)
  BY JudgementAssumption DEF IsSeq
<1>3. \A pack \in S : /\ IsSeq(pack.rules)
                     /\ \A rule \in ToSet(pack.rules) :
                          ValidRule(rule) => rule.severity \in DOMAIN Floors
  <2>1. ASSUME NEW packed \in Packs, NEW pack \in ToSet(packed)
        PROVE  \E k \in DOMAIN packed : packed[k] = pack
    BY DEF ToSet
  <2> QED BY <2>1, JudgementAssumption
<1> HIDE DEF S
<1>4. all \in Seq(S)
  BY <1>2
<1> HIDE DEF all
<1>5. DOMAIN all = 1 .. Len(all) /\ \A k \in DOMAIN all : all[k] \in S
  BY <1>4
<1>6. IsSeq(all)
  <2> DEFINE R == ToSet(all)
  <2>1. \A k \in 1 .. Len(all) : all[k] \in R
    BY <1>5 DEF ToSet
  <2> HIDE DEF R
  <2>2. all \in Seq(R)
    BY <1>4, <2>1
  <2> QED BY <2>2 DEF IsSeq, R
<1>7. Keeps(RulesOf(all))
  BY <1>3, <1>5, <1>6, RulesKeep
<1> QED BY <1>1, <1>7 DEF all

-----------------------------------------------------------------------------
(* What the rules find *)

Severe(detections) ==
    SomeSeq(detections) /\ \A k \in DOMAIN detections : detections[k].severity \in DOMAIN Floors

\* The built-in rules among the detections are those that fire, as severe as ever.
\* No detection passes for one of a built-in rule that did not fire.
Within(detections, graph) ==
    \A b \in DOMAIN Builtins :
        /\ Builtins[b].id \in Ids(detections) => BuiltinFires(Builtins[b].id, graph)
        /\ \A k \in DOMAIN detections : detections[k].id = Builtins[b].id =>
             detections[k].severity = Builtins[b].severity
Agrees(detections, graph) ==
    \A b \in DOMAIN Builtins :
        /\ BuiltinFires(Builtins[b].id, graph) <=> Builtins[b].id \in Ids(detections)
        /\ \A k \in DOMAIN detections : detections[k].id = Builtins[b].id =>
             detections[k].severity = Builtins[b].severity

FireStep(r, found, rule) ==
    IF Fires(rule, r.graph, r.expired) THEN Append(found, Finding(rule.id, rule.severity))
    ELSE found
FireStart(r) == <<>>
FireHolds(r, s, k, found) ==
    /\ SomeSeq(found)
    /\ \A j \in DOMAIN found : \E i \in 1 .. k :
         Fires(s[i], r.graph, r.expired) /\ found[j] = Finding(s[i].id, s[i].severity)
    /\ \A i \in 1 .. k : Fires(s[i], r.graph, r.expired) =>
         \E j \in DOMAIN found : found[j] = Finding(s[i].id, s[i].severity)
Firing == INSTANCE FoldInduction WITH Step <- FireStep, Start <- FireStart, Holds <- FireHolds

LEMMA FireStepHolds ==
  ASSUME NEW r, NEW s, NEW k \in Nat, k # 0, NEW a, FireHolds(r, s, k - 1, a)
  PROVE  FireHolds(r, s, k, FireStep(r, a, s[k]))
<1>1. k \in 1 .. k /\ 1 .. k = (1 .. k - 1) \cup {k}
  OBVIOUS
<1>2. CASE ~Fires(s[k], r.graph, r.expired)
  BY <1>1, <1>2 DEF FireHolds, FireStep
<1>3. CASE Fires(s[k], r.graph, r.expired)
  <2> DEFINE f == Finding(s[k].id, s[k].severity)
             b == Append(a, f)
  <2>1. FireStep(r, a, s[k]) = b
    BY <1>3 DEF FireStep
  <2>2. /\ SomeSeq(b) /\ DOMAIN b = DOMAIN a \cup {Len(a) + 1} /\ b[Len(a) + 1] = f
        /\ \A j \in DOMAIN a : b[j] = a[j]
    BY Extending DEF FireHolds
  <2> HIDE DEF b
  <2> QED BY <1>1, <1>3, <2>1, <2>2 DEF FireHolds
<1> QED BY <1>2, <1>3

LEMMA EvaluatedAgrees ==
  ASSUME NEW rules, Keeps(rules), NEW graph, NEW expired
  PROVE  Severe(Evaluated(rules, graph, expired)) /\ Agrees(Evaluated(rules, graph, expired), graph)
<1> DEFINE r == [graph |-> graph, expired |-> expired]
           found == Evaluated(rules, graph, expired)
<1>1. found = Firing!Folded(r, rules)
  BY DEF Evaluated, FireStep, FireStart, Firing!Folded, FoldLeft, MapThenFoldSet, Max,
         Firing!FoldLeft, Firing!MapThenFoldSet, Firing!Max
<1>2. FireHolds(r, rules, 0, FireStart(r))
  BY NothingIsSome DEF FireHolds, FireStart
<1>3. PICK S : rules \in Seq(S)
  BY DEF Keeps, SomeSeq
<1>4. ASSUME NEW k \in 1 .. Len(rules), NEW a, FireHolds(r, rules, k - 1, a)
      PROVE  FireHolds(r, rules, k, FireStep(r, a, rules[k]))
  <2>1. k \in Nat /\ k # 0
    BY <1>3
  <2> HIDE DEF r
  <2> QED BY <1>4, <2>1, FireStepHolds
<1>5. FireHolds(r, rules, Len(rules), found)
  <2> HIDE DEF r
  <2> QED BY <1>1, <1>2, <1>3, <1>4, Firing!FoldHolds
<1>6. r.graph = graph /\ r.expired = expired
  OBVIOUS
<1> HIDE DEF r, found
<1>7. DOMAIN rules = 1 .. Len(rules)
  BY <1>3
<1>8. /\ SomeSeq(found)
      /\ \A j \in DOMAIN found : \E i \in DOMAIN rules :
           Fires(rules[i], graph, expired) /\ found[j] = Finding(rules[i].id, rules[i].severity)
      /\ \A i \in DOMAIN rules : Fires(rules[i], graph, expired) =>
           \E j \in DOMAIN found : found[j] = Finding(rules[i].id, rules[i].severity)
  BY <1>5, <1>6, <1>7 DEF FireHolds
<1>9. \A id, severity : Finding(id, severity).id = id /\ Finding(id, severity).severity = severity
  BY DEF Finding
<1>10. Severe(found)
  BY <1>8, <1>9 DEF Severe, Keeps
<1>11. ASSUME NEW b \in DOMAIN Builtins
       PROVE  /\ BuiltinFires(Builtins[b].id, graph) <=> Builtins[b].id \in Ids(found)
              /\ \A k \in DOMAIN found : found[k].id = Builtins[b].id =>
                   found[k].severity = Builtins[b].severity
  <2>1. \A rule : rule.id = Builtins[b].id =>
          (Fires(rule, graph, expired) <=> BuiltinFires(Builtins[b].id, graph))
    BY DEF Fires
  <2>2. PICK i \in DOMAIN rules : rules[i] = Builtins[b]
    BY DEF Keeps
  <2>3. \A id : id \in Ids(found) <=> \E k \in DOMAIN found : found[k].id = id
    BY DEF Ids
  <2>4. BuiltinFires(Builtins[b].id, graph) => Builtins[b].id \in Ids(found)
    BY <1>8, <1>9, <2>1, <2>2, <2>3
  <2>5. Builtins[b].id \in Ids(found) => BuiltinFires(Builtins[b].id, graph)
    BY <1>8, <1>9, <2>1, <2>3
  <2>6. \A k \in DOMAIN found : found[k].id = Builtins[b].id =>
          found[k].severity = Builtins[b].severity
    BY <1>8, <1>9 DEF Keeps
  <2> QED BY <2>4, <2>5, <2>6
<1> QED BY <1>10, <1>11 DEF Agrees, found

-----------------------------------------------------------------------------
(* Detection plugins and YARA *)

KeepStep(r, kept, id) ==
    IF id \in DOMAIN PluginRules THEN Append(kept, Finding(id, PluginRules[id])) ELSE kept
KeepStart(r) == <<>>
KeepHolds(r, s, k, kept) == Severe(kept) /\ Ids(kept) \subseteq DOMAIN PluginRules
Keeping == INSTANCE FoldInduction WITH Step <- KeepStep, Start <- KeepStart, Holds <- KeepHolds

LEMMA PluginsFind ==
  ASSUME NEW emitted, SomeSeq(emitted)
  PROVE  Severe(PluginFindings(emitted)) /\ Ids(PluginFindings(emitted)) \subseteq DOMAIN PluginRules
<1>1. PluginFindings(emitted) = Keeping!Folded(0, emitted)
  BY DEF PluginFindings, KeepStep, KeepStart, Keeping!Folded, FoldLeft, MapThenFoldSet, Max,
         Keeping!FoldLeft, Keeping!MapThenFoldSet, Keeping!Max
<1>2. PICK S : emitted \in Seq(S)
  BY DEF SomeSeq
<1>3. KeepHolds(0, emitted, 0, KeepStart(0))
  BY NothingIsSome DEF KeepHolds, KeepStart, Severe, Ids
<1>4. ASSUME NEW k \in 1 .. Len(emitted), NEW a, KeepHolds(0, emitted, k - 1, a)
      PROVE  KeepHolds(0, emitted, k, KeepStep(0, a, emitted[k]))
  <2>1. CASE emitted[k] \notin DOMAIN PluginRules
    BY <1>4, <2>1 DEF KeepHolds, KeepStep
  <2>2. CASE emitted[k] \in DOMAIN PluginRules
    <3> DEFINE f == Finding(emitted[k], PluginRules[emitted[k]])
               b == Append(a, f)
    <3>1. KeepStep(0, a, emitted[k]) = b
      BY <2>2 DEF KeepStep
    <3>2. /\ SomeSeq(b) /\ DOMAIN b = DOMAIN a \cup {Len(a) + 1} /\ b[Len(a) + 1] = f
          /\ \A j \in DOMAIN a : b[j] = a[j]
      BY <1>4, Extending DEF KeepHolds, Severe
    <3>3. f.id \in DOMAIN PluginRules /\ f.severity \in DOMAIN Floors
      BY <2>2, JudgementAssumption DEF Finding
    <3> HIDE DEF b, f
    <3> QED BY <1>4, <3>1, <3>2, <3>3 DEF KeepHolds, Severe, Ids
  <2> QED BY <2>1, <2>2
<1>5. KeepHolds(0, emitted, Len(emitted), Keeping!Folded(0, emitted))
  BY <1>2, <1>3, <1>4, Keeping!FoldHolds
<1> QED BY <1>1, <1>5 DEF KeepHolds

LEMMA SetInSequence ==
  ASSUME NEW S, IsFiniteSet(S)
  PROVE  /\ SomeSeq(SetToSeq(S))
         /\ \A k \in DOMAIN SetToSeq(S) : SetToSeq(S)[k] \in S
         /\ \A x \in S : \E k \in DOMAIN SetToSeq(S) : SetToSeq(S)[k] = x
<1> DEFINE n == Cardinality(S)
           s == SetToSeq(S)
<1>1. n \in Nat /\ ExistsBijection(1 .. n, S)
  BY FS_CardinalityType
<1>2. \E f \in [1 .. n -> S] : IsInjective(f)
  BY <1>1 DEF ExistsBijection, Bijection, Injection
<1>3. s \in [1 .. n -> S] /\ IsInjective(s)
  BY <1>2 DEF SetToSeq
<1> HIDE DEF s
<1>4. s \in Injection(1 .. n, S)
  BY <1>3 DEF Injection
<1>5. IsFiniteSet(1 .. n) /\ Cardinality(1 .. n) = n
  <2>1. 1 \in Int /\ n \in Int /\ (IF 1 > n THEN 0 ELSE n - 1 + 1) = n
    BY <1>1
  <2> HIDE DEF n
  <2> QED BY <2>1, FS_Interval
<1>6. s \in Surjection(1 .. n, S)
  BY <1>4, <1>5, FS_Injection
<1>7. \A x \in S : \E k \in 1 .. n : s[k] = x
  BY <1>6 DEF Surjection
<1>8. s \in Seq(S)
  BY <1>1, <1>3
<1> QED BY <1>3, <1>7, <1>8 DEF SomeSeq, s

LEMMA NodeMatchesFind ==
  ASSUME NEW graph, NEW i
  PROVE  /\ SomeSeq(NodeMatches(graph, i))
         /\ \A k \in DOMAIN NodeMatches(graph, i) :
              NodeMatches(graph, i)[k].rule \in DOMAIN YaraHits
<1> DEFINE S == {y \in DOMAIN YaraHits : YaraHits[y].mark \in graph.nodes[i].text}
           hits == SetToSeq(S)
<1>1. IsFiniteSet(S) /\ S \subseteq DOMAIN YaraHits
  BY JudgementAssumption, FS_Subset
<1>2. NodeMatches(graph, i) = [k \in DOMAIN hits |-> [node |-> i, rule |-> hits[k]]]
  BY DEF NodeMatches
<1> HIDE DEF S
<1>3. SomeSeq(hits) /\ \A k \in DOMAIN hits : hits[k] \in S
  BY <1>1, SetInSequence
<1> HIDE DEF hits
<1>4. Len(hits) \in Nat /\ DOMAIN hits = 1 .. Len(hits)
  BY <1>3, SomeLen
<1> DEFINE n == Len(hits)
           m == NodeMatches(graph, i)
<1>5. /\ m = [k \in 1 .. n |-> m[k]] /\ DOMAIN m = DOMAIN hits
      /\ \A k \in DOMAIN hits : m[k].rule = hits[k]
  BY <1>2, <1>4
<1> HIDE DEF m, n
<1>6. SomeSeq(m)
  BY <1>4, <1>5, FunctionIsSome DEF n
<1> QED BY <1>1, <1>3, <1>5, <1>6 DEF m

MatchStep(r, found, i) == IF i \in r.erred THEN found ELSE found \o NodeMatches(r.graph, i)
MatchStart(r) == <<>>
MatchHolds(r, s, k, found) ==
    SomeSeq(found) /\ \A j \in DOMAIN found : found[j].rule \in DOMAIN YaraHits
Matching == INSTANCE FoldInduction
              WITH Step <- MatchStep, Start <- MatchStart, Holds <- MatchHolds

LEMMA MatchStepHolds ==
  ASSUME NEW r, NEW s, NEW k, NEW n, NEW a, NEW i, MatchHolds(r, s, k, a)
  PROVE  MatchHolds(r, s, n, MatchStep(r, a, i))
<1>1. CASE i \in r.erred
  BY <1>1 DEF MatchHolds, MatchStep
<1>2. CASE i \notin r.erred
  <2> DEFINE m == NodeMatches(r.graph, i)
             b == a \o m
  <2>1. SomeSeq(m) /\ \A j \in DOMAIN m : m[j].rule \in DOMAIN YaraHits
    BY NodeMatchesFind
  <2>2. MatchStep(r, a, i) = b
    BY <1>2 DEF MatchStep
  <2> HIDE DEF m
  <2>3. SomeSeq(a) /\ \A j \in DOMAIN a : a[j].rule \in DOMAIN YaraHits
    BY DEF MatchHolds
  <2>4. Joins(a, m, b)
    BY <2>1, <2>3, Joining
  <2> HIDE DEF b
  <2>5. SomeSeq(b) /\ \A j \in DOMAIN b : b[j].rule \in DOMAIN YaraHits
    BY <2>1, <2>3, <2>4 DEF Joins
  <2> QED BY <2>2, <2>5 DEF MatchHolds
<1> QED BY <1>1, <1>2

LEMMA YaraFinds ==
  ASSUME NEW graph \in Reports, NEW erred
  PROVE  /\ SomeSeq(YaraMatches(graph, erred))
         /\ \A k \in DOMAIN YaraMatches(graph, erred) :
              YaraMatches(graph, erred)[k].rule \in DOMAIN YaraHits
<1> DEFINE r == [graph |-> graph, erred |-> erred]
           nodes == [i \in Nodes(graph) |-> i]
           all == FoldLeft(LAMBDA found, i :
                     IF i \in erred THEN found ELSE found \o NodeMatches(graph, i), <<>>, nodes)
<1>1. all = Matching!Folded(r, nodes)
  BY DEF MatchStep, MatchStart, Matching!Folded, FoldLeft, MapThenFoldSet, Max,
         Matching!FoldLeft, Matching!MapThenFoldSet, Matching!Max
<1>2. nodes \in Seq(Nat) /\ Len(nodes) \in Nat
  <2>1. Len(graph.nodes) \in Nat /\ DOMAIN graph.nodes = 1 .. Len(graph.nodes)
    BY JudgementAssumption DEF IsSeq
  <2> QED BY <2>1 DEF Nodes
<1>3. YaraMatches(graph, erred)
        = SubSeq(all, 1, IF Len(all) < MaxMatches THEN Len(all) ELSE MaxMatches)
  BY DEF YaraMatches
<1> HIDE DEF all, nodes
<1>4. MatchHolds(r, nodes, 0, MatchStart(r))
  BY NothingIsSome DEF MatchHolds, MatchStart
<1>5. ASSUME NEW k \in 1 .. Len(nodes), NEW a, MatchHolds(r, nodes, k - 1, a)
      PROVE  MatchHolds(r, nodes, k, MatchStep(r, a, nodes[k]))
  BY <1>5, MatchStepHolds DEF MatchHolds
<1>6. MatchHolds(r, nodes, Len(nodes), all)
  <2> HIDE DEF r
  <2> QED BY <1>1, <1>2, <1>4, <1>5, Matching!FoldHolds
<1>7. SomeSeq(all) /\ \A j \in DOMAIN all : all[j].rule \in DOMAIN YaraHits
  BY <1>6 DEF MatchHolds
<1> DEFINE n == IF Len(all) < MaxMatches THEN Len(all) ELSE MaxMatches
<1>8. PICK S : all \in Seq(S)
  BY <1>7 DEF SomeSeq
<1>9. n \in Nat /\ n <= Len(all) /\ Len(all) \in Nat
  BY <1>8, JudgementAssumption
<1> HIDE DEF n
<1>10. /\ SubSeq(all, 1, n) \in Seq(S) /\ DOMAIN SubSeq(all, 1, n) = 1 .. n
       /\ \A k \in 1 .. n : SubSeq(all, 1, n)[k] = all[k] /\ k \in DOMAIN all
  BY <1>8, <1>9
<1> QED BY <1>3, <1>7, <1>10 DEF SomeSeq, n

LEMMA YaraDetects ==
  ASSUME NEW matches, SomeSeq(matches),
         \A k \in DOMAIN matches : matches[k].rule \in DOMAIN YaraHits
  PROVE  /\ Severe(YaraDetections(matches))
         /\ Ids(YaraDetections(matches)) \subseteq DOMAIN YaraHits
         /\ \A k \in DOMAIN matches : matches[k].rule \in Ids(YaraDetections(matches))
<1> DEFINE S == {matches[k].rule : k \in DOMAIN matches}
           rules == SetToSeq(S)
           d == YaraDetections(matches)
<1>1. IsFiniteSet(S) /\ S \subseteq DOMAIN YaraHits
  BY JudgementAssumption, FS_Subset
<1>2. \A k \in DOMAIN matches : matches[k].rule \in S
  OBVIOUS
<1>3. d = [k \in DOMAIN rules |-> Finding(rules[k], YaraHits[rules[k]].severity)]
  BY DEF YaraDetections
<1> HIDE DEF S
<1>4. /\ SomeSeq(rules) /\ \A k \in DOMAIN rules : rules[k] \in S
      /\ \A x \in S : \E k \in DOMAIN rules : rules[k] = x
  BY <1>1, SetInSequence
<1> HIDE DEF rules
<1>5. Len(rules) \in Nat /\ DOMAIN rules = 1 .. Len(rules)
  BY <1>4, SomeLen
<1>6. /\ DOMAIN d = DOMAIN rules /\ d = [k \in 1 .. Len(rules) |-> d[k]]
      /\ \A k \in DOMAIN rules : d[k].id = rules[k]
                               /\ d[k].severity = YaraHits[rules[k]].severity
  BY <1>3, <1>5 DEF Finding
<1> HIDE DEF d
<1>7. SomeSeq(d)
  BY <1>5, <1>6, FunctionIsSome
<1>8. \A x : x \in Ids(d) <=> \E k \in DOMAIN d : d[k].id = x
  BY DEF Ids
<1>9. Severe(d)
  BY <1>1, <1>4, <1>6, <1>7, JudgementAssumption DEF Severe
<1>10. Ids(d) \subseteq DOMAIN YaraHits
  BY <1>1, <1>4, <1>6, <1>8, SMTT(30)
<1>11. ASSUME NEW k \in DOMAIN matches
       PROVE  matches[k].rule \in Ids(d)
  <2>1. PICK j \in DOMAIN rules : rules[j] = matches[k].rule
    BY <1>2, <1>4
  <2> QED BY <1>6, <1>8, <2>1
<1> QED BY <1>9, <1>10, <1>11 DEF d

-----------------------------------------------------------------------------
(* Merging *)

MergeStep(r, merged, d) ==
    IF \E k \in DOMAIN merged : merged[k].id = d.id THEN merged ELSE Append(merged, d)
MergeStart(r) == <<>>
MergeHolds(r, s, k, merged) ==
    /\ SomeSeq(merged)
    /\ \A i, j \in DOMAIN merged : merged[i].id = merged[j].id => i = j
    /\ \A j \in DOMAIN merged : \E i \in 1 .. k : merged[j] = s[i]
    /\ \A i \in 1 .. k : \E j \in DOMAIN merged : merged[j].id = s[i].id
Merging == INSTANCE FoldInduction WITH Step <- MergeStep, Start <- MergeStart, Holds <- MergeHolds

LEMMA MergeStepHolds ==
  ASSUME NEW s, NEW k \in Nat, k # 0, NEW a, MergeHolds(0, s, k - 1, a)
  PROVE  MergeHolds(0, s, k, MergeStep(0, a, s[k]))
<1>1. k \in 1 .. k /\ 1 .. k = (1 .. k - 1) \cup {k}
  OBVIOUS
<1>2. CASE \E j \in DOMAIN a : a[j].id = s[k].id
  BY <1>1, <1>2 DEF MergeHolds, MergeStep
<1>3. CASE \A j \in DOMAIN a : a[j].id # s[k].id
  <2> DEFINE b == Append(a, s[k])
  <2>1. MergeStep(0, a, s[k]) = b
    BY <1>3 DEF MergeStep
  <2>2. /\ SomeSeq(b) /\ DOMAIN b = DOMAIN a \cup {Len(a) + 1} /\ b[Len(a) + 1] = s[k]
        /\ \A j \in DOMAIN a : b[j] = a[j]
    BY Extending DEF MergeHolds
  <2> HIDE DEF b
  <2>3. \A i, j \in DOMAIN b : b[i].id = b[j].id => i = j
    BY <1>3, <2>2 DEF MergeHolds
  <2>4. \A j \in DOMAIN b : \E i \in 1 .. k : b[j] = s[i]
    BY <1>1, <2>2 DEF MergeHolds
  <2>5. ASSUME NEW i \in 1 .. k
        PROVE  \E j \in DOMAIN b : b[j].id = s[i].id
    <3>1. CASE i = k
      BY <2>2, <3>1
    <3>2. CASE i \in 1 .. k - 1
      <4>1. PICK j \in DOMAIN a : a[j].id = s[i].id
        BY <3>2 DEF MergeHolds
      <4> QED BY <2>2, <4>1
    <3> QED BY <1>1, <3>1, <3>2
  <2>6. MergeHolds(0, s, k, b)
    BY ONLY <2>2, <2>3, <2>4, <2>5, ZenonT(30) DEF MergeHolds
  <2> QED BY ONLY <2>1, <2>6, Zenon
<1> QED BY <1>2, <1>3

LEMMA DistinctIds ==
  ASSUME NEW d, SomeSeq(d), \A i, j \in DOMAIN d : d[i].id = d[j].id => i = j
  PROVE  Cardinality(Ids(d)) = Len(d)
<1> DEFINE n == Len(d)
           f == [k \in 1 .. n |-> d[k].id]
<1>1. n \in Nat /\ DOMAIN d = 1 .. n
  BY SomeLen
<1> HIDE DEF n
<1>2. f \in [1 .. n -> Ids(d)] /\ IsInjective(f)
  BY <1>1 DEF Ids, IsInjective
<1>3. \A x \in Ids(d) : \E k \in 1 .. n : f[k] = x
  BY <1>1 DEF Ids
<1> HIDE DEF f
<1>4. f \in Bijection(1 .. n, Ids(d))
  BY <1>2, <1>3 DEF Bijection, Injection, Surjection
<1>5. ExistsBijection(1 .. n, Ids(d))
  BY <1>4 DEF ExistsBijection
<1> QED BY <1>1, <1>5, FS_CountingElements DEF n

LEMMA MergedAgrees ==
  ASSUME NEW graph, NEW existing, Severe(existing), Within(existing, graph),
         NEW found, Severe(found), Agrees(found, graph)
  PROVE  LET merged == MergeDetections(existing, found) IN
         /\ Severe(merged) /\ Agrees(merged, graph) /\ Ids(existing) \subseteq Ids(merged)
         /\ Cardinality(Ids(merged)) = Len(merged)
<1> DEFINE all == existing \o found
           merged == MergeDetections(existing, found)
<1>1. merged = Merging!Folded(0, all)
  BY DEF MergeDetections, MergeStep, MergeStart, Merging!Folded, FoldLeft, MapThenFoldSet, Max,
         Merging!FoldLeft, Merging!MapThenFoldSet, Merging!Max
<1>2. /\ SomeSeq(all)
      /\ \A k \in DOMAIN existing : k \in DOMAIN all /\ all[k] = existing[k]
      /\ \A k \in DOMAIN found : \E j \in DOMAIN all : all[j] = found[k]
      /\ \A j \in DOMAIN all : \/ j \in DOMAIN existing /\ all[j] = existing[j]
                             \/ \E k \in DOMAIN found : all[j] = found[k]
  <2>1. Joins(existing, found, all)
    BY Joining DEF Severe
  <2> HIDE DEF all
  <2> QED BY <2>1 DEF Joins
<1> HIDE DEF all, merged
<1>3. MergeHolds(0, all, 0, MergeStart(0))
  BY NothingIsSome DEF MergeHolds, MergeStart
<1>4. PICK S : all \in Seq(S)
  BY <1>2 DEF SomeSeq
<1>5. ASSUME NEW k \in 1 .. Len(all), NEW a, MergeHolds(0, all, k - 1, a)
      PROVE  MergeHolds(0, all, k, MergeStep(0, a, all[k]))
  <2>1. k \in Nat /\ k # 0
    BY <1>4
  <2> QED BY <1>5, <2>1, MergeStepHolds
<1>6. MergeHolds(0, all, Len(all), merged)
  BY <1>1, <1>3, <1>4, <1>5, Merging!FoldHolds
<1>7. DOMAIN all = 1 .. Len(all)
  BY <1>4
<1>8. /\ SomeSeq(merged)
      /\ \A i, j \in DOMAIN merged : merged[i].id = merged[j].id => i = j
      /\ \A j \in DOMAIN merged : \E i \in DOMAIN all : merged[j] = all[i]
      /\ \A i \in DOMAIN all : \E j \in DOMAIN merged : merged[j].id = all[i].id
  BY <1>6, <1>7 DEF MergeHolds
<1>9. \A j \in DOMAIN merged : \/ \E k \in DOMAIN existing : merged[j] = existing[k]
                              \/ \E k \in DOMAIN found : merged[j] = found[k]
  BY <1>2, <1>8
<1>10. Severe(merged)
  BY <1>8, <1>9 DEF Severe
<1>11. Ids(existing) \subseteq Ids(merged)
  <2>1. \A k \in DOMAIN existing : \E j \in DOMAIN merged : merged[j].id = existing[k].id
    BY <1>2, <1>8
  <2> QED BY <2>1 DEF Ids
<1>15. Ids(found) \subseteq Ids(merged)
  <2>1. \A k \in DOMAIN found : \E j \in DOMAIN merged : merged[j].id = found[k].id
    <3> SUFFICES ASSUME NEW k \in DOMAIN found
                 PROVE  \E j \in DOMAIN merged : merged[j].id = found[k].id
      OBVIOUS
    <3>1. PICK i \in DOMAIN all : all[i] = found[k]
      BY <1>2
    <3> QED BY <1>8, <3>1
  <2> QED BY <2>1 DEF Ids
<1>12. \A x \in Ids(merged) : x \in Ids(existing) \/ x \in Ids(found)
  BY <1>9 DEF Ids
<1>13. ASSUME NEW b \in DOMAIN Builtins
       PROVE  /\ BuiltinFires(Builtins[b].id, graph) <=> Builtins[b].id \in Ids(merged)
              /\ \A k \in DOMAIN merged : merged[k].id = Builtins[b].id =>
                   merged[k].severity = Builtins[b].severity
  BY <1>9, <1>12, <1>15 DEF Agrees, Within
<1>14. Cardinality(Ids(merged)) = Len(merged)
  BY <1>8, DistinctIds
<1> QED BY <1>10, <1>11, <1>13, <1>14 DEF Agrees, merged

-----------------------------------------------------------------------------
(* Paths through the graph *)

PathStep(r, up, node) ==
    Append(up, {Len(up) + 1} \cup IF node.parent = 0 THEN {} ELSE up[node.parent])
PathStart(r) == <<>>
PathHolds(r, s, k, up) ==
    /\ SomeSeq(up) /\ Len(up) = k
    /\ \A i \in 1 .. k :
         /\ up[i] = {i} \cup IF s[i].parent = 0 THEN {} ELSE up[s[i].parent]
         /\ up[i] \in SUBSET (1 .. i)
Tracing == INSTANCE FoldInduction WITH Step <- PathStep, Start <- PathStart, Holds <- PathHolds

LEMMA LineageIs ==
  ASSUME NEW graph \in Reports
  PROVE  /\ SomeSeq(Lineage(graph)) /\ Len(Lineage(graph)) = Len(graph.nodes)
         /\ \A i \in Nodes(graph) :
              /\ Lineage(graph)[i] = {i} \cup IF graph.nodes[i].parent = 0 THEN {}
                                            ELSE Lineage(graph)[graph.nodes[i].parent]
              /\ Lineage(graph)[i] \in SUBSET (1 .. i)
<1> DEFINE s == graph.nodes
<1>1. Lineage(graph) = Tracing!Folded(0, s)
  BY DEF Lineage, PathStep, PathStart, Tracing!Folded, FoldLeft, MapThenFoldSet, Max,
         Tracing!FoldLeft, Tracing!MapThenFoldSet, Tracing!Max
<1>2. s \in Seq(ToSet(s)) /\ \A i \in DOMAIN s : s[i].parent \in 0 .. i - 1
  BY JudgementAssumption DEF IsSeq, Nodes
<1> HIDE DEF s
<1>3. DOMAIN s = 1 .. Len(s) /\ Len(s) \in Nat
  BY <1>2
<1>4. PathHolds(0, s, 0, PathStart(0))
  BY NothingIsSome DEF PathHolds, PathStart
<1>5. ASSUME NEW k \in 1 .. Len(s), NEW a, PathHolds(0, s, k - 1, a)
      PROVE  PathHolds(0, s, k, PathStep(0, a, s[k]))
  <2> DEFINE x == {Len(a) + 1} \cup IF s[k].parent = 0 THEN {} ELSE a[s[k].parent]
             b == Append(a, x)
  <2>1. PathStep(0, a, s[k]) = b
    BY DEF PathStep
  <2>2. Len(a) + 1 = k /\ k \in Nat /\ s[k].parent \in 0 .. k - 1
    BY <1>2, <1>3, <1>5 DEF PathHolds
  <2>3. /\ SomeSeq(b) /\ Len(b) = k /\ b[k] = x /\ DOMAIN a = 1 .. k - 1
        /\ \A j \in 1 .. k - 1 : b[j] = a[j]
    BY <1>5, <2>2, Extending, SomeLen DEF PathHolds
  <2>4. x = {k} \cup IF s[k].parent = 0 THEN {} ELSE b[s[k].parent]
    BY <2>2, <2>3
  <2>5. x \in SUBSET (1 .. k)
    BY <1>5, <2>2 DEF PathHolds
  <2> HIDE DEF b, x
  <2>6. ASSUME NEW i \in 1 .. k - 1
        PROVE  /\ b[i] = {i} \cup IF s[i].parent = 0 THEN {} ELSE b[s[i].parent]
               /\ b[i] \in SUBSET (1 .. i)
    <3>1. i \in DOMAIN s /\ s[i].parent \in 0 .. i - 1
      BY <1>2, <1>3
    <3>2. s[i].parent # 0 => s[i].parent \in 1 .. k - 1
      BY <2>2, <3>1
    <3> QED BY <1>5, <2>3, <3>2 DEF PathHolds
  <2>7. 1 .. k = (1 .. k - 1) \cup {k}
    BY <2>2
  <2> QED BY <2>1, <2>3, <2>4, <2>5, <2>6, <2>7 DEF PathHolds
<1>6. PathHolds(0, s, Len(s), Lineage(graph))
  BY <1>1, <1>2, <1>4, <1>5, Tracing!FoldHolds
<1> QED BY <1>3, <1>6 DEF PathHolds, Nodes, s

\* The layers along a path.
Peeled(graph, path) ==
    Cardinality({i \in path : Base64Weight(graph.nodes[i]) = 1})
    + 2 * Cardinality({i \in path : Base64Weight(graph.nodes[i]) = 2})

LEMMA PeeledBy ==
  ASSUME NEW graph, NEW P, IsFiniteSet(P), NEW i, i \notin P
  PROVE  /\ Peeled(graph, {}) = 0 /\ Peeled(graph, P) \in Nat
         /\ Peeled(graph, {i} \cup P) = Base64Weight(graph.nodes[i]) + Peeled(graph, P)
<1> DEFINE w(j) == Base64Weight(graph.nodes[j])
           One(Q) == {j \in Q : w(j) = 1}
           Two(Q) == {j \in Q : w(j) = 2}
<1>1. w(i) \in {0, 1, 2}
  BY DEF Base64Weight
<1>2. IsFiniteSet(One(P)) /\ IsFiniteSet(Two(P)) /\ i \notin One(P) /\ i \notin Two(P)
  BY FS_Subset
<1>3. Cardinality(One(P)) \in Nat /\ Cardinality(Two(P)) \in Nat
  BY <1>2, FS_CardinalityType
<1>4. Cardinality({}) = 0
  BY FS_EmptySet
<1>5. One({}) = {} /\ Two({}) = {}
  OBVIOUS
<1>6. /\ Peeled(graph, {}) = Cardinality(One({})) + 2 * Cardinality(Two({}))
      /\ Peeled(graph, P) = Cardinality(One(P)) + 2 * Cardinality(Two(P))
      /\ Peeled(graph, {i} \cup P) = Cardinality(One({i} \cup P)) + 2 * Cardinality(Two({i} \cup P))
  BY DEF Peeled
<1>7. One({i} \cup P) = IF w(i) = 1 THEN One(P) \cup {i} ELSE One(P)
  OBVIOUS
<1>8. Two({i} \cup P) = IF w(i) = 2 THEN Two(P) \cup {i} ELSE Two(P)
  OBVIOUS
<1>9. /\ Cardinality(One(P) \cup {i}) = Cardinality(One(P)) + 1
      /\ Cardinality(Two(P) \cup {i}) = Cardinality(Two(P)) + 1
  <2>1. Cardinality(One(P) \cup {i}) = Cardinality(One(P)) + 1
    <3> HIDE DEF One
    <3> QED BY <1>2, FS_AddElement
  <2>2. Cardinality(Two(P) \cup {i}) = Cardinality(Two(P)) + 1
    <3> HIDE DEF Two
    <3> QED BY <1>2, FS_AddElement
  <2> QED BY <2>1, <2>2
<1> HIDE DEF w, One, Two
<1>10. Peeled(graph, {i} \cup P) = w(i) + Peeled(graph, P)
  BY <1>1, <1>3, <1>6, <1>7, <1>8, <1>9
<1>11. Peeled(graph, {}) = 0 /\ Peeled(graph, P) \in Nat
  <2>1. Cardinality(One({})) = 0 /\ Cardinality(Two({})) = 0
    BY <1>4, <1>5
  <2>2. Peeled(graph, {}) = 0
    BY <1>6, <2>1
  <2>3. Peeled(graph, P) \in Nat
    BY <1>3, <1>6
  <2> QED BY <2>2, <2>3
<1> QED BY <1>10, <1>11 DEF w

ScoreStep(r, score, node) ==
    Append(score, Base64Weight(node) + IF node.parent = 0 THEN 0 ELSE score[node.parent])
ScoreStart(r) == <<>>
ScoreHolds(r, s, k, score) ==
    /\ SomeSeq(score) /\ Len(score) = k
    /\ \A i \in 1 .. k : score[i] = Peeled(r, Lineage(r)[i])
Scoring == INSTANCE FoldInduction WITH Step <- ScoreStep, Start <- ScoreStart, Holds <- ScoreHolds

LEMMA ScoresAreLayers ==
  ASSUME NEW graph \in Reports, NEW i \in Nodes(graph)
  PROVE  PathScores(graph)[i] = Peeled(graph, Lineage(graph)[i])
<1> DEFINE s == graph.nodes
<1>1. PathScores(graph) = Scoring!Folded(graph, s)
  BY DEF PathScores, ScoreStep, ScoreStart, Scoring!Folded, FoldLeft, MapThenFoldSet, Max,
         Scoring!FoldLeft, Scoring!MapThenFoldSet, Scoring!Max
<1>2. s \in Seq(ToSet(s)) /\ \A j \in DOMAIN s : s[j].parent \in 0 .. j - 1
  BY JudgementAssumption DEF IsSeq, Nodes
<1>3. DOMAIN s = 1 .. Len(s) /\ Len(s) \in Nat /\ Nodes(graph) = 1 .. Len(s)
  BY <1>2 DEF Nodes
<1>4. ScoreHolds(graph, s, 0, ScoreStart(graph))
  BY NothingIsSome DEF ScoreHolds, ScoreStart
<1>5. ASSUME NEW k \in 1 .. Len(s), NEW a, ScoreHolds(graph, s, k - 1, a)
      PROVE  ScoreHolds(graph, s, k, ScoreStep(graph, a, s[k]))
  <2> DEFINE P == IF s[k].parent = 0 THEN {} ELSE Lineage(graph)[s[k].parent]
             x == Base64Weight(s[k]) + IF s[k].parent = 0 THEN 0 ELSE a[s[k].parent]
             b == Append(a, x)
  <2>1. ScoreStep(graph, a, s[k]) = b
    BY DEF ScoreStep
  <2>2. k \in Nat /\ s[k].parent \in 0 .. k - 1 /\ k \in Nodes(graph)
    BY <1>2, <1>3
  <2>3. Lineage(graph)[k] = {k} \cup P
    BY <2>2, LineageIs
  <2>4. IsFiniteSet(P) /\ k \notin P
    <3>1. CASE s[k].parent = 0
      BY <3>1, FS_EmptySet
    <3>2. CASE s[k].parent # 0
      <4> DEFINE p == s[k].parent
      <4>1. p \in Nodes(graph) /\ p \in Int /\ ~(k <= p)
        BY <1>3, <2>2, <3>2
      <4>2. Lineage(graph)[p] \in SUBSET (1 .. p)
        BY <4>1, LineageIs
      <4>3. IsFiniteSet(1 .. p)
        <5> HIDE DEF p
        <5> QED BY <4>1, FS_Interval
      <4> QED BY <3>2, <4>1, <4>2, <4>3, FS_Subset
    <3> QED BY <3>1, <3>2
  <2>5. Peeled(graph, Lineage(graph)[k]) = Base64Weight(s[k]) + Peeled(graph, P)
    <3> HIDE DEF P
    <3>1. Peeled(graph, {k} \cup P) = Base64Weight(graph.nodes[k]) + Peeled(graph, P)
      BY <2>4, PeeledBy
    <3> QED BY <2>3, <3>1
  <2>6. (IF s[k].parent = 0 THEN 0 ELSE a[s[k].parent]) = Peeled(graph, P)
    <3>1. CASE s[k].parent = 0
      BY <2>4, <3>1, PeeledBy
    <3>2. CASE s[k].parent # 0
      <4>1. s[k].parent \in 1 .. k - 1
        BY <2>2, <3>2
      <4> QED BY <1>5, <3>2, <4>1 DEF ScoreHolds
    <3> QED BY <3>1, <3>2
  <2>7. x = Peeled(graph, Lineage(graph)[k])
    BY <2>5, <2>6
  <2> HIDE DEF x
  <2>8. Len(a) + 1 = k
    BY <1>5, <2>2 DEF ScoreHolds
  <2>9. /\ SomeSeq(b) /\ Len(b) = k /\ b[k] = x
        /\ \A j \in 1 .. k - 1 : b[j] = a[j]
    BY <1>5, <2>2, <2>8, Extending, SomeLen DEF ScoreHolds
  <2> HIDE DEF b
  <2>10. 1 .. k = (1 .. k - 1) \cup {k}
    BY <2>2
  <2> QED BY <1>5, <2>1, <2>7, <2>9, <2>10 DEF ScoreHolds
<1>6. ScoreHolds(graph, s, Len(s), PathScores(graph))
  <2> HIDE DEF s
  <2> QED BY <1>1, <1>2, <1>4, <1>5, Scoring!FoldHolds
<1> QED BY <1>3, <1>6 DEF ScoreHolds

\* Nested Base64 is found exactly when a path peels three layers.
LEMMA DeepBase64Is ==
  ASSUME NEW graph \in Reports
  PROVE  BuiltinFires("TITAN-001", graph) <=> \E path \in Paths(graph) : Peeled(graph, path) >= 3
<1>1. BuiltinFires("TITAN-001", graph) <=> DeepBase64(graph)
  BY DEF BuiltinFires
<1>2. DeepBase64(graph) <=> \E i \in Nodes(graph) : Peeled(graph, Lineage(graph)[i]) >= 3
  BY ScoresAreLayers DEF DeepBase64
<1> QED BY <1>1, <1>2 DEF Paths

-----------------------------------------------------------------------------
(* The risk *)

FloorStep(r, top, d) == Most(top, Floors[d.severity])
PointStep(r, sum, d) == sum + Points[d.severity]
DeepStep(r, top, i) == Most(top, Depth(r, i))
FromNothing(r) == 0
FloorHolds(r, s, k, top) == top \in 0 .. 75 /\ \A i \in 1 .. k : top >= Floors[s[i].severity]
SumHolds(r, s, k, sum) == sum \in Nat
Flooring == INSTANCE FoldInduction WITH Step <- FloorStep, Start <- FromNothing, Holds <- FloorHolds
Summing == INSTANCE FoldInduction WITH Step <- PointStep, Start <- FromNothing, Holds <- SumHolds
Deepening == INSTANCE FoldInduction WITH Step <- DeepStep, Start <- FromNothing, Holds <- SumHolds

LEMMA MostAndLeast ==
  ASSUME NEW m \in Int, NEW n \in Int
  PROVE  /\ Most(m, n) \in {m, n} /\ Most(m, n) >= m /\ Most(m, n) >= n
         /\ Least(m, n) \in {m, n} /\ Least(m, n) \in Int
BY DEF Most, Least

LEMMA Capped ==
  ASSUME NEW n \in Nat
  PROVE  /\ Least(2 * n, 10) \in Int /\ Least(2 * n, 20) \in Int /\ Least(3 * n, 30) \in Int
         /\ Least(4 * n, 40) \in Int /\ Least(20 * n, 60) \in Int
BY DEF Least

LEMMA FloorsAndPoints ==
  ASSUME NEW severity \in DOMAIN Floors
  PROVE  Floors[severity] \in 0 .. 75 /\ Points[severity] \in Nat
BY DEF Floors, Points

LEMMA FloorStepHolds ==
  ASSUME NEW s, NEW k \in Nat, k # 0, NEW a, FloorHolds(0, s, k - 1, a),
         \A i \in 1 .. k : s[i].severity \in DOMAIN Floors
  PROVE  FloorHolds(0, s, k, FloorStep(0, a, s[k]))
<1> DEFINE f == Floors[s[k].severity]
           top == Most(a, f)
<1>1. k \in 1 .. k /\ 1 .. k = (1 .. k - 1) \cup {k}
  OBVIOUS
<1>2. \A i \in 1 .. k : Floors[s[i].severity] \in 0 .. 75
  BY FloorsAndPoints
<1>3. a \in 0 .. 75 /\ \A i \in 1 .. k - 1 : a >= Floors[s[i].severity]
  BY DEF FloorHolds
<1>4. FloorStep(0, a, s[k]) = top
  BY DEF FloorStep
<1>5. f \in 0 .. 75
  BY <1>1, <1>2
<1> HIDE DEF f
<1>6. top \in 0 .. 75 /\ top >= a /\ top >= f
  BY <1>3, <1>5 DEF Most
<1> HIDE DEF top
<1>7. ASSUME NEW i \in 1 .. k
      PROVE  top >= Floors[s[i].severity]
  <2>1. CASE i = k
    BY <1>6, <2>1 DEF f
  <2>2. CASE i \in 1 .. k - 1
    <3>1. Floors[s[i].severity] \in 0 .. 75 /\ a >= Floors[s[i].severity]
      BY <1>2, <1>3, <2>2
    <3> QED BY <1>3, <1>6, <3>1
  <2> QED BY <1>1, <2>1, <2>2
<1> QED BY <1>4, <1>6, <1>7 DEF FloorHolds

LEMMA FloorIsReached ==
  ASSUME NEW detections, Severe(detections)
  PROVE  /\ Floor(detections) \in 0 .. 75
         /\ \A k \in DOMAIN detections : Floor(detections) >= Floors[detections[k].severity]
<1>1. Floor(detections) = Flooring!Folded(0, detections)
  BY DEF Floor, FloorStep, FromNothing, Flooring!Folded, FoldLeft, MapThenFoldSet, Max,
         Flooring!FoldLeft, Flooring!MapThenFoldSet, Flooring!Max
<1>2. PICK S : detections \in Seq(S)
  BY DEF Severe, SomeSeq
<1>3. DOMAIN detections = 1 .. Len(detections) /\ Len(detections) \in Nat
  BY <1>2
<1>4. FloorHolds(0, detections, 0, FromNothing(0))
  BY DEF FloorHolds, FromNothing
<1>5. ASSUME NEW k \in 1 .. Len(detections), NEW a, FloorHolds(0, detections, k - 1, a)
      PROVE  FloorHolds(0, detections, k, FloorStep(0, a, detections[k]))
  <2>1. k \in Nat /\ k # 0
    BY <1>3
  <2>2. \A i \in 1 .. k : detections[i].severity \in DOMAIN Floors
    <3>1. \A i \in 1 .. k : i \in DOMAIN detections
      BY <1>3
    <3> QED BY <3>1 DEF Severe
  <2> QED BY <1>5, <2>1, <2>2, FloorStepHolds
<1>6. FloorHolds(0, detections, Len(detections), Floor(detections))
  BY <1>1, <1>2, <1>4, <1>5, Flooring!FoldHolds
<1> QED BY <1>3, <1>6 DEF FloorHolds

LEMMA PointsAddUp ==
  ASSUME NEW detections, Severe(detections)
  PROVE  FoldLeft(LAMBDA sum, d : sum + Points[d.severity], 0, detections) \in Nat
<1> DEFINE total == FoldLeft(LAMBDA sum, d : sum + Points[d.severity], 0, detections)
<1>1. total = Summing!Folded(0, detections)
  BY DEF PointStep, FromNothing, Summing!Folded, FoldLeft, MapThenFoldSet, Max,
         Summing!FoldLeft, Summing!MapThenFoldSet, Summing!Max
<1> HIDE DEF total
<1>2. PICK S : detections \in Seq(S)
  BY DEF Severe, SomeSeq
<1>3. DOMAIN detections = 1 .. Len(detections)
  BY <1>2
<1>4. SumHolds(0, detections, 0, FromNothing(0))
  BY DEF SumHolds, FromNothing
<1>5. ASSUME NEW k \in 1 .. Len(detections), NEW a, SumHolds(0, detections, k - 1, a)
      PROVE  SumHolds(0, detections, k, PointStep(0, a, detections[k]))
  <2>1. Points[detections[k].severity] \in Nat
    BY <1>3, FloorsAndPoints DEF Severe
  <2> QED BY <1>5, <2>1 DEF SumHolds, PointStep
<1>6. SumHolds(0, detections, Len(detections), total)
  BY <1>1, <1>2, <1>4, <1>5, Summing!FoldHolds
<1> QED BY <1>6 DEF SumHolds, total

LEMMA DeepestIsNumber ==
  ASSUME NEW graph \in Reports
  PROVE  Deepest(graph) \in Nat
<1> DEFINE nodes == [i \in Nodes(graph) |-> i]
<1>1. Deepest(graph) = Deepening!Folded(graph, nodes)
  BY DEF Deepest, DeepStep, FromNothing, Deepening!Folded, FoldLeft, MapThenFoldSet, Max,
         Deepening!FoldLeft, Deepening!MapThenFoldSet, Deepening!Max
<1>2. nodes \in Seq(Nat) /\ \A k \in 1 .. Len(nodes) : nodes[k] \in Nodes(graph)
  <2>1. Len(graph.nodes) \in Nat /\ DOMAIN graph.nodes = 1 .. Len(graph.nodes)
    BY JudgementAssumption DEF IsSeq
  <2> QED BY <2>1 DEF Nodes
<1> HIDE DEF nodes
<1>3. SumHolds(graph, nodes, 0, FromNothing(graph))
  BY DEF SumHolds, FromNothing
<1>4. ASSUME NEW i \in Nodes(graph)
      PROVE  Depth(graph, i) \in Nat
  <2>1. /\ Lineage(graph)[i] \in SUBSET (1 .. i) /\ i \in Lineage(graph)[i]
    BY LineageIs
  <2>2. i \in Int
    <3>1. DOMAIN graph.nodes = 1 .. Len(graph.nodes)
      BY JudgementAssumption DEF IsSeq
    <3> QED BY <3>1 DEF Nodes
  <2>3. IsFiniteSet(1 .. i)
    BY <2>2, FS_Interval
  <2>4. IsFiniteSet(Lineage(graph)[i])
    BY <2>1, <2>3, FS_Subset
  <2>5. Cardinality(Lineage(graph)[i]) \in Nat /\ Cardinality(Lineage(graph)[i]) # 0
    BY <2>1, <2>4, FS_CardinalityType, FS_EmptySet
  <2> QED BY <2>5 DEF Depth
<1>5. ASSUME NEW k \in 1 .. Len(nodes), NEW a, SumHolds(graph, nodes, k - 1, a)
      PROVE  SumHolds(graph, nodes, k, DeepStep(graph, a, nodes[k]))
  <2>1. Depth(graph, nodes[k]) \in Nat
    BY <1>2, <1>4
  <2> QED BY <1>5, <2>1 DEF SumHolds, DeepStep, Most
<1>6. SumHolds(graph, nodes, Len(nodes), Deepest(graph))
  BY <1>1, <1>2, <1>3, <1>5, Deepening!FoldHolds
<1> QED BY <1>6 DEF SumHolds

LEMMA RiskReachesFloors ==
  ASSUME NEW graph \in Reports, NEW detections, Severe(detections),
         NEW matches, SomeSeq(matches)
  PROVE  \A k \in DOMAIN detections :
           Risk(graph, detections, matches) >= Floors[detections[k].severity]
<1> DEFINE total == FoldLeft(LAMBDA sum, d : sum + Points[d.severity], 0, detections)
           first == \E i \in Nodes(graph) : i <= 3 /\ graph.nodes[i].entropy > 75
<1>1. total \in Nat
  BY PointsAddUp
<1>2. Deepest(graph) \in Nat /\ Len(matches) \in Nat
  BY DeepestIsNumber, SomeLen
<1>3. /\ graph.iocs.ipv4_public \in Nat /\ graph.iocs.urls \in Nat
      /\ graph.iocs.domains \in Nat /\ graph.iocs.emails \in Nat
  BY JudgementAssumption
<1>4. Additive(graph, detections, matches) =
        total
        + Least(3 * graph.iocs.ipv4_public, 30) + Least(4 * graph.iocs.urls, 40)
        + Least(3 * graph.iocs.domains, 30) + Least(2 * graph.iocs.emails, 10)
        + Least(2 * Deepest(graph), 20) + (IF first THEN 10 ELSE 0)
        + Least(20 * Len(matches), 60)
  BY DEF Additive
<1> HIDE DEF total, first
<1>5. \A m \in Int, n \in Int : Least(m, n) \in Int /\ Most(m, n) \in Int /\ Most(m, n) >= n
  BY DEF Least, Most
<1>6. Additive(graph, detections, matches) \in Int
  <2>1. /\ Least(3 * graph.iocs.ipv4_public, 30) \in Int
        /\ Least(4 * graph.iocs.urls, 40) \in Int
        /\ Least(3 * graph.iocs.domains, 30) \in Int
        /\ Least(2 * graph.iocs.emails, 10) \in Int
        /\ Least(2 * Deepest(graph), 20) \in Int
        /\ Least(20 * Len(matches), 60) \in Int
    BY <1>2, <1>3, Capped
  <2>2. (IF first THEN 10 ELSE 0) \in Int
    OBVIOUS
  <2> DEFINE b == Least(3 * graph.iocs.ipv4_public, 30)
             c == Least(4 * graph.iocs.urls, 40)
             d == Least(3 * graph.iocs.domains, 30)
             e == Least(2 * graph.iocs.emails, 10)
             f == Least(2 * Deepest(graph), 20)
             g == IF first THEN 10 ELSE 0
             h == Least(20 * Len(matches), 60)
  <2>3. Additive(graph, detections, matches) = total + b + c + d + e + f + g + h
    BY <1>4
  <2>4. /\ total \in Int /\ b \in Int /\ c \in Int /\ d \in Int
        /\ e \in Int /\ f \in Int /\ g \in Int /\ h \in Int
    BY <1>1, <2>1, <2>2
  <2> HIDE DEF b, c, d, e, f, g, h
  <2> QED BY <2>3, <2>4
<1>7. Floor(detections) \in 0 .. 75
  BY FloorIsReached
<1>8. Risk(graph, detections, matches) >= Floor(detections)
      /\ Risk(graph, detections, matches) \in Int
  BY <1>6, <1>7 DEF Risk, Least, Most
<1>9. ASSUME NEW k \in DOMAIN detections
      PROVE  Risk(graph, detections, matches) >= Floors[detections[k].severity]
  <2>1. Floor(detections) >= Floors[detections[k].severity]
    BY FloorIsReached
  <2>2. Floors[detections[k].severity] \in Int
    BY FloorsAndPoints DEF Severe
  <2> QED BY <1>7, <1>8, <2>1, <2>2
<1> QED BY <1>9

-----------------------------------------------------------------------------
(* The stages *)

RatedFields ==
    rated = [detections |-> rated.detections, matches |-> rated.matches, risk |-> rated.risk,
             first |-> rated.first, intelligence |-> rated.intelligence]

JudgeInv ==
    /\ stage \in {"rules", "plugins", "yara", "risk", "static", "done", "failed"}
    /\ report.graph \in Reports /\ report.configured \in Packs /\ report.given \in Packs
    /\ RatedFields
    /\ Severe(rated.detections)
    /\ Within(rated.detections, report.graph)
    /\ stage = "done" => Agrees(rated.detections, report.graph)
    /\ stage = "failed" => Breaks(ToSet(report.configured) \cup ToSet(report.given))
    /\ SomeSeq(rated.matches)
    /\ stage \in {"rules", "plugins", "yara"} => rated.matches = <<>>
    /\ \A k \in DOMAIN rated.matches : rated.matches[k].rule \in Ids(rated.detections)
    /\ stage \in {"static", "done"} =>
         \A k \in DOMAIN rated.detections :
             rated.risk >= Floors[rated.detections[k].severity]
    /\ stage = "done" => Cardinality(Ids(rated.detections)) = Len(rated.detections)

\* What other sources than the rules add disturbs nothing.
LEMMA AddedStaysWithin ==
  ASSUME NEW graph, NEW existing, Severe(existing), Within(existing, graph),
         NEW found, Severe(found),
         Ids(found) \subseteq DOMAIN PluginRules \cup DOMAIN YaraHits
  PROVE  /\ Severe(existing \o found) /\ Within(existing \o found, graph)
         /\ Ids(existing) \subseteq Ids(existing \o found)
         /\ Ids(found) \subseteq Ids(existing \o found)
<1> DEFINE all == existing \o found
<1>1. /\ SomeSeq(all)
      /\ \A k \in DOMAIN existing : k \in DOMAIN all /\ all[k] = existing[k]
      /\ \A k \in DOMAIN found : \E j \in DOMAIN all : all[j] = found[k]
      /\ \A j \in DOMAIN all : \/ j \in DOMAIN existing /\ all[j] = existing[j]
                             \/ \E k \in DOMAIN found : all[j] = found[k]
  <2>1. Joins(existing, found, all)
    BY Joining DEF Severe
  <2> HIDE DEF all
  <2> QED BY <2>1 DEF Joins
<1> HIDE DEF all
<1>2. Severe(all)
  BY <1>1 DEF Severe
<1>3. Ids(existing) \subseteq Ids(all) /\ Ids(found) \subseteq Ids(all)
  BY <1>1 DEF Ids
<1>4. \A b \in DOMAIN Builtins : Builtins[b].id \notin Ids(found)
  BY JudgementAssumption
<1>5. ASSUME NEW b \in DOMAIN Builtins
      PROVE  /\ Builtins[b].id \in Ids(all) => BuiltinFires(Builtins[b].id, graph)
             /\ \A k \in DOMAIN all : all[k].id = Builtins[b].id =>
                  all[k].severity = Builtins[b].severity
  <2>1. \A k \in DOMAIN found : found[k].id # Builtins[b].id
    BY <1>4 DEF Ids
  <2>2. Builtins[b].id \in Ids(all) => Builtins[b].id \in Ids(existing)
    BY <1>1, <2>1 DEF Ids
  <2> QED BY <1>1, <1>3, <2>1, <2>2 DEF Within
<1> QED BY <1>2, <1>3, <1>5 DEF Within, all

LEMMA JudgeInvInit == JudgeInit => JudgeInv
<1> SUFFICES ASSUME JudgeInit PROVE JudgeInv
  OBVIOUS
<1>1. report.graph \in Reports /\ report.configured \in Packs /\ report.given \in Packs
  BY DEF JudgeInit
<1>2. /\ RatedFields /\ rated.detections = <<>> /\ rated.matches = <<>>
      /\ stage \in {"rules", "static"}
  BY DEF JudgeInit, RatedFields
<1>3. DOMAIN rated.detections = {} /\ Ids(rated.detections) = {}
  BY <1>2 DEF Ids
<1>4. Severe(rated.detections) /\ Within(rated.detections, report.graph)
  BY <1>2, <1>3, NothingIsSome DEF Severe, Within
<1> QED BY <1>1, <1>2, <1>3, <1>4, NothingIsSome DEF JudgeInv

LEMMA JudgeInvStep == JudgeInv /\ [JudgeNext]_judgeVars => JudgeInv'
<1> SUFFICES ASSUME JudgeInv, [JudgeNext]_judgeVars PROVE JudgeInv'
  OBVIOUS
<1> USE DEF JudgeInv
<1>1. CASE RunRules
  <2>0. CASE Breaks(ToSet(report.configured) \cup ToSet(report.given))
    <3>1. /\ stage = "rules" /\ stage' = "failed"
          /\ UNCHANGED <<rated, report>>
      BY <1>1, <2>0 DEF RunRules
    <3>2. (Breaks(ToSet(report.configured) \cup ToSet(report.given)))'
      BY <2>0, <3>1
    <3> QED BY <3>1, <3>2 DEF RatedFields
  <2>00. SUFFICES ASSUME ~Breaks(ToSet(report.configured) \cup ToSet(report.given))
                  PROVE  JudgeInv'
    BY <2>0
  <2> DEFINE rules == RulesOf(report.configured \o report.given)
  <2>1. PICK expired \in SUBSET Slow(rules) :
          rated' = [rated EXCEPT !.detections = Evaluated(rules, report.graph, expired)]
    BY <1>1, <2>00 DEF RunRules
  <2>2. Keeps(rules)
    BY ConfiguredRulesKeep
  <2> HIDE DEF rules
  <2> DEFINE found == Evaluated(rules, report.graph, expired)
  <2>3. Severe(found) /\ Agrees(found, report.graph)
    BY <2>2, EvaluatedAgrees
  <2> HIDE DEF found
  <2>4. /\ RatedFields' /\ rated'.detections = found /\ rated'.matches = rated.matches
        /\ report' = report /\ stage = "rules" /\ stage' = "plugins"
    BY <1>1, <2>00, <2>1 DEF RunRules, RatedFields, found
  <2>5. Within(found, report.graph)
    BY <2>3 DEF Agrees, Within
  <2> QED BY <2>3, <2>4, <2>5
<1>2. CASE RunPlugins
  <2>1. PICK n \in 0 .. 2, ids \in [1 .. 2 -> DOMAIN PluginRules \cup {"undeclared"}] :
          rated' = [rated EXCEPT !.detections =
                      @ \o PluginFindings(SubSeq(ids, 1, Least(n, MaxFindings)))]
    BY <1>2 DEF RunPlugins
  <2> DEFINE emitted == SubSeq(ids, 1, Least(n, MaxFindings))
             found == PluginFindings(emitted)
  <2>2. SomeSeq(emitted)
    <3> DEFINE S == DOMAIN PluginRules \cup {"undeclared"}
    <3>1. ids \in Seq(S) /\ Len(ids) = 2
      <4> HIDE DEF S
      <4>1. ids \in [1 .. 2 -> S]
        BY DEF S
      <4> QED BY <4>1, FunctionIsSeq, ZenonT(30)
    <3>2. Least(n, MaxFindings) \in 0 .. 2
      BY JudgementAssumption DEF Least
    <3> HIDE DEF S
    <3>3. emitted \in Seq(S)
      BY <3>1, <3>2, Prefix
    <3> QED BY <3>3 DEF SomeSeq
  <2> HIDE DEF emitted
  <2>3. Severe(found) /\ Ids(found) \subseteq DOMAIN PluginRules \cup DOMAIN YaraHits
    BY <2>2, PluginsFind
  <2> DEFINE all == rated.detections \o found
  <2>4. /\ RatedFields' /\ rated'.detections = all /\ rated'.matches = rated.matches
        /\ report' = report /\ stage = "plugins" /\ stage' = "yara"
    BY <1>2, <2>1 DEF RunPlugins, RatedFields, emitted
  <2> HIDE DEF found
  <2>5. Severe(all) /\ Within(all, report.graph)
    BY <2>3, <2>4, AddedStaysWithin
  <2> HIDE DEF all
  <2> QED BY <2>4, <2>5
<1>3. CASE ScanYara
  <2>1. stage = "yara" /\ stage' = "risk" /\ report' = report
    BY <1>3 DEF ScanYara
  <2>2. CASE UNCHANGED rated
    BY <2>1, <2>2 DEF RatedFields
  <2>3. CASE \E erred \in SUBSET Nodes(report.graph) :
               LET matches == YaraMatches(report.graph, erred) IN
               rated' = [rated EXCEPT !.matches = matches,
                                      !.detections = @ \o YaraDetections(matches)]
    <3>1. PICK erred \in SUBSET Nodes(report.graph) :
            rated' = [rated EXCEPT !.matches = YaraMatches(report.graph, erred),
                        !.detections = @ \o YaraDetections(YaraMatches(report.graph, erred))]
      BY <2>3
    <3> DEFINE matches == YaraMatches(report.graph, erred)
               found == YaraDetections(matches)
               all == rated.detections \o found
    <3>2. SomeSeq(matches) /\ \A k \in DOMAIN matches : matches[k].rule \in DOMAIN YaraHits
      BY YaraFinds
    <3>3. /\ RatedFields' /\ rated'.detections = all /\ rated'.matches = matches
      BY <3>1 DEF RatedFields
    <3> HIDE DEF matches
    <3>4. /\ Severe(found) /\ Ids(found) \subseteq DOMAIN PluginRules \cup DOMAIN YaraHits
          /\ \A k \in DOMAIN matches : matches[k].rule \in Ids(found)
      BY <3>2, YaraDetects
    <3> HIDE DEF found
    <3>5. Severe(all) /\ Within(all, report.graph) /\ Ids(found) \subseteq Ids(all)
      BY <2>1, <3>4, AddedStaysWithin
    <3> HIDE DEF all
    <3> QED BY <2>1, <3>2, <3>3, <3>4, <3>5
  <2> QED BY <1>3, <2>2, <2>3 DEF ScanYara
<1>4. CASE ScoreRisk
  <2> DEFINE risk == Risk(report.graph, rated.detections, rated.matches)
  <2>1. /\ RatedFields' /\ rated'.detections = rated.detections /\ rated'.matches = rated.matches
        /\ rated'.risk = risk /\ report' = report /\ stage = "risk" /\ stage' = "static"
    BY <1>4 DEF ScoreRisk, RatedFields
  <2>2. \A k \in DOMAIN rated.detections : risk >= Floors[rated.detections[k].severity]
    BY RiskReachesFloors
  <2> HIDE DEF risk
  <2> QED BY <2>1, <2>2
<1>5. CASE StaticChecks
  <2>0. CASE Breaks(ToSet(report.configured))
    <3>1. /\ stage = "static" /\ stage' = "failed"
          /\ UNCHANGED <<rated, report>>
      BY <1>5, <2>0 DEF StaticChecks
    <3>2. Breaks(ToSet(report.configured) \cup ToSet(report.given))
      BY <2>0 DEF Breaks
    <3>3. (Breaks(ToSet(report.configured) \cup ToSet(report.given)))'
      BY <3>1, <3>2
    <3> QED BY <3>1, <3>3 DEF RatedFields
  <2>00. SUFFICES ASSUME ~Breaks(ToSet(report.configured))
                  PROVE  JudgeInv'
    BY <2>0
  <2> DEFINE rules == RulesOf(report.configured)
  <2>1. PICK expired \in SUBSET Slow(rules) :
          LET merged == MergeDetections(rated.detections, Evaluated(rules, report.graph, expired))
              risk == Risk(report.graph, merged, <<>>) IN
          rated' = [rated EXCEPT !.detections = merged, !.risk = risk,
                                 !.intelligence = Intelligence(report.graph, merged, risk)]
    BY <1>5, <2>00 DEF StaticChecks
  <2> DEFINE found == Evaluated(rules, report.graph, expired)
             merged == MergeDetections(rated.detections, found)
             risk == Risk(report.graph, merged, <<>>)
  <2>2. /\ RatedFields' /\ rated'.detections = merged /\ rated'.matches = rated.matches
        /\ rated'.risk = risk /\ report' = report /\ stage = "static" /\ stage' = "done"
    BY <1>5, <2>00, <2>1 DEF StaticChecks, RatedFields
  <2>3. Keeps(rules)
    BY ConfiguredRulesKeep
  <2> HIDE DEF rules
  <2>4. Severe(found) /\ Agrees(found, report.graph)
    BY <2>3, EvaluatedAgrees
  <2> HIDE DEF found
  <2>5. /\ Severe(merged) /\ Agrees(merged, report.graph)
        /\ Ids(rated.detections) \subseteq Ids(merged)
        /\ Cardinality(Ids(merged)) = Len(merged)
    BY <2>2, <2>4, MergedAgrees
  <2>7. Within(merged, report.graph)
    BY <2>5 DEF Agrees, Within
  <2> HIDE DEF merged
  <2>6. \A k \in DOMAIN merged : risk >= Floors[merged[k].severity]
    BY <2>5, NothingIsSome, RiskReachesFloors
  <2> HIDE DEF risk
  <2> QED BY <2>2, <2>5, <2>6, <2>7
<1>6. CASE UNCHANGED judgeVars
  BY <1>6 DEF judgeVars, RatedFields
<1> QED BY <1>1, <1>2, <1>3, <1>4, <1>5, <1>6 DEF JudgeNext

LEMMA JudgeInvSound == JudgeInv => JudgedSoundly
<1> SUFFICES ASSUME JudgeInv PROVE JudgedSoundly
  OBVIOUS
<1> USE DEF JudgeInv
<1>1. ASSUME stage = "done"
      PROVE  /\ {d.rule : d \in {rated.matches[k] : k \in DOMAIN rated.matches}}
                   \subseteq Ids(rated.detections)
             /\ \A b \in DOMAIN Builtins :
                  /\ BuiltinFires(Builtins[b].id, report.graph) <=>
                       Builtins[b].id \in Ids(rated.detections)
                  /\ \A k \in DOMAIN rated.detections : rated.detections[k].id = Builtins[b].id =>
                       rated.detections[k].severity = Builtins[b].severity
  <2>1. Agrees(rated.detections, report.graph)
    BY <1>1
  <2>2. {d.rule : d \in {rated.matches[k] : k \in DOMAIN rated.matches}}
          \subseteq Ids(rated.detections)
    OBVIOUS
  <2> QED BY <2>1, <2>2 DEF Agrees
<1>2. ASSUME stage = "done"
      PROVE  "TITAN-001" \in Ids(rated.detections) <=>
               \E path \in Paths(report.graph) : Peeled(report.graph, path) >= 3
  <2>1. PICK b \in DOMAIN Builtins : Builtins[b].id = "TITAN-001"
    BY BuiltinsApart
  <2>2. BuiltinFires("TITAN-001", report.graph) <=> "TITAN-001" \in Ids(rated.detections)
    BY <1>1, <1>2, <2>1
  <2> QED BY <2>2, DeepBase64Is
<1> QED BY <1>1, <1>2 DEF JudgedSoundly, Peeled

\* The risk of a run covers every detection it reports; the assurance pass
\* repeats and loses none; only a pack with a rule whose validation raises ends the
\* judgement; of one that ends with a result, built-in rules are reported exactly when
\* they fire, whatever packs and plugins add, and nested Base64 exactly when one path
\* peels three layers (cli.py run_detections_stage, core/assurance.py run_static_checks).
THEOREM JudgementIsSound == JudgeSpec => []JudgedSoundly
<1>1. JudgeInit => JudgeInv
  BY JudgeInvInit
<1>2. JudgeInv /\ [JudgeNext]_judgeVars => JudgeInv'
  BY JudgeInvStep
<1>3. JudgeInv => JudgedSoundly
  BY JudgeInvSound
<1> QED BY <1>1, <1>2, <1>3, PTL DEF JudgeSpec

-----------------------------------------------------------------------------
(* Evidence: indicators *)

IsIndicator(i) ==
    /\ i \in [type : {i.type}, value : {i.value}, first : Nat, last : Nat, trust : Nat,
              tags : {i.tags}, sources : {i.sources}]
    /\ i.first <= i.last

EarliestOf(first, G) ==
    /\ first = 0 => \A s \in G : s.first = 0
    /\ first # 0 => (\E s \in G : s.first = first) /\ \A s \in G : s.first # 0 => first <= s.first

\* i stands for all of G.
Joint(i, G) ==
    /\ IsIndicator(i)
    /\ \A s \in G : IsIndicator(s) /\ Key(s) = Key(i)
    /\ EarliestOf(i.first, G)
    /\ (\E s \in G : s.last = i.last) /\ \A s \in G : s.last <= i.last
    /\ (\E s \in G : s.trust = i.trust) /\ \A s \in G : s.trust <= i.trust
    /\ i.tags = UNION {s.tags : s \in G} /\ i.sources = UNION {s.sources : s \in G}

LEMMA OfTwo ==
  ASSUME NEW a \in Nat, NEW b \in Nat
  PROVE  /\ Max({a, b}) = IF a >= b THEN a ELSE b
         /\ Min({a, b}) = IF a <= b THEN a ELSE b
<1>1. \A x \in {a, b} : (\A y \in {a, b} : x >= y) <=> x = IF a >= b THEN a ELSE b
  OBVIOUS
<1>2. \A x \in {a, b} : (\A y \in {a, b} : x <= y) <=> x = IF a <= b THEN a ELSE b
  OBVIOUS
<1>3. (IF a >= b THEN a ELSE b) \in {a, b} /\ (IF a <= b THEN a ELSE b) \in {a, b}
  OBVIOUS
<1>4. (CHOOSE x \in {a, b} : \A y \in {a, b} : x >= y) = IF a >= b THEN a ELSE b
  BY <1>1, <1>3
<1>5. (CHOOSE x \in {a, b} : \A y \in {a, b} : x <= y) = IF a <= b THEN a ELSE b
  BY <1>2, <1>3
<1> QED BY <1>4, <1>5 DEF Max, Min

LEMMA EarlierEarliest ==
  ASSUME NEW a \in Nat, NEW b \in Nat
  PROVE  Earlier(a, b) = IF a = 0 THEN b ELSE IF b = 0 THEN a ELSE IF a <= b THEN a ELSE b
  BY OfTwo DEF Earlier

LEMMA JoinedFields ==
  ASSUME NEW i, IsIndicator(i), NEW new, IsIndicator(new)
  PROVE  /\ IsIndicator(Joined(i, new))
         /\ Key(Joined(i, new)) = Key(i)
         /\ Joined(i, new).first = Earlier(i.first, new.first)
         /\ Joined(i, new).last = IF i.last >= new.last THEN i.last ELSE new.last
         /\ Joined(i, new).trust = IF i.trust >= new.trust THEN i.trust ELSE new.trust
         /\ Joined(i, new).tags = i.tags \cup new.tags
         /\ Joined(i, new).sources = i.sources \cup new.sources
<1> DEFINE j == Joined(i, new)
<1>1. /\ {i.first, i.last, i.trust, new.first, new.last, new.trust} \subseteq Nat
      /\ i.first <= i.last /\ new.first <= new.last
  BY DEF IsIndicator
<1>2. /\ j.type = i.type /\ j.value = i.value
      /\ j.first = Earlier(i.first, new.first) /\ j.last = Later(i.last, new.last)
      /\ j.trust = Max({i.trust, new.trust})
      /\ j.tags = i.tags \cup new.tags /\ j.sources = i.sources \cup new.sources
      /\ j \in [type : {j.type}, value : {j.value}, first : {j.first}, last : {j.last},
                trust : {j.trust}, tags : {j.tags}, sources : {j.sources}]
  BY DEF IsIndicator, Joined
<1>3. j.last = IF i.last >= new.last THEN i.last ELSE new.last
  BY ONLY <1>1, <1>2, OfTwo DEF Later
<1>4. j.trust = IF i.trust >= new.trust THEN i.trust ELSE new.trust
  BY ONLY <1>1, <1>2, OfTwo
<1>5. j.first = IF i.first = 0 THEN new.first ELSE IF new.first = 0 THEN i.first
                ELSE IF i.first <= new.first THEN i.first ELSE new.first
  BY ONLY <1>1, <1>2, EarlierEarliest
<1> HIDE DEF j
<1>6. j.first \in Nat /\ j.last \in Nat /\ j.trust \in Nat /\ j.first <= j.last
  BY ONLY <1>1, <1>3, <1>4, <1>5
<1>7. IsIndicator(j)
  BY ONLY <1>2, <1>6 DEF IsIndicator
<1>8. Key(j) = Key(i)
  BY ONLY <1>2 DEF Key
<1> QED BY ONLY <1>2, <1>3, <1>4, <1>7, <1>8 DEF j

LEMMA AloneStands ==
  ASSUME NEW new, IsIndicator(new)
  PROVE  Joint(new, {new})
<1>1. {new.first, new.last, new.trust} \subseteq Nat
  BY DEF IsIndicator
<1>2. UNION {s.tags : s \in {new}} = new.tags /\ UNION {s.sources : s \in {new}} = new.sources
  OBVIOUS
<1> QED BY <1>1, <1>2 DEF Joint, EarliestOf

LEMMA JoinStands ==
  ASSUME NEW i, NEW G, Joint(i, G), NEW new, IsIndicator(new), Key(new) = Key(i)
  PROVE  Joint(Joined(i, new), G \cup {new})
<1> DEFINE j == Joined(i, new)
           H == G \cup {new}
<1>1. IsIndicator(i) /\ \A s \in G : IsIndicator(s) /\ Key(s) = Key(i)
  BY DEF Joint
<1>2. /\ {i.first, i.last, i.trust, new.first, new.last, new.trust} \subseteq Nat
      /\ \A s \in G : {s.first, s.last, s.trust} \subseteq Nat
  BY <1>1 DEF IsIndicator
<1>3. /\ IsIndicator(j) /\ Key(j) = Key(i)
      /\ j.first = Earlier(i.first, new.first)
      /\ j.last = IF i.last >= new.last THEN i.last ELSE new.last
      /\ j.trust = IF i.trust >= new.trust THEN i.trust ELSE new.trust
      /\ j.tags = i.tags \cup new.tags
      /\ j.sources = i.sources \cup new.sources
  BY <1>1, JoinedFields
<1>4. j.first = IF i.first = 0 THEN new.first ELSE IF new.first = 0 THEN i.first
                ELSE IF i.first <= new.first THEN i.first ELSE new.first
  BY ONLY <1>2, <1>3, EarlierEarliest
<1> HIDE DEF j
<1>5. EarliestOf(j.first, H)
  <2>1. EarliestOf(i.first, G)
    BY DEF Joint
  <2> QED BY ONLY <2>1, <1>2, <1>4 DEF EarliestOf
<1>6. (\E s \in H : s.last = j.last) /\ \A s \in H : s.last <= j.last
  <2>1. (\E s \in G : s.last = i.last) /\ \A s \in G : s.last <= i.last
    BY DEF Joint
  <2> QED BY ONLY <2>1, <1>2, <1>3
<1>7. (\E s \in H : s.trust = j.trust) /\ \A s \in H : s.trust <= j.trust
  <2>1. (\E s \in G : s.trust = i.trust) /\ \A s \in G : s.trust <= i.trust
    BY DEF Joint
  <2> QED BY ONLY <2>1, <1>2, <1>3
<1>8. j.tags = UNION {s.tags : s \in H} /\ j.sources = UNION {s.sources : s \in H}
  <2>1. i.tags = UNION {s.tags : s \in G} /\ i.sources = UNION {s.sources : s \in G}
    BY DEF Joint
  <2>2. UNION {s.tags : s \in H} = (UNION {s.tags : s \in G}) \cup new.tags
    OBVIOUS
  <2>3. UNION {s.sources : s \in H} = (UNION {s.sources : s \in G}) \cup new.sources
    OBVIOUS
  <2> QED BY ONLY <1>3, <2>1, <2>2, <2>3
<1>9. \A s \in H : IsIndicator(s) /\ Key(s) = Key(j)
  BY ONLY <1>1, <1>3, IsIndicator(new), Key(new) = Key(i)
<1> HIDE DEF H
<1>10. Joint(j, H)
  BY ONLY <1>3, <1>5, <1>6, <1>7, <1>8, <1>9 DEF Joint
<1> QED BY ONLY <1>10 DEF j, H

-----------------------------------------------------------------------------
(* Merging *)

Like(T, key) == {p \in T : Key(p) = key}

GatherStep(r, merged, new) == MergeInto(merged, new)
GatherStart(r) == Nobody
\* Every key of T, and no other, has an indicator that stands for its members.
GatherHolds(r, S, T, merged) ==
    /\ merged = [key \in {Key(p) : p \in T} |-> merged[key]]
    /\ \A key \in {Key(p) : p \in T} : Joint(merged[key], Like(T, key)) /\ Key(merged[key]) = key
Gathering == INSTANCE FoldInduction WITH Step <- GatherStep, Start <- GatherStart, Holds <- GatherHolds

LEMMA MergeIsFolded ==
  ASSUME NEW S
  PROVE  Gathering!SetFolded(0, S) = MergeIndicators(S)
  BY DEF MergeIndicators, Gathering!SetFolded, GatherStep, GatherStart, FoldSet, MapThenFoldSet,
         Gathering!FoldSet, Gathering!MapThenFoldSet

LEMMA FiniteIsFinite == ASSUME NEW S PROVE Gathering!IsFiniteSet(S) <=> IsFiniteSet(S)
  BY DEF IsFiniteSet, Gathering!IsFiniteSet

LEMMA GatherStepHolds ==
  ASSUME NEW T, NEW merged, GatherHolds(0, T, T, merged), NEW new, IsIndicator(new), new \notin T
  PROVE  GatherHolds(0, T, T \cup {new}, MergeInto(merged, new))
<1> DEFINE K == {Key(p) : p \in T}
           U == T \cup {new}
           key == Key(new)
           m == MergeInto(merged, new)
<1>1. {Key(p) : p \in U} = K \cup {key}
  OBVIOUS
<1>2. DOMAIN merged = K /\ merged = [k \in K |-> merged[k]]
  BY DEF GatherHolds
<1>3. \A k \in K : Joint(merged[k], Like(T, k)) /\ Key(merged[k]) = k
  BY DEF GatherHolds
<1>4. \A k : k # key => Like(U, k) = Like(T, k)
  BY DEF Like
<1>5. Like(U, key) = Like(T, key) \cup {new}
  BY DEF Like
<1>6. CASE key \in K
  <2>1. m = [k \in K |-> IF k = key THEN Joined(merged[key], new) ELSE merged[k]]
    <3>1. K \cup {key} = K
      BY <1>6
    <3> HIDE DEF K, key
    <3> QED BY <1>2, <1>6, <3>1 DEF MergeInto, key
  <2>2. Joint(Joined(merged[key], new), Like(U, key))
    BY <1>3, <1>5, <1>6, JoinStands
  <2>3. Key(Joined(merged[key], new)) = key
    <3>1. IsIndicator(merged[key])
      BY <1>3, <1>6 DEF Joint
    <3> QED BY <1>3, <1>6, <3>1, JoinedFields
  <2> HIDE DEF K, U, key, m
  <2>4. m = [k \in K |-> m[k]] /\ K \cup {key} = K
    BY <1>6, <2>1
  <2>5. \A k \in K : Joint(m[k], Like(U, k)) /\ Key(m[k]) = k
    BY <1>3, <1>4, <2>1, <2>2, <2>3
  <2> QED BY <1>1, <2>4, <2>5 DEF GatherHolds, U, m
<1>7. CASE key \notin K
  <2>1. m = [k \in K \cup {key} |-> IF k = key THEN new ELSE merged[k]]
    <3> HIDE DEF K, key
    <3> QED BY <1>2, <1>7 DEF MergeInto, key
  <2>2. Like(T, key) = {}
    BY <1>7 DEF Like
  <2>3. Joint(new, Like(U, key))
    BY <1>5, <2>2, AloneStands
  <2>4. Key(new) = key
    OBVIOUS
  <2> HIDE DEF K, U, key, m
  <2>5. m = [k \in K \cup {key} |-> m[k]]
    BY <2>1
  <2>6. \A k \in K \cup {key} : Joint(m[k], Like(U, k)) /\ Key(m[k]) = k
    BY <1>3, <1>4, <1>7, <2>1, <2>3, <2>4
  <2> QED BY <1>1, <2>5, <2>6 DEF GatherHolds, U, m
<1> QED BY <1>6, <1>7

LEMMA MergeStands ==
  ASSUME NEW S, IsFiniteSet(S), \A p \in S : IsIndicator(p)
  PROVE  GatherHolds(0, S, S, MergeIndicators(S))
<1>1. GatherHolds(0, S, {}, GatherStart(0))
  BY DEF GatherHolds, GatherStart, Nobody
<1>2. ASSUME NEW T \in SUBSET S, NEW x \in S \ T, NEW a, GatherHolds(0, S, T, a)
      PROVE  GatherHolds(0, S, T \cup {x}, GatherStep(0, a, x))
  <2>1. GatherHolds(0, T, T, a)
    BY <1>2 DEF GatherHolds
  <2>2. GatherHolds(0, T, T \cup {x}, MergeInto(a, x))
    BY <2>1, GatherStepHolds
  <2> QED BY <2>2 DEF GatherHolds, GatherStep
<1>3. GatherHolds(0, S, S, Gathering!SetFolded(0, S))
  <2>1. Gathering!IsFiniteSet(S)
    BY FiniteIsFinite
  <2> QED BY ONLY <1>1, <1>2, <2>1, Gathering!SetFoldHolds
<1> QED BY <1>3, MergeIsFolded

Those(q, K) == {q[k] : k \in K}

\* What stands for those that stand for the members stands for the members.
LEMMA StandingForAll ==
  ASSUME NEW K, NEW q, NEW H, NEW i, Joint(i, Those(q, K)), \A k \in K : Joint(q[k], H[k])
  PROVE  Joint(i, UNION Those(H, K))
<1> DEFINE Q == {q[k] : k \in K}
           A == UNION {H[k] : k \in K}
<1>1. /\ \A s \in A : \E k \in K : s \in H[k]
      /\ \A k \in K : q[k] \in Q /\ \A s \in H[k] : s \in A
      /\ \A p \in Q : \E k \in K : p = q[k]
  OBVIOUS
<1>2. Joint(i, Q) /\ \A k \in K : Joint(q[k], H[k])
  BY DEF Those
<1> HIDE DEF Q, A
<1>3. /\ IsIndicator(i) /\ \A p \in Q : IsIndicator(p) /\ Key(p) = Key(i)
      /\ \A k \in K : \A s \in H[k] : IsIndicator(s) /\ Key(s) = Key(q[k])
  BY ONLY <1>2 DEF Joint
<1>4. \A s \in A : IsIndicator(s) /\ Key(s) = Key(i)
  BY ONLY <1>1, <1>3
<1>5. /\ {i.first, i.last, i.trust} \subseteq Nat
      /\ \A p \in Q : {p.first, p.last, p.trust} \subseteq Nat
      /\ \A s \in A : {s.first, s.last, s.trust} \subseteq Nat
  BY ONLY <1>3, <1>4 DEF IsIndicator
<1>6. EarliestOf(i.first, A)
  <2>1. EarliestOf(i.first, Q) /\ \A k \in K : EarliestOf(q[k].first, H[k])
    BY ONLY <1>2 DEF Joint
  <2>2. CASE i.first = 0
    <3>1. \A p \in Q : p.first = 0
      BY ONLY <2>1, <2>2 DEF EarliestOf
    <3>2. ASSUME NEW s \in A
          PROVE  s.first = 0
      <4>1. PICK k \in K : s \in H[k]
        BY <1>1
      <4>2. q[k].first = 0
        BY <1>1, <3>1
      <4> QED BY ONLY <2>1, <4>1, <4>2 DEF EarliestOf
    <3> QED BY ONLY <2>2, <3>2 DEF EarliestOf
  <2>3. CASE i.first # 0
    <3>1. (\E p \in Q : p.first = i.first) /\ \A p \in Q : p.first # 0 => i.first <= p.first
      BY ONLY <2>1, <2>3 DEF EarliestOf
    <3>2. \E s \in A : s.first = i.first
      <4>1. PICK k \in K : q[k].first = i.first
        BY ONLY <1>1, <3>1
      <4>2. \E s \in H[k] : s.first = i.first
        BY ONLY <2>1, <2>3, <4>1 DEF EarliestOf
      <4> QED BY ONLY <1>1, <4>1, <4>2
    <3>3. ASSUME NEW s \in A, s.first # 0
          PROVE  i.first <= s.first
      <4>1. PICK k \in K : s \in H[k]
        BY <1>1
      <4>2. q[k].first # 0 /\ q[k].first <= s.first
        BY ONLY <2>1, <3>3, <4>1 DEF EarliestOf
      <4>3. i.first <= q[k].first
        BY ONLY <1>1, <3>1, <4>1, <4>2
      <4>4. i.first \in Nat /\ q[k].first \in Nat /\ s.first \in Nat
        BY ONLY <1>1, <1>5, <4>1, s \in A
      <4> QED BY ONLY <4>2, <4>3, <4>4
    <3> QED BY ONLY <2>3, <3>2, <3>3 DEF EarliestOf
  <2> QED BY <2>2, <2>3
<1>7. (\E s \in A : s.last = i.last) /\ \A s \in A : s.last <= i.last
  <2>1. /\ (\E p \in Q : p.last = i.last) /\ \A p \in Q : p.last <= i.last
        /\ \A k \in K : (\E s \in H[k] : s.last = q[k].last) /\ \A s \in H[k] : s.last <= q[k].last
    BY ONLY <1>2 DEF Joint
  <2>2. \E s \in A : s.last = i.last
    BY ONLY <1>1, <2>1
  <2>3. ASSUME NEW s \in A
        PROVE  s.last <= i.last
    <3>1. PICK k \in K : s \in H[k]
      BY <1>1
    <3>2. s.last <= q[k].last /\ q[k].last <= i.last
      BY ONLY <1>1, <2>1, <3>1
    <3>3. i.last \in Nat /\ q[k].last \in Nat /\ s.last \in Nat
      BY ONLY <1>1, <1>5, <3>1, s \in A
    <3> QED BY ONLY <3>2, <3>3
  <2> QED BY <2>2, <2>3
<1>8. (\E s \in A : s.trust = i.trust) /\ \A s \in A : s.trust <= i.trust
  <2>1. /\ (\E p \in Q : p.trust = i.trust) /\ \A p \in Q : p.trust <= i.trust
        /\ \A k \in K : (\E s \in H[k] : s.trust = q[k].trust) /\ \A s \in H[k] : s.trust <= q[k].trust
    BY ONLY <1>2 DEF Joint
  <2>2. \E s \in A : s.trust = i.trust
    BY ONLY <1>1, <2>1
  <2>3. ASSUME NEW s \in A
        PROVE  s.trust <= i.trust
    <3>1. PICK k \in K : s \in H[k]
      BY <1>1
    <3>2. s.trust <= q[k].trust /\ q[k].trust <= i.trust
      BY ONLY <1>1, <2>1, <3>1
    <3>3. i.trust \in Nat /\ q[k].trust \in Nat /\ s.trust \in Nat
      BY ONLY <1>1, <1>5, <3>1, s \in A
    <3> QED BY ONLY <3>2, <3>3
  <2> QED BY <2>2, <2>3
<1>9. i.tags = UNION {s.tags : s \in A}
  <2>1. /\ i.tags = UNION {p.tags : p \in Q}
        /\ \A k \in K : q[k].tags = UNION {s.tags : s \in H[k]}
    BY ONLY <1>2 DEF Joint
  <2>2. ASSUME NEW x
        PROVE  x \in i.tags <=> \E s \in A : x \in s.tags
    <3>1. x \in i.tags <=> \E k \in K : x \in q[k].tags
      BY ONLY <1>1, <2>1
    <3>2. \A k \in K : x \in q[k].tags <=> \E s \in H[k] : x \in s.tags
      BY ONLY <2>1
    <3> QED BY ONLY <1>1, <3>1, <3>2
  <2> QED BY ONLY <2>2
<1>10. i.sources = UNION {s.sources : s \in A}
  <2>1. /\ i.sources = UNION {p.sources : p \in Q}
        /\ \A k \in K : q[k].sources = UNION {s.sources : s \in H[k]}
    BY ONLY <1>2 DEF Joint
  <2>2. ASSUME NEW x
        PROVE  x \in i.sources <=> \E s \in A : x \in s.sources
    <3>1. x \in i.sources <=> \E k \in K : x \in q[k].sources
      BY ONLY <1>1, <2>1
    <3>2. \A k \in K : x \in q[k].sources <=> \E s \in H[k] : x \in s.sources
      BY ONLY <2>1
    <3> QED BY ONLY <1>1, <3>1, <3>2
  <2> QED BY ONLY <2>2
<1>11. Joint(i, A)
  BY ONLY <1>3, <1>4, <1>6, <1>7, <1>8, <1>9, <1>10 DEF Joint
<1> QED BY ONLY <1>11 DEF A, Those

-----------------------------------------------------------------------------
(* Finite sets *)

LEMMA ImageIsFinite ==
  ASSUME NEW f, IsFiniteSet(DOMAIN f), f = [x \in DOMAIN f |-> f[x]]
  PROVE  IsFiniteSet({f[x] : x \in DOMAIN f})
<1> DEFINE T == {f[x] : x \in DOMAIN f}
<1>1. f \in Surjection(DOMAIN f, T)
  BY DEF Surjection
<1> HIDE DEF T
<1>2. IsFiniteSet(T)
  BY <1>1, FS_Surjection
<1> QED BY <1>2 DEF T

LEMMA SixAreFinite ==
  ASSUME NEW a, NEW b, NEW c, NEW d, NEW e, NEW f
  PROVE  IsFiniteSet({a, b, c, d, e, f})
<1>1. IsFiniteSet({a})
  BY FS_Singleton
<1>2. IsFiniteSet({a} \cup {b})
  BY <1>1, FS_AddElement
<1>3. IsFiniteSet(({a} \cup {b}) \cup {c})
  BY <1>2, FS_AddElement
<1>4. IsFiniteSet((({a} \cup {b}) \cup {c}) \cup {d})
  BY <1>3, FS_AddElement
<1>5. IsFiniteSet(((({a} \cup {b}) \cup {c}) \cup {d}) \cup {e})
  BY <1>4, FS_AddElement
<1>6. IsFiniteSet((((({a} \cup {b}) \cup {c}) \cup {d}) \cup {e}) \cup {f})
  BY <1>5, FS_AddElement
<1>7. {a, b, c, d, e, f} = (((({a} \cup {b}) \cup {c}) \cup {d}) \cup {e}) \cup {f}
  OBVIOUS
<1> QED BY <1>6, <1>7

LEMMA MergedIsFinite ==
  ASSUME NEW S, IsFiniteSet(S), NEW merged, GatherHolds(0, S, S, merged)
  PROVE  IsFiniteSet(Range(merged))
<1> DEFINE f == [p \in S |-> Key(p)]
<1>1. IsFiniteSet({f[p] : p \in DOMAIN f})
  <2>1. DOMAIN f = S /\ f = [p \in DOMAIN f |-> f[p]]
    OBVIOUS
  <2> HIDE DEF f
  <2> QED BY <2>1, ImageIsFinite
<1>2. {f[p] : p \in DOMAIN f} = {Key(p) : p \in S}
  OBVIOUS
<1>3. DOMAIN merged = {Key(p) : p \in S} /\ merged = [key \in DOMAIN merged |-> merged[key]]
  BY DEF GatherHolds
<1>4. IsFiniteSet(DOMAIN merged)
  BY ONLY <1>1, <1>2, <1>3
<1>5. IsFiniteSet({merged[key] : key \in DOMAIN merged})
  BY ONLY <1>3, <1>4, ImageIsFinite
<1> QED BY <1>5 DEF Range

\* Merged one by one and then together.
StandsTogether(N, sights, merged) ==
    LET all == UNION {sights[k] : k \in N}
    IN  GatherHolds(0, all, all, MergeIndicators(UNION {Range(merged[k]) : k \in N}))

\* What is merged file by file stands, merged together, for all.
LEMMA TogetherStands ==
  ASSUME NEW N, IsFiniteSet(N), NEW sights, NEW merged,
         \A k \in N : /\ IsFiniteSet(sights[k])
                      /\ \A s \in sights[k] : IsIndicator(s)
                      /\ GatherHolds(0, sights[k], sights[k], merged[k])
  PROVE  StandsTogether(N, sights, merged)
<1> DEFINE all == UNION {sights[k] : k \in N}
           P == UNION {Range(merged[k]) : k \in N}
           m == MergeIndicators(P)
<1>1. ASSUME NEW k \in N
      PROVE  /\ DOMAIN merged[k] = {Key(s) : s \in sights[k]}
             /\ \A key \in DOMAIN merged[k] :
                  Joint(merged[k][key], Like(sights[k], key)) /\ Key(merged[k][key]) = key
  BY <1>1 DEF GatherHolds
<1>2. IsFiniteSet(P)
  <2> DEFINE f == [k \in N |-> Range(merged[k])]
  <2>1. IsFiniteSet({f[k] : k \in DOMAIN f})
    <3>1. DOMAIN f = N /\ f = [k \in DOMAIN f |-> f[k]]
      OBVIOUS
    <3> HIDE DEF f
    <3> QED BY <3>1, ImageIsFinite
  <2>2. \A T \in {f[k] : k \in DOMAIN f} : IsFiniteSet(T)
    BY MergedIsFinite
  <2>3. IsFiniteSet(UNION {f[k] : k \in DOMAIN f})
    <3> HIDE DEF f
    <3> QED BY <2>1, <2>2, FS_UNION
  <2>4. UNION {f[k] : k \in DOMAIN f} = P
    OBVIOUS
  <2> QED BY ONLY <2>3, <2>4
<1>3. /\ \A p \in P : \E k \in N : \E key \in DOMAIN merged[k] : p = merged[k][key]
      /\ \A k \in N : \A key \in DOMAIN merged[k] : merged[k][key] \in P
  BY DEF Range
<1>4. \A p \in P : IsIndicator(p)
  BY <1>1, <1>3 DEF Joint
<1> HIDE DEF P
<1>5. GatherHolds(0, P, P, m)
  BY <1>2, <1>4, MergeStands
<1>6. \A k \in N : \A s \in sights[k] : s \in all
  OBVIOUS
<1>7. \A s \in all : \E k \in N : s \in sights[k]
  OBVIOUS
<1> HIDE DEF all, m
<1>8. {Key(p) : p \in P} = {Key(s) : s \in all}
  <2>1. ASSUME NEW p \in P
        PROVE  \E s \in all : Key(s) = Key(p)
    <3>1. PICK k \in N : \E key \in DOMAIN merged[k] : p = merged[k][key]
      BY <1>3
    <3>2. PICK key \in DOMAIN merged[k] : p = merged[k][key]
      BY <3>1
    <3>3. \E s \in sights[k] : Key(s) = key
      BY <1>1, <3>2
    <3> QED BY <1>1, <1>6, <3>2, <3>3
  <2>2. ASSUME NEW s \in all
        PROVE  \E p \in P : Key(p) = Key(s)
    <3>1. PICK k \in N : s \in sights[k]
      BY <1>7
    <3>2. Key(s) \in DOMAIN merged[k]
      BY <1>1, <3>1
    <3> QED BY <1>1, <1>3, <3>2
  <2> QED BY <2>1, <2>2
<1>9. ASSUME NEW key \in {Key(p) : p \in P}
      PROVE  Joint(m[key], Like(all, key)) /\ Key(m[key]) = key
  <2> DEFINE K == {k \in N : key \in DOMAIN merged[k]}
             q == [k \in K |-> merged[k][key]]
             H == [k \in K |-> Like(sights[k], key)]
  <2>1. Joint(m[key], Like(P, key)) /\ Key(m[key]) = key
    BY <1>5 DEF GatherHolds
  <2>2. Those(q, K) = Like(P, key)
    <3>1. ASSUME NEW p \in Like(P, key)
          PROVE  \E k \in K : p = merged[k][key]
      <4>1. p \in P /\ Key(p) = key
        BY DEF Like
      <4>2. PICK k \in N : \E c \in DOMAIN merged[k] : p = merged[k][c]
        BY <1>3, <4>1
      <4> QED BY <1>1, <4>1, <4>2
    <3>2. \A k \in K : merged[k][key] \in Like(P, key)
      BY <1>1, <1>3 DEF Like
    <3> QED BY <3>1, <3>2 DEF Those
  <2>3. UNION Those(H, K) = Like(all, key)
    <3>1. ASSUME NEW s \in Like(all, key)
          PROVE  \E k \in K : s \in Like(sights[k], key)
      <4>1. s \in all /\ Key(s) = key
        BY DEF Like
      <4>2. PICK k \in N : s \in sights[k]
        BY <1>7, <4>1
      <4>3. key \in DOMAIN merged[k]
        BY <1>1, <4>1, <4>2
      <4> QED BY <4>1, <4>2, <4>3 DEF Like
    <3>2. \A k \in K : \A s \in Like(sights[k], key) : s \in Like(all, key)
      BY <1>6 DEF Like
    <3> QED BY <3>1, <3>2 DEF Those
  <2>4. \A k \in K : Joint(q[k], H[k])
    BY <1>1
  <2> HIDE DEF K, q, H
  <2>5. Joint(m[key], UNION Those(H, K))
    <3>1. Joint(m[key], Those(q, K))
      BY ONLY <2>1, <2>2
    <3> QED BY ONLY <3>1, <2>4, StandingForAll, Zenon
  <2> QED BY ONLY <2>1, <2>3, <2>5
<1>10. m = [key \in {Key(p) : p \in P} |-> m[key]]
  BY <1>5 DEF GatherHolds
<1>11. GatherHolds(0, all, all, m)
  BY ONLY <1>8, <1>9, <1>10 DEF GatherHolds
<1> QED BY ONLY <1>11 DEF all, m, P, StandsTogether

LEMMA UnionIsFinite ==
  ASSUME NEW f, IsFiniteSet(DOMAIN f), f = [x \in DOMAIN f |-> f[x]],
         \A x \in DOMAIN f : IsFiniteSet(f[x])
  PROVE  IsFiniteSet(UNION {f[x] : x \in DOMAIN f})
<1> DEFINE T == {f[x] : x \in DOMAIN f}
<1>1. IsFiniteSet(T)
  BY ImageIsFinite
<1>2. \A t \in T : IsFiniteSet(t)
  OBVIOUS
<1> HIDE DEF T
<1>3. IsFiniteSet(UNION T)
  BY <1>1, <1>2, FS_UNION
<1> QED BY <1>3 DEF T

-----------------------------------------------------------------------------
(* What the parsers look for *)

Looks(s) == DOMAIN s.names \subseteq Nat /\ s.trust \in Nat

LEMMA TuplesAreNumbered ==
  ASSUME NEW a, NEW b, NEW c
  PROVE  /\ DOMAIN <<>> \subseteq Nat /\ DOMAIN <<a>> \subseteq Nat
         /\ DOMAIN <<a, b>> \subseteq Nat /\ DOMAIN <<a, b, c>> \subseteq Nat
  OBVIOUS

LEMMA SeesLooks ==
  ASSUME NEW names, DOMAIN names \subseteq Nat, NEW type, NEW trust \in Nat, NEW tags, NEW field
  PROVE  Looks(Sees(names, type, trust, tags, field))
  BY DEF Looks, Sees

LEMMA KindsKnown ==
  DOMAIN SeenBy = {"dns", "proxy", "firewall", "vpn", "auth", "dhcp", "generic", "powershell",
                   "browser"}
  BY DEF SeenBy

LEMMA ParsersLook ==
  ASSUME NEW kind \in DOMAIN SeenBy
  PROVE  IsFiniteSet(SeenBy[kind]) /\ \A s \in SeenBy[kind] : Looks(s)
<1>1. /\ IsFiniteSet(DnsSees) /\ IsFiniteSet(ProxySees) /\ IsFiniteSet(FirewallSees)
      /\ IsFiniteSet(VpnSees) /\ IsFiniteSet(AuthSees) /\ IsFiniteSet(DhcpSees)
      /\ IsFiniteSet(GenericSees) /\ IsFiniteSet(HistorySees) /\ IsFiniteSet(BrowserSees)
  <2>1. \A a : IsFiniteSet({a})
    BY FS_Singleton
  <2>2. \A a, b : IsFiniteSet({a, b})
    <3> SUFFICES ASSUME NEW a, NEW b PROVE IsFiniteSet({a, b})
      OBVIOUS
    <3>1. {a, b} = {a, b, b, b, b, b}
      OBVIOUS
    <3>2. IsFiniteSet({a, b, b, b, b, b})
      BY SixAreFinite
    <3> QED BY ONLY <3>1, <3>2
  <2>3. \A a, b, c : IsFiniteSet({a, b, c})
    <3> SUFFICES ASSUME NEW a, NEW b, NEW c PROVE IsFiniteSet({a, b, c})
      OBVIOUS
    <3>1. {a, b, c} = {a, b, c, c, c, c}
      OBVIOUS
    <3>2. IsFiniteSet({a, b, c, c, c, c})
      BY SixAreFinite
    <3> QED BY ONLY <3>1, <3>2
  <2>4. \A a, b, c, d, e : IsFiniteSet({a, b, c, d, e})
    <3> SUFFICES ASSUME NEW a, NEW b, NEW c, NEW d, NEW e PROVE IsFiniteSet({a, b, c, d, e})
      OBVIOUS
    <3>1. {a, b, c, d, e} = {a, b, c, d, e, e}
      OBVIOUS
    <3>2. IsFiniteSet({a, b, c, d, e, e})
      BY SixAreFinite
    <3> QED BY ONLY <3>1, <3>2
  <2>5. IsFiniteSet(DnsSees) /\ IsFiniteSet(VpnSees) /\ IsFiniteSet(AuthSees) /\ IsFiniteSet(DhcpSees)
    BY <2>3 DEF DnsSees, VpnSees, AuthSees, DhcpSees
  <2>6. IsFiniteSet(FirewallSees)
    BY <2>2 DEF FirewallSees
  <2>7. IsFiniteSet(HistorySees) /\ IsFiniteSet(BrowserSees)
    BY <2>1 DEF HistorySees, BrowserSees
  <2>8. IsFiniteSet(ProxySees)
    BY <2>4 DEF ProxySees
  <2>9. IsFiniteSet(GenericSees)
    BY SixAreFinite DEF GenericSees
  <2> QED BY <2>5, <2>6, <2>7, <2>8, <2>9
<1>2. /\ \A s \in DnsSees : Looks(s)
      /\ \A s \in ProxySees : Looks(s)
      /\ \A s \in FirewallSees : Looks(s)
      /\ \A s \in VpnSees : Looks(s)
      /\ \A s \in AuthSees : Looks(s)
      /\ \A s \in DhcpSees : Looks(s)
      /\ \A s \in GenericSees : Looks(s)
      /\ \A s \in HistorySees : Looks(s)
      /\ \A s \in BrowserSees : Looks(s)
  <2>1. \A s \in DnsSees : Looks(s)
    BY SeesLooks, TuplesAreNumbered DEF DnsSees, ClientIp
  <2>2. \A s \in ProxySees : Looks(s)
    BY SeesLooks, TuplesAreNumbered DEF ProxySees
  <2>3. \A s \in FirewallSees : Looks(s)
    BY SeesLooks, TuplesAreNumbered DEF FirewallSees
  <2>4. \A s \in VpnSees : Looks(s)
    BY SeesLooks, TuplesAreNumbered DEF VpnSees
  <2>5. \A s \in AuthSees : Looks(s)
    BY SeesLooks, TuplesAreNumbered DEF AuthSees, HostName
  <2>6. \A s \in DhcpSees : Looks(s)
    BY SeesLooks, TuplesAreNumbered DEF DhcpSees
  <2>7. \A s \in GenericSees : Looks(s)
    BY SeesLooks, TuplesAreNumbered DEF GenericSees, HostName
  <2>8. \A s \in HistorySees : Looks(s)
    BY SeesLooks, TuplesAreNumbered DEF HistorySees
  <2>9. \A s \in BrowserSees : Looks(s)
    BY SeesLooks, TuplesAreNumbered DEF BrowserSees
  <2> QED BY ONLY <2>1, <2>2, <2>3, <2>4, <2>5, <2>6, <2>7, <2>8, <2>9, Zenon
<1>3. SeenBy[kind] \in {DnsSees, ProxySees, FirewallSees, VpnSees, AuthSees, DhcpSees, GenericSees,
                        HistorySees, BrowserSees}
  BY KindsKnown DEF SeenBy
<1> QED BY ONLY <1>1, <1>2, <1>3, Zenon

SlotNames == {"src", "dst", "domain", "host", "user", "url", "ua", "answers"}
Says(slots) == DOMAIN slots = SlotNames /\ \A slot \in SlotNames : DOMAIN slots[slot] \subseteq Nat

LEMMA SlotsSay ==
  ASSUME NEW src, NEW dst, NEW domain, NEW host, NEW user, NEW url,
         DOMAIN src \subseteq Nat, DOMAIN dst \subseteq Nat, DOMAIN domain \subseteq Nat,
         DOMAIN host \subseteq Nat, DOMAIN user \subseteq Nat, DOMAIN url \subseteq Nat
  PROVE  Says(Slots(src, dst, domain, host, user, url))
<1>1. DOMAIN <<"user_agent">> \subseteq Nat /\ DOMAIN <<"answers">> \subseteq Nat
  BY TuplesAreNumbered
<1> QED BY <1>1 DEF Says, Slots, SlotNames

LEMMA EventsSay ==
  ASSUME NEW kind \in DOMAIN SeenBy
  PROVE  Says(EventOf[kind])
<1>1. /\ DOMAIN ClientIp \subseteq Nat /\ DOMAIN HostName \subseteq Nat
  BY TuplesAreNumbered DEF ClientIp, HostName
<1>3. CASE kind = "dns"
  BY <1>1, <1>3, SlotsSay, TuplesAreNumbered DEF EventOf
<1>4. CASE kind = "proxy"
  BY <1>1, <1>4, SlotsSay, TuplesAreNumbered DEF EventOf
<1>5. CASE kind = "firewall"
  BY <1>1, <1>5, SlotsSay, TuplesAreNumbered DEF EventOf
<1>6. CASE kind = "vpn"
  BY <1>1, <1>6, SlotsSay, TuplesAreNumbered DEF EventOf
<1>7. CASE kind = "auth"
  BY <1>1, <1>7, SlotsSay, TuplesAreNumbered DEF EventOf
<1>8. CASE kind = "dhcp"
  BY <1>1, <1>8, SlotsSay, TuplesAreNumbered DEF EventOf
<1>9. CASE kind = "generic"
  BY <1>1, <1>9, SlotsSay, TuplesAreNumbered DEF EventOf
<1>10. CASE kind = "powershell"
  BY <1>10, SlotsSay, TuplesAreNumbered DEF EventOf
<1>11. CASE kind = "browser"
  BY <1>11, SlotsSay, TuplesAreNumbered DEF EventOf
<1> QED BY <1>3, <1>4, <1>5, <1>6, <1>7, <1>8, <1>9, <1>10, <1>11, KindsKnown

-----------------------------------------------------------------------------
(* One file *)

LEMMA LinesCounted ==
  ASSUME NEW file, Legible(file)
  PROVE  /\ Len(file.lines) \in Nat /\ DOMAIN file.lines = 1 .. Len(file.lines)
         /\ IsFiniteSet(RecordsRead(file))
         /\ RecordsRead(file) \subseteq DOMAIN file.lines
         /\ \A k \in RecordsRead(file) : file.lines[k].good
<1>1. Len(file.lines) \in Nat /\ DOMAIN file.lines = 1 .. Len(file.lines)
  <2>1. file.lines \in Seq(Range(file.lines))
    BY DEF Legible
  <2> QED BY ONLY <2>1
<1>2. RecordsRead(file) \subseteq Records(file)
  BY DEF RecordsRead
<1>3. Records(file) \subseteq DOMAIN file.lines /\ \A k \in Records(file) : file.lines[k].good
  BY DEF Records
<1>4. IsFiniteSet(DOMAIN file.lines)
  BY <1>1, FS_Interval
<1>5. IsFiniteSet(RecordsRead(file))
  BY ONLY <1>2, <1>3, <1>4, FS_Subset
<1> QED BY <1>1, <1>2, <1>3, <1>5

LEMMA PickedIsFinite ==
  ASSUME NEW line, \A name \in DOMAIN line.fields : IsFiniteSet(line.fields[name]),
         NEW names, DOMAIN names \subseteq Nat
  PROVE  IsFiniteSet(Pick(line, names))
<1> DEFINE there == {n \in DOMAIN names : names[n] \in DOMAIN line.fields
                                          /\ line.fields[names[n]] # {}}
<1>1. CASE there = {}
  BY <1>1, FS_EmptySet DEF Pick
<1>2. CASE there # {}
  <2>1. there \in SUBSET Nat
    OBVIOUS
  <2>2. \E m \in there : \A n \in there : m <= n
    <3> HIDE DEF there
    <3> QED BY ONLY <1>2, <2>1, Gathering!LeastNumber
  <2>3. Min(there) \in there
    <3> HIDE DEF there
    <3> QED BY <2>2 DEF Min
  <2>4. Pick(line, names) = line.fields[names[Min(there)]]
    BY <1>2 DEF Pick
  <2>5. names[Min(there)] \in DOMAIN line.fields
    BY <2>3
  <2> QED BY <2>4, <2>5
<1> QED BY <1>1, <1>2

LEMMA SightedOnce ==
  ASSUME NEW path, NEW file, Legible(file), NEW k \in RecordsRead(file),
         NEW s \in SeenBy[file.kind], NEW value
  PROVE  IsIndicator(Sighting(path, file, k, s, value))
<1>1. Time(file, k) \in Nat
  BY LinesCounted DEF Legible, Time
<1>2. s.trust \in Nat
  BY ParsersLook DEF Legible, Looks
<1> DEFINE i == Sighting(path, file, k, s, value)
<1>3. /\ i.first \in Nat /\ i.last \in Nat /\ i.trust \in Nat /\ i.first <= i.last
      /\ i \in [type : {i.type}, value : {i.value}, first : {i.first}, last : {i.last},
                trust : {i.trust}, tags : {i.tags}, sources : {i.sources}]
  BY <1>1, <1>2 DEF Sighting
<1> HIDE DEF i
<1>4. IsIndicator(i)
  BY ONLY <1>3 DEF IsIndicator
<1> QED BY <1>4 DEF i

\* What a file has is what one of its records has, seen by one of the parser's looks.
LEMMA SightingsAre ==
  ASSUME NEW path, NEW file, NEW i
  PROVE  i \in Sightings(path, file) <=>
           \E k \in RecordsRead(file) : \E s \in SeenBy[file.kind] :
             \E v \in Pick(file.lines[k], s.names) : i = Sighting(path, file, k, s, v)
  BY DEF Sightings

LEMMA SightingsFinite ==
  ASSUME NEW path, NEW file, Legible(file)
  PROVE  /\ IsFiniteSet(Sightings(path, file))
         /\ \A i \in Sightings(path, file) : IsIndicator(i)
<1>1. ASSUME NEW k \in RecordsRead(file), NEW s \in SeenBy[file.kind]
      PROVE  IsFiniteSet({Sighting(path, file, k, s, v) : v \in Pick(file.lines[k], s.names)})
  <2>1. IsFiniteSet(Pick(file.lines[k], s.names))
    <3>1. k \in DOMAIN file.lines
      BY LinesCounted
    <3>2. \A name \in DOMAIN file.lines[k].fields : IsFiniteSet(file.lines[k].fields[name])
      BY <3>1 DEF Legible
    <3>3. DOMAIN s.names \subseteq Nat
      BY ParsersLook DEF Legible, Looks
    <3> QED BY ONLY <3>2, <3>3, PickedIsFinite
  <2> DEFINE f == [v \in Pick(file.lines[k], s.names) |-> Sighting(path, file, k, s, v)]
  <2>2. DOMAIN f = Pick(file.lines[k], s.names) /\ f = [v \in DOMAIN f |-> f[v]]
    OBVIOUS
  <2>3. {Sighting(path, file, k, s, v) : v \in Pick(file.lines[k], s.names)} = {f[v] : v \in DOMAIN f}
    OBVIOUS
  <2> HIDE DEF f
  <2>4. IsFiniteSet({f[v] : v \in DOMAIN f})
    BY ONLY <2>1, <2>2, ImageIsFinite
  <2> QED BY ONLY <2>3, <2>4
<1>2. ASSUME NEW k \in RecordsRead(file)
      PROVE  IsFiniteSet(UNION {{Sighting(path, file, k, s, v) : v \in Pick(file.lines[k], s.names)} :
                                  s \in SeenBy[file.kind]})
  <2> DEFINE f == [s \in SeenBy[file.kind] |->
                     {Sighting(path, file, k, s, v) : v \in Pick(file.lines[k], s.names)}]
  <2>1. DOMAIN f = SeenBy[file.kind] /\ f = [s \in DOMAIN f |-> f[s]]
    OBVIOUS
  <2>2. \A s \in DOMAIN f : IsFiniteSet(f[s])
    BY <1>1
  <2>3. {{Sighting(path, file, k, s, v) : v \in Pick(file.lines[k], s.names)} :
           s \in SeenBy[file.kind]} = {f[s] : s \in DOMAIN f}
    OBVIOUS
  <2>4. IsFiniteSet(SeenBy[file.kind])
    BY ParsersLook DEF Legible
  <2> HIDE DEF f
  <2>5. IsFiniteSet(UNION {f[s] : s \in DOMAIN f})
    BY ONLY <2>1, <2>2, <2>4, UnionIsFinite
  <2> QED BY ONLY <2>3, <2>5
<1>3. IsFiniteSet(Sightings(path, file))
  <2> DEFINE f == [k \in RecordsRead(file) |->
                     UNION {{Sighting(path, file, k, s, v) : v \in Pick(file.lines[k], s.names)} :
                              s \in SeenBy[file.kind]}]
  <2>1. DOMAIN f = RecordsRead(file) /\ f = [k \in DOMAIN f |-> f[k]]
    OBVIOUS
  <2>2. \A k \in DOMAIN f : IsFiniteSet(f[k])
    BY <1>2
  <2>3. Sightings(path, file) = UNION {f[k] : k \in DOMAIN f}
    BY DEF Sightings
  <2>4. IsFiniteSet(RecordsRead(file))
    BY LinesCounted
  <2> HIDE DEF f
  <2>5. IsFiniteSet(UNION {f[k] : k \in DOMAIN f})
    BY ONLY <2>1, <2>2, <2>4, UnionIsFinite
  <2> QED BY ONLY <2>3, <2>5
<1>4. \A i \in Sightings(path, file) : IsIndicator(i)
  BY SightedOnce, SightingsAre
<1> QED BY <1>3, <1>4

\* A record a source names is the one the sighting was made from.
LEMMA RecordsNumbered ==
  ASSUME NEW file, Legible(file), Countable(file), NEW k \in RecordsRead(file)
  PROVE  LineNo(file, RecordNo(file, k)) = file.lines[k]
<1>1. k \in Nat /\ k \in 1 .. Len(file.lines) /\ file.format \in {"jsonl", "csv"}
  BY LinesCounted DEF Legible
<1>2. CASE file.format = "jsonl"
  BY <1>2 DEF LineNo, RecordNo
<1>3. CASE file.format = "csv"
  <2>1. Records(file) = DOMAIN file.lines
    BY <1>3 DEF Countable
  <2>2. {j \in 1 .. k : file.lines[j].good} = 1 .. k
    <3>1. \A j \in 1 .. k : j \in DOMAIN file.lines
      BY <1>1, LinesCounted
    <3> QED BY <2>1, <3>1 DEF Records
  <2>3. Cardinality(1 .. k) = k
    BY <1>1, FS_Interval
  <2>4. RecordNo(file, k) = 1 + k
    BY <1>3, <2>2, <2>3 DEF RecordNo
  <2>5. (1 + k) - 1 = k
    BY <1>1
  <2> QED BY <1>3, <2>4, <2>5 DEF LineNo
<1> QED BY <1>1, <1>2, <1>3

-----------------------------------------------------------------------------
(* Links *)

EdgeStep(r, edges, edge) == AddLink(edges, edge, r.source)
EdgeStart(r) == r.edges
EdgeHolds(r, S, T, edges) ==
    edges = [e \in DOMAIN r.edges \cup T |->
               IF e \notin T THEN r.edges[e]
               ELSE IF e \in DOMAIN r.edges THEN r.edges[e] \cup {r.source} ELSE {r.source}]
Linking == INSTANCE FoldInduction WITH Step <- EdgeStep, Start <- EdgeStart, Holds <- EdgeHolds

LEMMA LinkIsFolded ==
  ASSUME NEW edges, NEW event
  PROVE  Linking!SetFolded([edges |-> edges, source |-> <<event.path, event.kind>>], EdgesOf(event))
           = AddLinks(edges, event)
  BY DEF AddLinks, Linking!SetFolded, EdgeStep, EdgeStart, FoldSet, MapThenFoldSet,
         Linking!FoldSet, Linking!MapThenFoldSet

LEMMA LinksAdded ==
  ASSUME NEW event, IsFiniteSet(EdgesOf(event)), NEW edges, edges = [e \in DOMAIN edges |-> edges[e]]
  PROVE  EdgeHolds([edges |-> edges, source |-> <<event.path, event.kind>>], EdgesOf(event),
                   EdgesOf(event), AddLinks(edges, event))
<1> DEFINE S == EdgesOf(event)
           r == [edges |-> edges, source |-> <<event.path, event.kind>>]
<1>1. r.edges = [e \in DOMAIN r.edges |-> r.edges[e]]
  OBVIOUS
<1>a. Linking!IsFiniteSet(S)
  BY DEF IsFiniteSet, Linking!IsFiniteSet
<1>b. Linking!SetFolded(r, S) = AddLinks(edges, event)
  BY LinkIsFolded
<1> HIDE DEF r, S
<1>2. EdgeHolds(r, S, {}, EdgeStart(r))
  BY <1>1 DEF EdgeHolds, EdgeStart
<1>3. ASSUME NEW T \in SUBSET S, NEW x \in S \ T, NEW a, EdgeHolds(r, S, T, a)
      PROVE  EdgeHolds(r, S, T \cup {x}, EdgeStep(r, a, x))
  <2>1. DOMAIN a = DOMAIN r.edges \cup T
    BY <1>3 DEF EdgeHolds
  <2>2. \A e \in DOMAIN a : a[e] = IF e \notin T THEN r.edges[e]
                      ELSE IF e \in DOMAIN r.edges THEN r.edges[e] \cup {r.source} ELSE {r.source}
    BY <1>3 DEF EdgeHolds
  <2>3. DOMAIN a \cup {x} = DOMAIN r.edges \cup (T \cup {x})
    BY <2>1
  <2>4. x \in DOMAIN a <=> x \in DOMAIN r.edges
    BY <2>1
  <2>5. ASSUME NEW e \in DOMAIN a \cup {x}
        PROVE  (IF e # x THEN a[e]
                ELSE IF x \in DOMAIN a THEN a[x] \cup {r.source} ELSE {r.source})
               = IF e \notin T \cup {x} THEN r.edges[e]
                 ELSE IF e \in DOMAIN r.edges THEN r.edges[e] \cup {r.source} ELSE {r.source}
    BY <2>2, <2>4
  <2> QED BY ONLY <2>3, <2>5 DEF EdgeHolds, EdgeStep, AddLink
<1>4. EdgeHolds(r, S, S, Linking!SetFolded(r, S))
  BY ONLY <1>a, <1>2, <1>3, Linking!SetFoldHolds
<1> QED BY ONLY <1>b, <1>4 DEF r, S

FileStep(r, edges, event) == AddLinks(edges, event)
FileStart(r) == Nobody
\* The edges are those of the events of T, each with their files.
FileHolds(r, S, T, edges) ==
    edges = [e \in UNION {EdgesOf(event) : event \in T} |->
               {<<event.path, event.kind>> : event \in {x \in T : e \in EdgesOf(x)}}]
Attaching == INSTANCE FoldInduction WITH Step <- FileStep, Start <- FileStart, Holds <- FileHolds

LEMMA LinksAreFolded ==
  ASSUME NEW events
  PROVE  Attaching!SetFolded(0, events) = BuildLinks(events)
  BY DEF BuildLinks, Attaching!SetFolded, FileStep, FileStart, FoldSet, MapThenFoldSet,
         Attaching!FoldSet, Attaching!MapThenFoldSet

\* A link has for sources exactly the files with an event that has its ends.
LEMMA LinksStand ==
  ASSUME NEW events, IsFiniteSet(events), \A event \in events : IsFiniteSet(EdgesOf(event))
  PROVE  FileHolds(0, events, events, BuildLinks(events))
<1>1. Attaching!IsFiniteSet(events)
  BY DEF IsFiniteSet, Attaching!IsFiniteSet
<1>2. FileHolds(0, events, {}, FileStart(0))
  BY DEF FileHolds, FileStart, Nobody
<1>3. ASSUME NEW T \in SUBSET events, NEW x \in events \ T, NEW a, FileHolds(0, events, T, a)
      PROVE  FileHolds(0, events, T \cup {x}, FileStep(0, a, x))
  <2> DEFINE U == T \cup {x}
             from == <<x.path, x.kind>>
             b == AddLinks(a, x)
  <2>1. /\ DOMAIN a = UNION {EdgesOf(event) : event \in T}
        /\ \A e \in DOMAIN a : a[e] = {<<event.path, event.kind>> : event \in {y \in T : e \in EdgesOf(y)}}
        /\ a = [e \in DOMAIN a |-> a[e]]
    BY <1>3 DEF FileHolds
  <2>2. EdgeHolds([edges |-> a, source |-> from], EdgesOf(x), EdgesOf(x), b)
    BY <2>1, LinksAdded
  <2>3. /\ DOMAIN b = DOMAIN a \cup EdgesOf(x) /\ b = [e \in DOMAIN b |-> b[e]]
        /\ \A e \in DOMAIN b : b[e] = IF e \notin EdgesOf(x) THEN a[e]
                                      ELSE IF e \in DOMAIN a THEN a[e] \cup {from} ELSE {from}
    <3> HIDE DEF b, from
    <3> QED BY ONLY <2>2 DEF EdgeHolds
  <2>4. DOMAIN b = UNION {EdgesOf(event) : event \in U}
    <3> HIDE DEF b
    <3> QED BY <2>1, <2>3
  <2>5. ASSUME NEW e \in DOMAIN b
        PROVE  b[e] = {<<event.path, event.kind>> : event \in {y \in U : e \in EdgesOf(y)}}
    <3> DEFINE before == {<<event.path, event.kind>> : event \in {y \in T : e \in EdgesOf(y)}}
               after == {<<event.path, event.kind>> : event \in {y \in U : e \in EdgesOf(y)}}
    <3>1. e \notin DOMAIN a => before = {}
      BY <2>1
    <3>2. e \in EdgesOf(x) => after = before \cup {from}
      OBVIOUS
    <3>3. e \notin EdgesOf(x) => after = before /\ e \in DOMAIN a
      BY <2>3
    <3>4. e \in DOMAIN a => a[e] = before
      BY <2>1
    <3>5. b[e] = IF e \notin EdgesOf(x) THEN a[e]
                 ELSE IF e \in DOMAIN a THEN a[e] \cup {from} ELSE {from}
      BY <2>3
    <3> HIDE DEF before, after, b, from
    <3>6. b[e] = after
      BY ONLY <3>1, <3>2, <3>3, <3>4, <3>5
    <3> QED BY <3>6 DEF after
  <2> HIDE DEF b, U
  <2>6. FileHolds(0, events, U, b)
    BY ONLY <2>3, <2>4, <2>5 DEF FileHolds
  <2> QED BY ONLY <2>6 DEF FileStep, b, U
<1>4. FileHolds(0, events, events, Attaching!SetFolded(0, events))
  BY ONLY <1>1, <1>2, <1>3, Attaching!SetFoldHolds
<1> QED BY <1>4, LinksAreFolded

LEMMA EventsAre ==
  ASSUME NEW path, NEW file, NEW event \in Events(path, file)
  PROVE  /\ event.path = path /\ event.kind = file.kind
         /\ \E k \in RecordsRead(file) :
              event.says = [slot \in DOMAIN EventOf[file.kind] |->
                              Pick(file.lines[k], EventOf[file.kind][slot])]
<1>1. PICK k \in RecordsRead(file) :
        event = [path |-> path, kind |-> file.kind, record |-> k, at |-> Time(file, k),
                 says |-> [slot \in DOMAIN EventOf[file.kind] |->
                             Pick(file.lines[k], EventOf[file.kind][slot])]]
  BY DEF Events
<1> QED BY <1>1

LEMMA EventsRead ==
  ASSUME NEW path, NEW file
  PROVE  Events(path, file) = {} <=> RecordsRead(file) = {}
  BY DEF Events

LEMMA EventsFinite ==
  ASSUME NEW path, NEW file, Legible(file)
  PROVE  IsFiniteSet(Events(path, file))
<1> DEFINE f == [k \in RecordsRead(file) |->
                   [path |-> path, kind |-> file.kind, record |-> k, at |-> Time(file, k),
                    says |-> [slot \in DOMAIN EventOf[file.kind] |->
                                Pick(file.lines[k], EventOf[file.kind][slot])]]]
<1>1. DOMAIN f = RecordsRead(file) /\ f = [k \in DOMAIN f |-> f[k]]
  OBVIOUS
<1>2. Events(path, file) = {f[k] : k \in DOMAIN f}
  BY DEF Events
<1>3. IsFiniteSet(RecordsRead(file))
  BY LinesCounted
<1> HIDE DEF f
<1>4. IsFiniteSet({f[k] : k \in DOMAIN f})
  BY ONLY <1>1, <1>3, ImageIsFinite
<1> QED BY ONLY <1>2, <1>4

LEMMA RulesSay ==
  /\ IsFiniteSet(LinkRules)
  /\ \A rule \in LinkRules : rule.from \in SlotNames /\ rule.to \in SlotNames
<1>1. \A event, from, to, reason, trust :
        Link(event, from, to, reason, trust).from = from /\ Link(event, from, to, reason, trust).to = to
  BY DEF Link
<1>2. \A rule \in LinkRules : rule.from \in SlotNames /\ rule.to \in SlotNames
  BY <1>1 DEF LinkRules, SlotNames
<1>3. IsFiniteSet(LinkRules)
  <2> DEFINE A == {Link("dns", "src", "domain", "dns_client_queried_domain", 2),
                   Link("dns", "domain", "answers", "dns_answer", 1),
                   Link("proxy", "url", "domain", "proxy_url_host", 3),
                   Link("proxy", "user", "url", "proxy_user_requested_url", 2),
                   Link("proxy", "host", "url", "proxy_host_requested_url", 2),
                   Link("proxy", "ua", "url", "proxy_user_agent_requested_url", 1)}
             one == Link("vpn", "user", "src", "vpn_user_source_ip", 3)
             B == {Link("firewall", "src", "dst", "firewall_flow", 2),
                   Link("auth", "user", "src", "auth_user_source_ip", 2), one, one, one, one}
  <2>1. LinkRules = A \cup B
    BY DEF LinkRules
  <2>2. IsFiniteSet(A)
    BY SixAreFinite
  <2>3. IsFiniteSet(B)
    BY SixAreFinite
  <2> HIDE DEF A, B
  <2>4. IsFiniteSet(A \cup B)
    BY ONLY <2>2, <2>3, FS_Union
  <2> QED BY ONLY <2>1, <2>4
<1> QED BY <1>2, <1>3

LEMMA EdgesFinite ==
  ASSUME NEW path, NEW file, Legible(file), NEW event \in Events(path, file)
  PROVE  IsFiniteSet(EdgesOf(event))
<1>1. ASSUME NEW slot \in SlotNames
      PROVE  IsFiniteSet(event.says[slot])
  <2>1. PICK k \in RecordsRead(file) :
          event.says = [sl \in DOMAIN EventOf[file.kind] |->
                          Pick(file.lines[k], EventOf[file.kind][sl])]
    BY EventsAre
  <2>2. DOMAIN EventOf[file.kind] = SlotNames /\ DOMAIN EventOf[file.kind][slot] \subseteq Nat
    BY EventsSay DEF Legible, Says
  <2>3. event.says[slot] = Pick(file.lines[k], EventOf[file.kind][slot])
    BY <2>1, <2>2
  <2>4. \A name \in DOMAIN file.lines[k].fields : IsFiniteSet(file.lines[k].fields[name])
    BY LinesCounted DEF Legible
  <2>5. IsFiniteSet(Pick(file.lines[k], EventOf[file.kind][slot]))
    BY ONLY <2>2, <2>4, PickedIsFinite
  <2> QED BY <2>3, <2>5
<1> SUFFICES IsFiniteSet(Ends(event))
  BY FS_Subset DEF EdgesOf
<1> DEFINE rules == {r \in LinkRules : r.event = event.kind}
           f == [rule \in rules |-> {<<rule.reason, from, to>> :
                                       from \in event.says[rule.from], to \in event.says[rule.to]}]
<1>2. ASSUME NEW rule \in rules
      PROVE  IsFiniteSet({<<rule.reason, from, to>> :
                            from \in event.says[rule.from], to \in event.says[rule.to]})
  <2> DEFINE A == event.says[rule.from]
             B == event.says[rule.to]
             g == [e \in A \X B |-> <<rule.reason, e[1], e[2]>>]
  <2>1. IsFiniteSet(A) /\ IsFiniteSet(B)
    BY <1>1, RulesSay
  <2> HIDE DEF A, B
  <2>2. IsFiniteSet(A \X B)
    BY <2>1, FS_Product
  <2>3. DOMAIN g = A \X B /\ g = [e \in DOMAIN g |-> g[e]]
    OBVIOUS
  <2>4. {<<rule.reason, from, to>> : from \in A, to \in B} = {g[e] : e \in DOMAIN g}
    <3>1. \A from \in A, to \in B : <<from, to>> \in A \X B /\ g[<<from, to>>] = <<rule.reason, from, to>>
      OBVIOUS
    <3>2. \A e \in A \X B : e[1] \in A /\ e[2] \in B /\ g[e] = <<rule.reason, e[1], e[2]>>
      OBVIOUS
    <3> HIDE DEF g
    <3>3. \A e \in DOMAIN g : \E from \in A, to \in B : g[e] = <<rule.reason, from, to>>
      BY <2>3, <3>2
    <3>4. \A from \in A, to \in B : \E e \in DOMAIN g : g[e] = <<rule.reason, from, to>>
      BY <2>3, <3>1
    <3> QED BY <3>3, <3>4
  <2> HIDE DEF g
  <2>5. IsFiniteSet({g[e] : e \in DOMAIN g})
    BY ONLY <2>2, <2>3, ImageIsFinite
  <2> QED BY ONLY <2>4, <2>5 DEF A, B
<1>3. DOMAIN f = rules /\ f = [rule \in DOMAIN f |-> f[rule]]
  OBVIOUS
<1>4. \A rule \in DOMAIN f : IsFiniteSet(f[rule])
  BY <1>2
<1>5. Ends(event) = UNION {f[rule] : rule \in DOMAIN f}
  BY DEF Ends
<1>6. IsFiniteSet(DOMAIN f)
  BY RulesSay, FS_Subset
<1> HIDE DEF f
<1>7. IsFiniteSet(UNION {f[rule] : rule \in DOMAIN f})
  BY ONLY <1>3, <1>4, <1>6, UnionIsFinite
<1> QED BY ONLY <1>5, <1>7

-----------------------------------------------------------------------------
(* One run of the pipeline *)

Outcomes == {Nil} \cup {Parsed(k, inquiry.specs[k]) : k \in DOMAIN inquiry.specs}

\* What has been parsed is what the files so far hold, or nothing; what is
\* attached is made of all of it.
EvidenceInv ==
    /\ inquiry \in [specs : EvidenceSpecs, at : Nat,
                    pc : {"parse", "exit", "without", "attach", "report"},
                    results : Seq(Outcomes), merged : {inquiry.merged}, links : {inquiry.links},
                    iocs : {inquiry.iocs}]
    /\ inquiry.at = Len(inquiry.results) + 1 /\ Len(inquiry.results) <= Len(inquiry.specs)
    /\ \A k \in DOMAIN inquiry.results :
         inquiry.results[k] \in {Nil, Parsed(k, inquiry.specs[k])}
    /\ inquiry.pc \in {"attach", "report"} =>
         Len(inquiry.results) = Len(inquiry.specs) /\ inquiry.merged = Combined(inquiry.results)
    /\ inquiry.pc # "report" => inquiry.iocs = {}
    /\ inquiry.pc = "report" => /\ inquiry.links = BuildLinks(inquiry.merged.events)
                                /\ inquiry.iocs = DOMAIN inquiry.merged.indicators

LEMMA GreatestIs ==
  ASSUME NEW N \in SUBSET Nat, NEW m \in N, \A x \in N : x <= m
  PROVE  Max(N) = m
<1>1. \A x \in N : (\A y \in N : x >= y) <=> x = m
  OBVIOUS
<1>2. (CHOOSE x \in N : \A y \in N : x >= y) = m
  BY <1>1
<1> QED BY <1>2 DEF Max

LEMMA LeastIs ==
  ASSUME NEW N \in SUBSET Nat, NEW m \in N, \A x \in N : m <= x
  PROVE  Min(N) = m
<1>1. \A x \in N : (\A y \in N : x <= y) <=> x = m
  OBVIOUS
<1>2. (CHOOSE x \in N : \A y \in N : x <= y) = m
  BY <1>1
<1> QED BY <1>2 DEF Min

LEMMA JointStands ==
  ASSUME NEW i, NEW G, Joint(i, G)
  PROVE  StandsFor(i, G)
<1>1. IsIndicator(i) /\ \A s \in G : IsIndicator(s)
  BY DEF Joint
<1>2. /\ {i.first, i.last, i.trust} \subseteq Nat /\ i.first <= i.last
      /\ \A s \in G : {s.first, s.last, s.trust} \subseteq Nat
  BY ONLY <1>1 DEF IsIndicator
<1>3. i.trust = Max({s.trust : s \in G})
  <2> DEFINE N == {s.trust : s \in G}
  <2>1. N \in SUBSET Nat /\ i.trust \in N /\ \A x \in N : x <= i.trust
    BY <1>2 DEF Joint
  <2> HIDE DEF N
  <2>2. Max(N) = i.trust
    BY ONLY <2>1, GreatestIs
  <2> QED BY <2>2 DEF N
<1>4. i.last = Max({s.last : s \in G})
  <2> DEFINE N == {s.last : s \in G}
  <2>1. N \in SUBSET Nat /\ i.last \in N /\ \A x \in N : x <= i.last
    BY <1>2 DEF Joint
  <2> HIDE DEF N
  <2>2. Max(N) = i.last
    BY ONLY <2>1, GreatestIs
  <2> QED BY <2>2 DEF N
<1> DEFINE times == {s.first : s \in G} \ {0}
<1>5. i.first = IF times = {} THEN 0 ELSE Min(times)
  <2>1. EarliestOf(i.first, G)
    BY DEF Joint
  <2>2. CASE i.first = 0
    <3>1. times = {}
      BY <2>1, <2>2 DEF EarliestOf
    <3> QED BY <2>2, <3>1
  <2>3. CASE i.first # 0
    <3>1. times \in SUBSET Nat /\ i.first \in times /\ \A x \in times : i.first <= x
      BY <1>2, <2>1, <2>3 DEF EarliestOf
    <3> HIDE DEF times
    <3>2. Min(times) = i.first
      BY ONLY <3>1, LeastIs
    <3> QED BY ONLY <3>1, <3>2
  <2> QED BY ONLY <2>2, <2>3
<1>6. i.tags = UNION {s.tags : s \in G} /\ i.sources = UNION {s.sources : s \in G}
  BY DEF Joint
<1> QED BY ONLY <1>2, <1>3, <1>4, <1>5, <1>6 DEF StandsFor

LEMMA SpecsLegible ==
  ASSUME EvidenceInv
  PROVE  /\ Len(inquiry.specs) \in Nat /\ DOMAIN inquiry.specs = 1 .. Len(inquiry.specs)
         /\ Len(inquiry.results) \in Nat /\ DOMAIN inquiry.results = 1 .. Len(inquiry.results)
         /\ \A k \in DOMAIN inquiry.specs : Legible(inquiry.specs[k])
<1>1. inquiry.specs \in EvidenceSpecs /\ inquiry.results \in Seq(Outcomes)
  BY DEF EvidenceInv
<1>2. inquiry.specs \in Seq(Range(inquiry.specs)) /\ \A k \in DOMAIN inquiry.specs : Legible(inquiry.specs[k])
  BY <1>1, EvidenceAssumption
<1> QED BY ONLY <1>1, <1>2

\* What was read of the file at k.
Sighted(k) == IF WasRead(k) THEN Sightings(k, inquiry.specs[k]) ELSE {}

LEMMA FileStands ==
  ASSUME EvidenceInv, NEW k \in DOMAIN inquiry.results
  PROVE  /\ IsFiniteSet(Sighted(k))
         /\ \A s \in Sighted(k) : IsIndicator(s)
         /\ GatherHolds(0, Sighted(k), Sighted(k), inquiry.results[k].indicators)
         /\ inquiry.results[k].events = IF WasRead(k) THEN Events(k, inquiry.specs[k]) ELSE {}
<1> DEFINE file == inquiry.specs[k]
<1>1. Legible(file)
  <2>1. k \in DOMAIN inquiry.specs
    BY SpecsLegible DEF EvidenceInv
  <2> QED BY <2>1, SpecsLegible
<1>2. inquiry.results[k] \in {Nil, Parsed(k, file)}
  BY DEF EvidenceInv
<1>3. /\ IsFiniteSet(Sightings(k, file)) /\ \A s \in Sightings(k, file) : IsIndicator(s)
      /\ GatherHolds(0, Sightings(k, file), Sightings(k, file), MergeIndicators(Sightings(k, file)))
  BY <1>1, SightingsFinite, MergeStands
<1>4. GatherHolds(0, {}, {}, Nobody)
  BY DEF GatherHolds, Nobody
<1>5. CASE inquiry.results[k] = Nil
  <2>1. ~WasRead(k) /\ inquiry.results[k].indicators = Nobody /\ inquiry.results[k].events = {}
    BY <1>5 DEF WasRead, Nil
  <2>2. Sighted(k) = {}
    BY <2>1 DEF Sighted
  <2> QED BY ONLY <1>4, <2>1, <2>2, FS_EmptySet
<1>6. CASE inquiry.results[k] = Parsed(k, file)
  <2>1. /\ inquiry.results[k].indicators = MergeIndicators(Sightings(k, file))
        /\ inquiry.results[k].events = Events(k, file)
    BY <1>6 DEF Parsed
  <2>2. Sighted(k) = Sightings(k, file)
    <3>1. CASE WasRead(k)
      BY <3>1 DEF Sighted
    <3>2. CASE ~WasRead(k)
      <4>1. RecordsRead(file) = {}
        BY <2>1, <3>2, EventsRead DEF WasRead
      <4>2. Sightings(k, file) = {}
        BY <4>1 DEF Sightings
      <4> QED BY <3>2, <4>2 DEF Sighted
    <3> QED BY <3>1, <3>2
  <2>3. inquiry.results[k].events = IF WasRead(k) THEN Events(k, file) ELSE {}
    BY <2>1 DEF WasRead
  <2> HIDE DEF file
  <2>4. /\ IsFiniteSet(Sighted(k)) /\ \A s \in Sighted(k) : IsIndicator(s)
        /\ GatherHolds(0, Sighted(k), Sighted(k), inquiry.results[k].indicators)
    BY ONLY <1>3, <2>1, <2>2
  <2> QED BY ONLY <2>3, <2>4 DEF file
<1> QED BY <1>2, <1>5, <1>6

LEMMA IndicatorsStand ==
  ASSUME EvidenceInv, inquiry.pc = "report"
  PROVE  GatherHolds(0, AllSightings, AllSightings, inquiry.merged.indicators)
<1> DEFINE N == DOMAIN inquiry.results
           sights == [k \in N |-> Sighted(k)]
           merged == [k \in N |-> inquiry.results[k].indicators]
<1>1. IsFiniteSet(N)
  BY SpecsLegible, FS_Interval
<1>2. \A k \in N : /\ IsFiniteSet(sights[k])
                   /\ \A s \in sights[k] : IsIndicator(s)
                   /\ GatherHolds(0, sights[k], sights[k], merged[k])
  BY FileStands
<1>3. UNION {sights[k] : k \in N} = AllSightings
  BY DEF AllSightings, Sighted
<1>4. MergeIndicators(UNION {Range(merged[k]) : k \in N}) = inquiry.merged.indicators
  <2>1. inquiry.merged = Combined(inquiry.results)
    BY DEF EvidenceInv
  <2>2. inquiry.merged.indicators
          = MergeIndicators(UNION {Range(inquiry.results[k].indicators) : k \in N})
    BY <2>1 DEF Combined
  <2>3. {Range(merged[k]) : k \in N} = {Range(inquiry.results[k].indicators) : k \in N}
    OBVIOUS
  <2> HIDE DEF merged, N
  <2> QED BY ONLY <2>2, <2>3
<1> HIDE DEF N, sights, merged
<1>5. StandsTogether(N, sights, merged)
  BY ONLY <1>1, <1>2, TogetherStands
<1> QED BY ONLY <1>3, <1>4, <1>5 DEF StandsTogether

LEMMA SourcesTrace ==
  ASSUME EvidenceInv, NEW i, Joint(i, OfKey(Key(i)))
  PROVE  Traceable(i)
<1> SUFFICES ASSUME NEW source \in i.sources,
                    source[3] # 0, Countable(inquiry.specs[source[1]])
             PROVE  \E s \in SeenBy[inquiry.specs[source[1]].kind] :
                      /\ s.field = source[4] /\ s.type = i.type
                      /\ i.value \in Pick(LineNo(inquiry.specs[source[1]], source[3]), s.names)
  BY DEF Traceable
<1>1. PICK sighting \in OfKey(Key(i)) : source \in sighting.sources
  <2>1. i.sources = UNION {s.sources : s \in OfKey(Key(i))}
    BY DEF Joint
  <2> QED BY ONLY <2>1, source \in i.sources
<1>2. sighting \in AllSightings /\ Key(sighting) = Key(i)
  BY <1>1 DEF OfKey
<1>3. PICK k \in DOMAIN inquiry.results : sighting \in Sightings(k, inquiry.specs[k])
  BY <1>2 DEF AllSightings
<1> DEFINE file == inquiry.specs[k]
<1>4. PICK n \in RecordsRead(file) : \E s \in SeenBy[file.kind] :
        \E v \in Pick(file.lines[n], s.names) : sighting = Sighting(k, file, n, s, v)
  BY <1>3, SightingsAre
<1>5. PICK s \in SeenBy[file.kind] :
        \E v \in Pick(file.lines[n], s.names) : sighting = Sighting(k, file, n, s, v)
  BY <1>4
<1>6. PICK v \in Pick(file.lines[n], s.names) : sighting = Sighting(k, file, n, s, v)
  BY <1>5
<1>7. /\ source = <<k, file.kind, RecordNamed(file, n), s.field>>
      /\ sighting.type = s.type /\ sighting.value = v
  BY <1>1, <1>6 DEF Sighting
<1>8. i.type = s.type /\ i.value = v
  BY <1>2, <1>7 DEF Key
<1>9. Legible(file)
  <2>1. k \in DOMAIN inquiry.specs
    BY SpecsLegible DEF EvidenceInv
  <2> QED BY <2>1, SpecsLegible
<1> HIDE DEF file
<1>10. source[1] = k /\ source[3] = RecordNamed(file, n) /\ source[4] = s.field
  BY <1>7
<1>11. inquiry.specs[source[1]] = file
  BY <1>10 DEF file
<1>12. source[3] = RecordNo(file, n)
  BY <1>10 DEF RecordNamed
<1>13. LineNo(file, source[3]) = file.lines[n]
  BY <1>9, <1>11, <1>12, RecordsNumbered
<1> QED BY <1>6, <1>8, <1>10, <1>11, <1>13

\* An event has an edge when a rule for its kind has its ends.
LEMMA EdgesAre ==
  ASSUME NEW event, NEW edge
  PROVE  edge \in EdgesOf(event) =>
           /\ edge = <<edge[1], edge[2], edge[3]>>
           /\ \E rule \in LinkRules : /\ rule.event = event.kind /\ rule.reason = edge[1]
                                      /\ edge[2] \in event.says[rule.from]
                                      /\ edge[3] \in event.says[rule.to]
           /\ edge[1] = "dns_answer" => edge[3] \notin Aliases
  BY DEF EdgesOf, Ends

LEMMA EdgesAreThere ==
  ASSUME NEW event, NEW edge, edge = <<edge[1], edge[2], edge[3]>>, NEW rule \in LinkRules,
         rule.event = event.kind, rule.reason = edge[1],
         edge[2] \in event.says[rule.from], edge[3] \in event.says[rule.to],
         edge[1] = "dns_answer" => edge[3] \notin Aliases
  PROVE  edge \in EdgesOf(event)
<1>1. edge \in {<<rule.reason, from, to>> : from \in event.says[rule.from], to \in event.says[rule.to]}
  OBVIOUS
<1> QED BY <1>1 DEF EdgesOf, Ends

LEMMA LinksAreFaithful ==
  ASSUME EvidenceInv, inquiry.pc = "report", NEW edge \in DOMAIN inquiry.links
  PROVE  inquiry.links[edge] = FilesWith(edge)
<1> DEFINE events == inquiry.merged.events
<1>1. /\ inquiry.links = BuildLinks(events) /\ inquiry.merged = Combined(inquiry.results)
      /\ Len(inquiry.results) = Len(inquiry.specs)
  BY DEF EvidenceInv
<1>2. events = UNION {inquiry.results[k].events : k \in DOMAIN inquiry.results}
  BY <1>1 DEF Combined
<1>3. ASSUME NEW k \in DOMAIN inquiry.results
      PROVE  /\ Legible(inquiry.specs[k]) /\ IsFiniteSet(inquiry.results[k].events)
             /\ inquiry.results[k].events = IF WasRead(k) THEN Events(k, inquiry.specs[k]) ELSE {}
  <2>1. Legible(inquiry.specs[k])
    <3>1. k \in DOMAIN inquiry.specs
      BY SpecsLegible DEF EvidenceInv
    <3> QED BY <3>1, SpecsLegible
  <2>2. inquiry.results[k].events = IF WasRead(k) THEN Events(k, inquiry.specs[k]) ELSE {}
    BY FileStands
  <2> QED BY <2>1, <2>2, EventsFinite, FS_EmptySet
<1>4. IsFiniteSet(events)
  <2> DEFINE f == [k \in DOMAIN inquiry.results |-> inquiry.results[k].events]
  <2>1. /\ DOMAIN f = DOMAIN inquiry.results /\ f = [k \in DOMAIN f |-> f[k]]
        /\ \A k \in DOMAIN f : IsFiniteSet(f[k])
    BY <1>3
  <2>2. events = UNION {f[k] : k \in DOMAIN f}
    BY <1>2
  <2>3. IsFiniteSet(DOMAIN f)
    BY SpecsLegible, FS_Interval
  <2> HIDE DEF f, events
  <2>4. IsFiniteSet(UNION {f[k] : k \in DOMAIN f})
    BY ONLY <2>1, <2>3, UnionIsFinite
  <2> QED BY ONLY <2>2, <2>4
<1>5. ASSUME NEW event \in events
      PROVE  \E k \in DOMAIN inquiry.results : WasRead(k) /\ event \in Events(k, inquiry.specs[k])
  BY <1>2, <1>3
<1>6. \A event \in events : IsFiniteSet(EdgesOf(event))
  BY <1>3, <1>5, EdgesFinite
<1>7. \A k \in DOMAIN inquiry.results : WasRead(k) =>
        \A event \in Events(k, inquiry.specs[k]) : event \in events
  BY <1>2, <1>3
<1> HIDE DEF events
<1>8. FileHolds(0, events, events, BuildLinks(events))
  BY ONLY <1>4, <1>6, LinksStand
<1>9. /\ DOMAIN inquiry.links = UNION {EdgesOf(event) : event \in events}
      /\ inquiry.links[edge]
           = {<<event.path, event.kind>> : event \in {x \in events : edge \in EdgesOf(x)}}
  BY <1>1, <1>8 DEF FileHolds
<1>10. /\ edge = <<edge[1], edge[2], edge[3]>>
       /\ edge[1] = "dns_answer" => edge[3] \notin Aliases
  BY <1>9, EdgesAre
<1>11. DOMAIN inquiry.results = DOMAIN inquiry.specs
  BY <1>1, SpecsLegible
<1>12. ASSUME NEW event \in events, edge \in EdgesOf(event)
       PROVE  <<event.path, event.kind>> \in FilesWith(edge)
  <2>1. PICK k \in DOMAIN inquiry.specs : WasRead(k) /\ event \in Events(k, inquiry.specs[k])
    BY <1>5, <1>11
  <2>2. event.path = k /\ event.kind = inquiry.specs[k].kind
    BY <2>1, EventsAre
  <2>3. \E rule \in LinkRules : /\ rule.event = event.kind /\ rule.reason = edge[1]
                                /\ edge[2] \in event.says[rule.from]
                                /\ edge[3] \in event.says[rule.to]
    BY <1>12, EdgesAre
  <2> QED BY ONLY <2>1, <2>2, <2>3 DEF FilesWith
<1>13. ASSUME NEW source \in FilesWith(edge)
       PROVE  \E event \in events : edge \in EdgesOf(event) /\ source = <<event.path, event.kind>>
  <2>1. PICK k \in DOMAIN inquiry.specs :
          /\ WasRead(k) /\ source = <<k, inquiry.specs[k].kind>>
          /\ \E e \in Events(k, inquiry.specs[k]), rule \in LinkRules :
               /\ rule.event = e.kind /\ rule.reason = edge[1]
               /\ edge[2] \in e.says[rule.from] /\ edge[3] \in e.says[rule.to]
    BY DEF FilesWith
  <2>2. PICK e \in Events(k, inquiry.specs[k]), rule \in LinkRules :
          /\ rule.event = e.kind /\ rule.reason = edge[1]
          /\ edge[2] \in e.says[rule.from] /\ edge[3] \in e.says[rule.to]
    BY <2>1
  <2>3. e \in events
    BY <1>7, <1>11, <2>1
  <2>4. edge \in EdgesOf(e)
    BY <1>10, <2>2, EdgesAreThere
  <2>5. e.path = k /\ e.kind = inquiry.specs[k].kind
    BY EventsAre
  <2> QED BY ONLY <2>1, <2>3, <2>4, <2>5
<1> QED BY ONLY <1>9, <1>12, <1>13

LEMMA FaithfulInside == EvidenceInv => EvidenceFaithful
<1> SUFFICES ASSUME EvidenceInv, inquiry.pc = "report"
             PROVE  LET found == inquiry.merged.indicators IN
                    /\ DOMAIN found = {Key(s) : s \in AllSightings} /\ inquiry.iocs = DOMAIN found
                    /\ \A key \in DOMAIN found :
                         StandsFor(found[key], OfKey(key)) /\ Traceable(found[key])
                    /\ \A edge \in DOMAIN inquiry.links : inquiry.links[edge] = FilesWith(edge)
  BY DEF EvidenceFaithful
<1> DEFINE found == inquiry.merged.indicators
<1>1. GatherHolds(0, AllSightings, AllSightings, found)
  BY IndicatorsStand
<1>2. inquiry.iocs = DOMAIN found
  BY DEF EvidenceInv
<1> HIDE DEF found
<1>3. DOMAIN found = {Key(s) : s \in AllSightings}
  BY ONLY <1>1 DEF GatherHolds
<1>4. ASSUME NEW key \in DOMAIN found
      PROVE  StandsFor(found[key], OfKey(key)) /\ Traceable(found[key])
  <2>1. Joint(found[key], Like(AllSightings, key)) /\ Key(found[key]) = key
    BY ONLY <1>1, <1>3, key \in DOMAIN found DEF GatherHolds
  <2>2. Like(AllSightings, key) = OfKey(key)
    BY DEF Like, OfKey
  <2>3. Joint(found[key], OfKey(key)) /\ Key(found[key]) = key
    BY ONLY <2>1, <2>2
  <2>4. StandsFor(found[key], OfKey(key))
    BY ONLY <2>3, JointStands
  <2>5. Traceable(found[key])
    BY <2>3, SourcesTrace
  <2> QED BY <2>4, <2>5
<1> QED BY <1>2, <1>3, <1>4, LinksAreFaithful DEF found

\* Whatever evidence files are given, and whichever of them cannot be read: an
\* indicator of the report stands for exactly the sightings of its value in the
\* files that were read, sources name records that hold it, and a link names
\* exactly the files that have both its ends (evidence_models.py's merging,
\* evidence_links.py, and the parsers).
THEOREM EvidenceIsFaithful == EvidenceSpec => []EvidenceFaithful
<1>1. EvidenceInit => EvidenceInv
  <2> SUFFICES ASSUME NEW specs \in EvidenceSpecs, inquiry = NewInquiry(specs)
               PROVE  EvidenceInv
    BY DEF EvidenceInit
  <2>1. specs \in Seq(Range(specs))
    BY EvidenceAssumption
  <2>2. Len(specs) \in Nat
    BY <2>1
  <2>3. /\ inquiry.specs = specs /\ inquiry.at = 1 /\ inquiry.pc = "parse"
        /\ inquiry.results = <<>> /\ inquiry.iocs = {}
        /\ inquiry \in [specs : {specs}, at : {1}, pc : {"parse"}, results : {<<>>},
                        merged : {inquiry.merged}, links : {inquiry.links}, iocs : {inquiry.iocs}]
    BY DEF NewInquiry
  <2>4. <<>> \in Seq(Outcomes) /\ Len(<<>>) = 0 /\ DOMAIN <<>> = {}
    OBVIOUS
  <2>5. inquiry \in [specs : EvidenceSpecs, at : Nat,
                     pc : {"parse", "exit", "without", "attach", "report"},
                     results : Seq(Outcomes), merged : {inquiry.merged}, links : {inquiry.links},
                     iocs : {inquiry.iocs}]
    <3> DEFINE none == <<>>
    <3>1. /\ inquiry = [specs |-> specs, at |-> 1, pc |-> "parse", results |-> none, merged |-> Nil,
                        links |-> Nobody, iocs |-> {}]
          /\ none \in Seq(Outcomes)
      BY <2>4 DEF NewInquiry
    <3> HIDE DEF none
    <3> QED BY ONLY <3>1, specs \in EvidenceSpecs
  <2>6. /\ inquiry.at = Len(inquiry.results) + 1 /\ Len(inquiry.results) <= Len(inquiry.specs)
        /\ DOMAIN inquiry.results = {} /\ inquiry.pc = "parse" /\ inquiry.iocs = {}
    BY ONLY <2>2, <2>3, <2>4
  <2> QED BY ONLY <2>5, <2>6 DEF EvidenceInv
<1>2. EvidenceInv /\ [EvidenceNext]_inquiry => EvidenceInv'
  <2> SUFFICES ASSUME EvidenceInv, [EvidenceNext]_inquiry PROVE EvidenceInv'
    OBVIOUS
  <2>0. /\ Len(inquiry.results) \in Nat /\ Len(inquiry.specs) \in Nat
        /\ DOMAIN inquiry.results = 1 .. Len(inquiry.results)
        /\ DOMAIN inquiry.specs = 1 .. Len(inquiry.specs)
    BY SpecsLegible
  <2>a. ASSUME NEW outcome, inquiry.pc = "parse", inquiry.at <= Len(inquiry.specs),
               outcome \in {Nil, Parsed(inquiry.at, inquiry.specs[inquiry.at])},
               inquiry' = [inquiry EXCEPT !.at = @ + 1, !.results = Append(@, outcome)]
        PROVE  EvidenceInv'
    <3> DEFINE n == Len(inquiry.results)
               r == Append(inquiry.results, outcome)
    <3>1. inquiry.at = n + 1 /\ n + 1 \in 1 .. Len(inquiry.specs)
      BY <2>0, <2>a DEF EvidenceInv
    <3>2. outcome \in Outcomes /\ inquiry.results \in Seq(Outcomes)
      BY <2>0, <2>a, <3>1 DEF Outcomes, EvidenceInv
    <3>3. /\ r \in Seq(Outcomes) /\ Len(r) = n + 1 /\ DOMAIN r = 1 .. n + 1 /\ r[n + 1] = outcome
          /\ \A k \in 1 .. n : r[k] = inquiry.results[k]
      BY <2>0, <3>2
    <3>4. /\ inquiry'.specs = inquiry.specs /\ inquiry'.at = n + 2 /\ inquiry'.pc = "parse"
          /\ inquiry'.results = r /\ inquiry'.iocs = inquiry.iocs
          /\ inquiry' \in [specs : EvidenceSpecs, at : {n + 2}, pc : {"parse"}, results : {r},
                           merged : {inquiry'.merged}, links : {inquiry'.links},
                           iocs : {inquiry'.iocs}]
      <4>1. inquiry \in [specs : EvidenceSpecs, at : Nat, pc : {"parse"},
                         results : {inquiry.results}, merged : {inquiry.merged},
                         links : {inquiry.links}, iocs : {inquiry.iocs}]
        BY <2>a DEF EvidenceInv
      <4>2. (n + 1) + 1 = n + 2
        BY <2>0
      <4>3. inquiry' = [inquiry EXCEPT !.at = n + 2, !.results = r]
        BY <2>a, <3>1, <4>2
      <4> HIDE DEF n, r
      <4> QED BY ONLY <4>1, <4>3
    <3>5. Outcomes' = Outcomes
      BY <3>4 DEF Outcomes
    <3>6. \A k \in DOMAIN r : r[k] \in {Nil, Parsed(k, inquiry.specs[k])}
      <4>1. \A k \in 1 .. n : inquiry.results[k] \in {Nil, Parsed(k, inquiry.specs[k])}
        BY <2>0 DEF EvidenceInv
      <4>2. outcome \in {Nil, Parsed(n + 1, inquiry.specs[n + 1])}
        BY <2>a, <3>1
      <4>3. \A k \in 1 .. n + 1 : k \in 1 .. n \/ k = n + 1
        BY <2>0
      <4> HIDE DEF n, r
      <4> QED BY ONLY <3>3, <4>1, <4>2, <4>3
    <3>7. inquiry.iocs = {}
      BY <2>a DEF EvidenceInv
    <3>8. n \in Nat /\ n + 2 \in Nat /\ n + 2 = (n + 1) + 1 /\ n + 1 <= Len(inquiry.specs)
      BY <2>0, <3>1
    <3> HIDE DEF n, r
    <3> QED BY ONLY <3>3, <3>4, <3>5, <3>6, <3>7, <3>8 DEF EvidenceInv
  <2>1. CASE ParseFile
    BY <2>a, <2>1 DEF ParseFile
  <2>2. CASE ArtifactUnreadable
    BY <2>a, <2>2 DEF ArtifactUnreadable
  <2>b. ASSUME NEW pc \in {"exit", "without"}, inquiry.pc = "parse",
               inquiry' = [inquiry EXCEPT !.pc = pc]
        PROVE  EvidenceInv'
    <3>1. /\ inquiry'.specs = inquiry.specs /\ inquiry'.at = inquiry.at /\ inquiry'.pc = pc
          /\ inquiry'.results = inquiry.results /\ inquiry'.iocs = inquiry.iocs
          /\ inquiry' \in [specs : EvidenceSpecs, at : Nat, pc : {pc}, results : Seq(Outcomes),
                           merged : {inquiry'.merged}, links : {inquiry'.links},
                           iocs : {inquiry'.iocs}]
      BY <2>b DEF EvidenceInv
    <3>2. Outcomes' = Outcomes
      BY <3>1 DEF Outcomes
    <3> QED BY <2>b, <3>1, <3>2 DEF EvidenceInv
  <2>3. CASE SpecIsWrong
    BY <2>b, <2>3 DEF SpecIsWrong
  <2>4. CASE LogUnreadable
    BY <2>b, <2>4 DEF LogUnreadable
  <2>5. CASE CombineResults
    <3>1. /\ inquiry.pc = "parse" /\ inquiry.at > Len(inquiry.specs)
          /\ inquiry' = [inquiry EXCEPT !.pc = "attach", !.merged = Combined(inquiry.results)]
      BY <2>5 DEF CombineResults
    <3>2. /\ inquiry'.specs = inquiry.specs /\ inquiry'.at = inquiry.at /\ inquiry'.pc = "attach"
          /\ inquiry'.results = inquiry.results /\ inquiry'.iocs = inquiry.iocs
          /\ inquiry'.merged = Combined(inquiry.results)
          /\ inquiry' \in [specs : EvidenceSpecs, at : Nat, pc : {"attach"}, results : Seq(Outcomes),
                           merged : {inquiry'.merged}, links : {inquiry'.links},
                           iocs : {inquiry'.iocs}]
      BY <3>1 DEF EvidenceInv
    <3>3. Outcomes' = Outcomes
      BY <3>2 DEF Outcomes
    <3>4. Len(inquiry.results) = Len(inquiry.specs)
      BY <2>0, <3>1 DEF EvidenceInv
    <3> QED BY <3>1, <3>2, <3>3, <3>4 DEF EvidenceInv
  <2>6. CASE AttachEvidence
    <3>1. /\ inquiry.pc = "attach" /\ inquiry.iocs = {}
          /\ inquiry' = [inquiry EXCEPT !.pc = "report", !.links = BuildLinks(inquiry.merged.events),
                           !.iocs = @ \cup DOMAIN inquiry.merged.indicators]
      BY <2>6 DEF AttachEvidence, EvidenceInv
    <3>2. /\ inquiry'.specs = inquiry.specs /\ inquiry'.at = inquiry.at /\ inquiry'.pc = "report"
          /\ inquiry'.results = inquiry.results /\ inquiry'.merged = inquiry.merged
          /\ inquiry'.links = BuildLinks(inquiry.merged.events)
          /\ inquiry'.iocs = DOMAIN inquiry.merged.indicators
          /\ inquiry' \in [specs : EvidenceSpecs, at : Nat, pc : {"report"}, results : Seq(Outcomes),
                           merged : {inquiry'.merged}, links : {inquiry'.links},
                           iocs : {inquiry'.iocs}]
      BY <3>1 DEF EvidenceInv
    <3>3. Outcomes' = Outcomes
      BY <3>2 DEF Outcomes
    <3> QED BY <3>1, <3>2, <3>3 DEF EvidenceInv
  <2>7. CASE UNCHANGED inquiry
    <3>1. Outcomes' = Outcomes
      BY <2>7 DEF Outcomes
    <3> QED BY <2>7, <3>1 DEF EvidenceInv
  <2> QED BY <2>1, <2>2, <2>3, <2>4, <2>5, <2>6, <2>7 DEF EvidenceNext
<1> QED BY <1>1, <1>2, FaithfulInside, PTL DEF EvidenceSpec
=============================================================================
