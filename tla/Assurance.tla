------------------------------ MODULE Assurance ------------------------------
(***************************************************************************)
(* The six assurance controls and the verdict over them                    *)
(* (titan_decoder/core/assurance.py), as operators over what a report and  *)
(* the files beside it can say.  Facts of a report:                        *)
(*   outcome      the analysis outcome: none, complete or incomplete       *)
(*   opaque       a terminal node is opaque                                *)
(*   foreign      a terminal node is not text                              *)
(*   root         the report has a root node with a SHA-256                *)
(*   static       the offline suite completed                              *)
(*   yara         off, unavailable, clean or matched                       *)
(*   detections, signals   the two lists are not empty                     *)
(*   active       executable or active content was recognised              *)
(* Evidence kept in files of the operator:                                 *)
(*   malicious, trusted    the hash lists: silent (not configured, or      *)
(*                without the hash), unreadable, or listed                 *)
(*   sandbox, provenance   the attestation filed under the root's hash     *)
(***************************************************************************)
EXTENDS Naturals, FiniteSets

Lists == {"silent", "unreadable", "listed"}

\* "foreign" is a file that cannot be read as JSON, or that names another
\* sample or another schema.
SandboxFiles == {"none", "foreign", "incomplete", "not_vm", "unknown",
                 "malicious", "suspicious", "clean"}
ProvenanceFiles == {"none", "foreign", "untrusted", "anonymous", "identified"}

Facts ==
    [outcome : {"none", "complete", "incomplete"}, opaque : BOOLEAN,
     foreign : BOOLEAN, root : BOOLEAN, static : BOOLEAN,
     yara : {"off", "unavailable", "clean", "matched"},
     detections : BOOLEAN, signals : BOOLEAN, active : BOOLEAN]

\* What the engine and the static suite can report: a complete outcome has no
\* opaque node, and YARA is a part of the suite.
ReportFacts ==
    {f \in Facts : /\ f.outcome # "incomplete" => ~f.opaque
                   /\ ~f.static => f.yara = "off" /\ ~f.signals
                   /\ ~f.root => f.outcome # "complete" /\ ~f.active}

Evidence == [malicious : Lists, trusted : Lists,
             sandbox : SandboxFiles, provenance : ProvenanceFiles]

-----------------------------------------------------------------------------
(* Evidence bound to the root's hash *)

Control(state, disposition) == [state |-> state, disposition |-> disposition]
Passed == Control("pass", "none")
Failed(disposition) == Control("fail", disposition)
Unavailable == Control("unavailable", "none")

\* _hash_list_match: a list that cannot be read says nothing.
HashListed(list, f) == f.root /\ list = "listed"

\* _load_hash_attestation
Attested(file, f) == IF f.root /\ file # "foreign" THEN file ELSE "none"

-----------------------------------------------------------------------------
(* The controls *)

DecodingControl(f) ==
    CASE f.outcome = "complete" -> Passed
      [] f.outcome = "incomplete" -> Failed("none")
      [] OTHER -> Unavailable

FormatControl(f) ==
    IF f.outcome = "none" THEN Unavailable
    ELSE IF f.outcome = "complete" /\ ~f.opaque /\ ~f.foreign THEN Passed
    ELSE Failed("none")

OpaqueControl(f) ==
    IF f.outcome = "none" THEN Unavailable
    ELSE IF f.opaque THEN Failed("none") ELSE Passed

StaticControl(f, e) ==
    CASE HashListed(e.malicious, f) -> Failed("malicious")
      [] ~HashListed(e.malicious, f) /\ (~f.static \/ f.yara = "unavailable") -> Unavailable
      [] OTHER -> IF f.yara = "matched" \/ f.detections \/ f.signals
                  THEN Failed("suspicious") ELSE Passed
\* Variant: a sandbox verdict is asked for only where there is one.
DynamicControlOptional(f, e) ==
    LET verdict == Attested(e.sandbox, f) IN
    CASE f.active /\ verdict \in {"malicious", "suspicious"} -> Failed(verdict)
      [] f.active /\ verdict = "clean" -> Passed
      [] OTHER -> Control("not_applicable", "none")

DynamicControl(f, e) ==
    LET verdict == Attested(e.sandbox, f) IN
    CASE ~f.active -> Control("not_applicable", "none")
      [] f.active /\ verdict \in {"malicious", "suspicious"} -> Failed(verdict)
      [] f.active /\ verdict = "clean" -> Passed
      [] OTHER -> Unavailable

ProvenanceControl(f, e) ==
    IF HashListed(e.trusted, f) \/ Attested(e.provenance, f) = "identified"
    THEN Passed ELSE Unavailable

Controls(f, e) == {DecodingControl(f), FormatControl(f), OpaqueControl(f),
                   StaticControl(f, e), DynamicControl(f, e), ProvenanceControl(f, e)}

Verdict(f, e) ==
    LET dispositions == {c.disposition : c \in Controls(f, e)}
        states == {c.state : c \in Controls(f, e)} IN
    IF "malicious" \in dispositions THEN "MALICIOUS"
    ELSE IF "suspicious" \in dispositions THEN "SUSPICIOUS"
    ELSE IF states \subseteq {"pass", "not_applicable"} THEN "NO_MALICIOUS_EVIDENCE"
    ELSE "INDETERMINATE"

Verdicts == {"MALICIOUS", "SUSPICIOUS", "NO_MALICIOUS_EVIDENCE", "INDETERMINATE"}
Benign(f, e) == Verdict(f, e) = "NO_MALICIOUS_EVIDENCE"

-----------------------------------------------------------------------------
(* What losing a piece of evidence does to the inputs *)

LessEvidence(e) ==
    {[e EXCEPT !.trusted = "unreadable"],
     [e EXCEPT !.sandbox = "none"], [e EXCEPT !.sandbox = "foreign"],
     [e EXCEPT !.provenance = "none"], [e EXCEPT !.provenance = "foreign"]}

LessReported(f) ==
    {[f EXCEPT !.outcome = "none", !.opaque = FALSE],
     [f EXCEPT !.outcome = IF f.outcome = "none" THEN "none" ELSE "incomplete"],
     [f EXCEPT !.static = FALSE, !.yara = "off", !.signals = FALSE],
     [f EXCEPT !.yara = IF f.static THEN "unavailable" ELSE "off"]}
=============================================================================
