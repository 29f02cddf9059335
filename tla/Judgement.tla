----------------------------- MODULE Judgement -----------------------------
(***************************************************************************)
(* How a finished report is judged: the correlation rules and the rule     *)
(* packs (core/detection_rules.py, core/rule_packs.py), detection plugins  *)
(* and YARA (cli.py, core/yara_scanner.py), the risk score                 *)
(* (core/risk_scoring.py), the second pass of the assurance engine over    *)
(* the same report (core/assurance.py) and the intelligence summary        *)
(* (core/intelligence.py).                                                 *)
(*                                                                         *)
(* A report is [nodes, iocs].  A node is [parent, words, artifact, text,   *)
(* entropy, decoded]: words of its method and decoder, the kind of its     *)
(* artifact, the marks of its preview, its entropy and decode score times  *)
(* ten.  iocs counts the indicators of each kind.                          *)
(***************************************************************************)
EXTENDS Integers, Sequences, FiniteSets, SequencesExt

CONSTANTS
    Reports,            \* the reports to judge
    Packs,              \* sequences of rule packs given to a run
    PluginRules,        \* [rule id -> severity] of the detection plugin
    YaraHits,           \* [YARA rule -> [mark, severity]]
    MaxMatches,         \* yara_max_matches
    MaxFindings         \* MAX_PLUGIN_FINDINGS

Severities == <<"low", "medium", "high", "critical">>
Rank(severity) == CHOOSE k \in DOMAIN Severities : Severities[k] = severity

-----------------------------------------------------------------------------
(* Evidence in the graph *)

Nodes(r) == DOMAIN r.nodes

\* The path of every node; parents come before their children.
Lineage(r) ==
    FoldLeft(LAMBDA up, node :
                 Append(up, {Len(up) + 1} \cup
                            IF node.parent = 0 THEN {} ELSE up[node.parent]),
             <<>>, r.nodes)
Depth(r, i) == Cardinality(Lineage(r)[i]) - 1
Descendants(r, i) == {j \in Nodes(r) : i \in Lineage(r)[j]}
Text(r, S) == UNION {r.nodes[j].text : j \in S}
Doing(r, word) == {i \in Nodes(r) : word \in r.nodes[i].words}
Named(r, artifact) == {i \in Nodes(r) : r.nodes[i].artifact = artifact}
Present(r, kinds) == {k \in kinds : r.iocs[k] > 0}
Network == {"urls", "ipv4_public", "domains"}

Base64Weight(node) ==
    CASE "recursivebase64" \in node.words -> 2
      [] "base64" \in node.words /\ "recursivebase64" \notin node.words -> 1
      [] OTHER -> 0
\* Variant: the layers of all branches are added up.
DeepBase64Anywhere(r) ==
    FoldLeft(LAMBDA sum, i : sum + Base64Weight(r.nodes[i]), 0, [i \in Nodes(r) |-> i]) >= 3

\* The weights add up along each lineage on its own.
PathScores(r) ==
    FoldLeft(LAMBDA score, node :
                 Append(score, Base64Weight(node) +
                               IF node.parent = 0 THEN 0 ELSE score[node.parent]),
             <<>>, r.nodes)
DeepBase64(r) == \E i \in Nodes(r) : PathScores(r)[i] >= 3

MacroNetwork(r) ==
    \E i \in Doing(r, "ole") :
        LET text == Text(r, Descendants(r, i)) IN
        "macro" \in text /\ Present(r, Network) \cap text # {}

Lolbin(text) == {"lolbin", "abuse"} \subseteq text
ScheduledTask(r) ==
    \E i \in Nodes(r) : {"task", "logon"} \subseteq r.nodes[i].text /\ Lolbin(r.nodes[i].text)

OpaquePayload(r) ==
    /\ r.nodes # <<>>
    /\ r.nodes[1].entropy > 75 /\ Len(r.nodes) < 5
    /\ Cardinality({i \in Nodes(r) : r.nodes[i].decoded > 5}) <= 1
    /\ "exe" \in r.nodes[1].text \/ "upx" \in Text(r, Nodes(r))

MultiStage(r) ==
    /\ Cardinality(Present(r, Network \cup {"emails"})) >= 3
    /\ "c2" \in Text(r, Nodes(r))

XorNetwork(r) ==
    \E i \in Doing(r, "xor") :
        Present(r, {"urls", "ipv4_public"}) \cap Text(r, Descendants(r, i)) # {}

MaliciousPdf(r) == \E i \in Doing(r, "pdf") : "exe" \in Text(r, Descendants(r, i))

RtfActive(r) ==
    LET automatic == "auto" \in Text(r, Named(r, "rtf_summary"))
        executable == Named(r, "rtf_object.exe") # {} IN
    /\ Doing(r, "rtf") # {}
    /\ executable \/ Named(r, "rtf_object") # {}
    /\ automatic \/ (executable /\ Present(r, Network) # {})

Delivery(r, word, artifact) ==
    Doing(r, word) # {} /\ Named(r, artifact) # {} /\ Present(r, Network) # {}

\* The starter rules, in their order.
Builtins == <<
    [id |-> "TITAN-001", severity |-> "medium"], [id |-> "TITAN-002", severity |-> "high"],
    [id |-> "TITAN-003", severity |-> "medium"], [id |-> "TITAN-004", severity |-> "low"],
    [id |-> "TITAN-005", severity |-> "high"], [id |-> "TITAN-006", severity |-> "high"],
    [id |-> "TITAN-007", severity |-> "critical"], [id |-> "TITAN-008", severity |-> "medium"],
    [id |-> "TITAN-009", severity |-> "high"], [id |-> "TITAN-010", severity |-> "high"],
    [id |-> "TITAN-011", severity |-> "high"], [id |-> "TITAN-012", severity |-> "high"],
    [id |-> "TITAN-013", severity |-> "high"]>>

BuiltinFires(id, r) ==
    CASE id = "TITAN-001" -> DeepBase64(r)
      [] id = "TITAN-002" -> MacroNetwork(r)
      [] id = "TITAN-003" -> \E i \in Nodes(r) : Lolbin(r.nodes[i].text)
      [] id = "TITAN-004" -> OpaquePayload(r)
      [] id = "TITAN-005" -> MultiStage(r)
      [] id = "TITAN-006" -> XorNetwork(r)
      [] id = "TITAN-007" -> MaliciousPdf(r)
      [] id = "TITAN-008" -> Doing(r, "steganography") # {} \/ Named(r, "steg") # {}
      [] id = "TITAN-009" -> ScheduledTask(r)
      [] id = "TITAN-010" -> RtfActive(r)
      [] id = "TITAN-011" -> "xlm_call" \in Text(r, Named(r, "office_xlm_macros"))
      [] id = "TITAN-012" -> Delivery(r, "msi", "msi_payload.exe")
      [] id = "TITAN-013" -> Delivery(r, "onenote", "onenote_file.exe")

-----------------------------------------------------------------------------
(* Rule packs: [readable, rules], a rule [id, flaw, severity, type, and the  *)
(* word and slow of a pattern or the kinds and least of an ioc_present].     *)

\* flaw names the first problem that validate_rule_def would report, or "raises";
\* ids that begin with TITAN- in any case are a problem.
ValidRule(rule) == rule.flaw = "none"

AddRule(known, rule) ==
    IF ~ValidRule(rule) \/ (\E k \in DOMAIN known : known[k].id = rule.id)
    THEN known ELSE Append(known, rule)
LoadPack(rules, pack) ==
    IF pack.readable THEN FoldLeft(AddRule, rules, pack.rules) ELSE rules

RulesOf(packs) == FoldLeft(LoadPack, Builtins, packs)

\* validate_rule_def itself raises on a type, or on a flag of a good pattern, that
\* is no string; nothing catches it, and the engine is not built.
Breaks(packs) ==
    \E pack \in packs :
        pack.readable /\ \E k \in DOMAIN pack.rules : pack.rules[k].flaw = "raises"

\* A pattern that runs out of its time is no match.
PackFires(rule, r, expired) ==
    IF rule.type = "content_regex"
    THEN rule.word \in Text(r, Nodes(r)) /\ rule.id \notin expired
    ELSE \A k \in rule.kinds : r.iocs[k] >= rule.least

Fires(rule, r, expired) ==
    IF \E k \in DOMAIN Builtins : Builtins[k].id = rule.id
    THEN BuiltinFires(rule.id, r) ELSE PackFires(rule, r, expired)

Finding(id, severity) == [id |-> id, severity |-> severity]

\* evaluate_all
Evaluated(rules, r, expired) ==
    FoldLeft(LAMBDA found, rule :
                 IF Fires(rule, r, expired) THEN Append(found, Finding(rule.id, rule.severity))
                 ELSE found,
             <<>>, rules)

Slow(rules) == {rules[k].id : k \in {j \in DOMAIN rules :
    rules[j] \notin {Builtins[b] : b \in DOMAIN Builtins}
    /\ rules[j].type = "content_regex" /\ rules[j].slow}}

-----------------------------------------------------------------------------
(* Detection plugins and YARA *)

\* What a plugin reports of a rule that it did not declare is dropped.
PluginFindings(emitted) ==
    FoldLeft(LAMBDA kept, id :
                 IF id \in DOMAIN PluginRules THEN Append(kept, Finding(id, PluginRules[id]))
                 ELSE kept,
             <<>>, emitted)

\* Nodes in order, and the rules of each in order, until the match limit; a
\* node whose scan fails has none.
NodeMatches(r, i) ==
    LET hits == SetToSeq({y \in DOMAIN YaraHits : YaraHits[y].mark \in r.nodes[i].text}) IN
    [k \in DOMAIN hits |-> [node |-> i, rule |-> hits[k]]]
YaraMatches(r, erred) ==
    LET all == FoldLeft(LAMBDA found, i : IF i \in erred THEN found ELSE found \o NodeMatches(r, i),
                        <<>>, [i \in Nodes(r) |-> i])
    IN SubSeq(all, 1, IF Len(all) < MaxMatches THEN Len(all) ELSE MaxMatches)

\* yara_matches_to_detections: one detection of each rule.
YaraDetections(matches) ==
    LET rules == SetToSeq({matches[k].rule : k \in DOMAIN matches}) IN
    [k \in DOMAIN rules |-> Finding(rules[k], YaraHits[rules[k]].severity)]

-----------------------------------------------------------------------------
(* The risk score *)

Least(a, b) == IF a < b THEN a ELSE b
Most(a, b) == IF a > b THEN a ELSE b
Points == [low |-> 5, medium |-> 15, high |-> 25, critical |-> 40]
Floors == [low |-> 0, medium |-> 25, high |-> 50, critical |-> 75]

Floor(detections) ==
    FoldLeft(LAMBDA top, d : Most(top, Floors[d.severity]), 0, detections)

Deepest(r) == FoldLeft(LAMBDA top, i : Most(top, Depth(r, i)), 0, [i \in Nodes(r) |-> i])

Additive(r, detections, matches) ==
    FoldLeft(LAMBDA sum, d : sum + Points[d.severity], 0, detections)
    + Least(3 * r.iocs.ipv4_public, 30) + Least(4 * r.iocs.urls, 40)
    + Least(3 * r.iocs.domains, 30) + Least(2 * r.iocs.emails, 10)
    + Least(2 * Deepest(r), 20)
    + (IF \E i \in Nodes(r) : i <= 3 /\ r.nodes[i].entropy > 75 THEN 10 ELSE 0)
    + Least(20 * Len(matches), 60)

Risk(r, detections, matches) ==
    Least(Most(Additive(r, detections, matches), Floor(detections)), 100)

Level(score) ==
    CASE score >= 75 -> "CRITICAL"
      [] score \in 50 .. 74 -> "HIGH"
      [] score \in 25 .. 49 -> "MEDIUM"
      [] score \in 1 .. 24 -> "LOW"
      [] OTHER -> "CLEAN"

\* get_top_risky_nodes
NodeRisk(r, i) ==
    LET node == r.nodes[i] IN
    (IF node.entropy > 70 THEN 20 ELSE 0) + (IF node.decoded > 7 THEN 15 ELSE 0)
    + (IF "exe" \in node.text THEN 30 ELSE 0) + 5 * Depth(r, i)

-----------------------------------------------------------------------------
(* The intelligence summary *)

SignalPoints(r, detections, level) ==
    LET strongest == FoldLeft(LAMBDA top, d : Most(top, Rank(d.severity)), 1, detections)
        some(kind, points) == IF r.iocs[kind] > 0 THEN points ELSE 0
        deep == Deepest(r)
        when(condition, points) == IF condition THEN points ELSE 0 IN
    <<when(detections # <<>>, <<8, 20, 30, 35>>[strongest]),
      some("urls", Least(18, 10 + 2 * r.iocs.urls)),
      some("ipv4_public", Least(16, 7 + 2 * r.iocs.ipv4_public)),
      some("domains", Least(10, 3 + r.iocs.domains)),
      when(deep >= 4, Least(16, 8 + 2 * (deep - 4))),
      when(\E i \in Nodes(r) : r.nodes[i].entropy >= 75, 10),
      when("lolbin" \in Text(r, Nodes(r)), 16),
      when("exe" \in Text(r, Nodes(r)), 10),
      CASE level = "CRITICAL" -> 15 [] level = "HIGH" -> 12
        [] level = "MEDIUM" -> 5 [] OTHER -> 0>>

Intelligence(r, detections, risk) ==
    Least(FoldLeft(+, 0, SignalPoints(r, detections, Level(risk))), 100)

Classified(score, interpreted) ==
    CASE score >= 81 -> "LIKELY_MALICIOUS"
      [] score \in 61 .. 80 -> "HIGH_RISK_PAYLOAD"
      [] score \in 36 .. 60 -> "SUSPICIOUS_OBJECT"
      [] score \in 16 .. 35 -> "LOW_RISK_ARTIFACT"
      [] OTHER -> IF score = 0 /\ ~interpreted THEN "NO_SIGNALS_DETECTED" ELSE "CLEAN"

IsSeq(s) == s \in Seq(ToSet(s))

\* Parents precede their children; a rule that validate_rule_def accepts has a
\* severity; nobody but Titan names a rule of Titan's: plugins may not use its
\* prefix, and YARA's detections have a prefix of their own.
ASSUME JudgementAssumption ==
    /\ {MaxMatches, MaxFindings} \subseteq Nat
    /\ \A r \in Reports :
         /\ IsSeq(r.nodes)
         /\ \A i \in Nodes(r) : r.nodes[i].parent \in 0 .. i - 1
         /\ r.iocs \in [urls : Nat, ipv4_public : Nat, domains : Nat, emails : Nat]
    /\ \A packs \in Packs :
         /\ IsSeq(packs)
         /\ \A k \in DOMAIN packs :
              /\ IsSeq(packs[k].rules)
              /\ \A rule \in ToSet(packs[k].rules) :
                   ValidRule(rule) => rule.severity \in DOMAIN Floors
    /\ IsFiniteSet(DOMAIN YaraHits)
    /\ \A id \in DOMAIN PluginRules : PluginRules[id] \in DOMAIN Floors
    /\ \A y \in DOMAIN YaraHits : YaraHits[y].severity \in DOMAIN Floors
    /\ \A b \in DOMAIN Builtins :
         Builtins[b].id \notin DOMAIN PluginRules \cup DOMAIN YaraHits

-----------------------------------------------------------------------------
(* One run: the stages of cli.py, then AssuranceEngine.run_static_checks *)

VARIABLES
    stage,              \* the stage to run
    report,             \* the report and the packs: configured, on the command line
    rated               \* [detections, matches, risk, first, intelligence]

judgeVars == <<stage, report, rated>>

\* Without --enable-detections the assurance pass is all there is.
JudgeInit ==
    /\ stage \in {"rules", "static"}
    /\ \E r \in Reports, configured, given \in Packs :
         report = [graph |-> r, configured |-> configured, given |-> given]
    /\ rated = [detections |-> <<>>, matches |-> <<>>, risk |-> 0, first |-> 0,
                intelligence |-> 0]

\* run_detections_stage evaluates the configured packs and those of the command line.
RunRules ==
    /\ stage = "rules"
    /\ IF Breaks(ToSet(report.configured) \cup ToSet(report.given))
       THEN stage' = "failed" /\ UNCHANGED rated
       ELSE /\ stage' = "plugins"
            /\ LET rules == RulesOf(report.configured \o report.given) IN
               \E expired \in SUBSET Slow(rules) :
                 rated' = [rated EXCEPT !.detections = Evaluated(rules, report.graph, expired)]
    /\ UNCHANGED report

\* A plugin may repeat itself.
RunPlugins ==
    /\ stage = "plugins" /\ stage' = "yara"
    /\ \E n \in 0 .. 2, ids \in [1 .. 2 -> DOMAIN PluginRules \cup {"undeclared"}] :
         rated' = [rated EXCEPT !.detections =
                      @ \o PluginFindings(SubSeq(ids, 1, Least(n, MaxFindings)))]
    /\ UNCHANGED report

ScanYara ==
    /\ stage = "yara" /\ stage' = "risk"
    /\ \/ UNCHANGED rated
       \/ \E erred \in SUBSET Nodes(report.graph) :
            LET matches == YaraMatches(report.graph, erred) IN
            rated' = [rated EXCEPT !.matches = matches,
                                   !.detections = @ \o YaraDetections(matches)]
    /\ UNCHANGED report

ScoreRisk ==
    /\ stage = "risk" /\ stage' = "static"
    /\ LET risk == Risk(report.graph, rated.detections, rated.matches) IN
       rated' = [rated EXCEPT !.risk = risk, !.first = risk]
    /\ UNCHANGED report

\* The first of each rule id stays.
MergeDetections(existing, found) ==
    FoldLeft(LAMBDA merged, d :
                 IF \E k \in DOMAIN merged : merged[k].id = d.id THEN merged
                 ELSE Append(merged, d),
             <<>>, existing \o found)

\* run_static_checks: the configured packs once more, merged with what the
\* report has, and the risk of the result, without the YARA matches.
StaticChecks ==
    /\ stage = "static"
    /\ IF Breaks(ToSet(report.configured))
       THEN stage' = "failed" /\ UNCHANGED rated
       ELSE /\ stage' = "done"
            /\ LET rules == RulesOf(report.configured) IN
               \E expired \in SUBSET Slow(rules) :
                 LET found == Evaluated(rules, report.graph, expired)
                     merged == MergeDetections(rated.detections, found)
                     risk == Risk(report.graph, merged, <<>>) IN
                 rated' = [rated EXCEPT !.detections = merged, !.risk = risk,
                                        !.intelligence = Intelligence(report.graph, merged, risk)]
    /\ UNCHANGED report

JudgeNext == RunRules \/ RunPlugins \/ ScanYara \/ ScoreRisk \/ StaticChecks

JudgeSpec == JudgeInit /\ [][JudgeNext]_judgeVars

-----------------------------------------------------------------------------
(* Properties *)

Paths(r) == {Lineage(r)[i] : i \in Nodes(r)}
Ids(detections) == {detections[k].id : k \in DOMAIN detections}

\* The risk that a run acts on, and the one the assurance pass leaves in the
\* report, are never below the severity of any detection reported; that pass
\* repeats no rule and loses none that an earlier stage found; nothing but a rule
\* pack one of whose rules cannot even be validated ends the judgement; of one
\* that ends with a result, packs and plugins have neither changed nor suppressed
\* a built-in rule; and nested Base64 is reported exactly when one path through
\* the graph peels three layers, whatever its siblings hold.
JudgedSoundly ==
    /\ stage \in {"static", "done"} =>
         \A k \in DOMAIN rated.detections :
             rated.risk >= Floors[rated.detections[k].severity]
    /\ stage = "failed" => Breaks(ToSet(report.configured) \cup ToSet(report.given))
    /\ stage = "done" =>
         /\ Cardinality(Ids(rated.detections)) = Len(rated.detections)
         /\ {d.rule : d \in {rated.matches[k] : k \in DOMAIN rated.matches}}
              \subseteq Ids(rated.detections)
         /\ \A b \in DOMAIN Builtins :
              /\ BuiltinFires(Builtins[b].id, report.graph) <=>
                   Builtins[b].id \in Ids(rated.detections)
              /\ \A k \in DOMAIN rated.detections : rated.detections[k].id = Builtins[b].id =>
                   rated.detections[k].severity = Builtins[b].severity
         /\ "TITAN-001" \in Ids(rated.detections) <=>
              \E path \in Paths(report.graph) :
                  LET single == {i \in path : Base64Weight(report.graph.nodes[i]) = 1}
                      several == {i \in path : Base64Weight(report.graph.nodes[i]) = 2} IN
                  Cardinality(single) + 2 * Cardinality(several) >= 3
=============================================================================
