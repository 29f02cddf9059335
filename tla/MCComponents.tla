---------------------------- MODULE MCComponents ----------------------------
(* Small instances of the components around the engine and the service.  A   *)
(* behaviour drives one of them, subject; the others keep their first state. *)
EXTENDS DeepScan, PluginManager, DebianBridge, CaseStores, SampleHistory,
        Containers, Decoding, Judgement, CommandLine, Enrichment, Screens,
        Assistant, EvidenceFiles

CONSTANTS small, big, first, second, older

VARIABLE subject
Subjects == {"scan", "plugins", "bridge", "stores", "history", "containers",
             "decoding", "judgement", "cli", "enrichment", "screens", "assistant",
             "evidence"}

-----------------------------------------------------------------------------
(* Deep scan *)

MCSize == [b \in {small, big} |-> IF b = small THEN 1 ELSE 3]
Clean == [outcome |-> "complete", opaque |-> FALSE, foreign |-> FALSE, root |-> TRUE,
          static |-> TRUE, yara |-> "clean", detections |-> FALSE, signals |-> FALSE,
          active |-> TRUE]
MCFacts == [b \in {small, big} |-> [Clean EXCEPT !.active = b = small]]

-----------------------------------------------------------------------------
(* Plugins: three packages in any order of their ids, two of which may share *)
(* one, each with any of five sets of dependencies, cycles among them.       *)

Manifest(id, needs, v, rules) ==
    [id |-> id, needs |-> needs, version |-> v, network |-> id = "d",
     provides |-> {"analyzer", "detection"}, rules |-> rules]
MCCatalogs ==
    {[p \in 1 .. 3 |-> Manifest(ids[p], [i \in d[p] |-> IF i = "a" THEN 2 ELSE 1],
                                IF ids[p] = "a" THEN 2 ELSE 1,
                                IF p = 2 THEN {"r1"} ELSE {"r2"})] :
       ids \in {<<"a", "b", "c">>, <<"c", "b", "a">>, <<"a", "b", "b">>, <<"a", "d", "b">>},
       d \in [1 .. 3 -> {{}, {"a"}, {"b"}, {"c"}, {"b", "c"}}]}
MCSingleFiles == [f \in {11} |-> {"r1"}]

-----------------------------------------------------------------------------
(* Case stores and enrichment *)

MCFoundIn == [r \in {1, 2} |-> IF r = 1 THEN {"i"} ELSE {"i", "j"}]
MCRecording == [r \in {1, 2} |-> TRUE]
MCAddresses == <<"x", "i2", "i3">>
MCDomains == <<"x">>

-----------------------------------------------------------------------------
(* History: nothing distinguishes one content of evidence from another.      *)

MCSymmetry == Permutations({first, second})

-----------------------------------------------------------------------------
(* Containers *)

Entry(n, k, in, s, r, rd, b) ==
    [name |-> n, kind |-> k, inside |-> in, size |-> s, real |-> r, reads |-> rd,
     body |-> b, fits |-> TRUE, suspicious |-> TRUE]
Plain == Entry(1, "file", TRUE, 1, 1, "ok", 1)
Members == {Plain,
   Entry(1, "file", TRUE, 2, 2, "ok", 2),
   Entry(2, "file", TRUE, 1, 1, "ok", 1),
   Entry(2, "file", TRUE, 2, 3, "ok", 3),
   Entry(2, "file", TRUE, 3, 3, "ok", 4),
   Entry(1, "bomb", TRUE, 1, 2, "ok", 5),
   Entry(1, "file", FALSE, 1, 1, "ok", 6),
   Entry(1, "dull", TRUE, 1, 1, "ok", 7),
   Entry(2, "file", TRUE, 1, 1, "named", 8),
   Entry(2, "file", TRUE, 1, 1, "other", 9)}
Finds == {Plain,
          [Plain EXCEPT !.body = 2, !.size = 2, !.real = 2],
          [Plain EXCEPT !.body = 4, !.size = 3, !.real = 3],
          [Plain EXCEPT !.body = 10, !.fits = FALSE],
          [Plain EXCEPT !.body = 11, !.suspicious = FALSE]}
Archives == SeqOf(Members, 3)
Noise == [Plain EXCEPT !.real = 0, !.size = 0, !.body = 12]
Carriers ==
    [parts : SeqOf(Finds, 2), ended : BOOLEAN, plain : BOOLEAN,
     tail : {<<>>, <<[Plain EXCEPT !.body = 13]>>},
     streams : {<<Noise, Noise>>, <<Noise, [Plain EXCEPT !.body = 14]>>}]
NoDisk == [type |-> "fixed", faults |-> {}, scheme |-> "mbr", tableFaults |-> {}, parts |-> <<>>,
          blocks |-> <<>>, parent |-> FALSE, regions |-> {"metadata", "bat"},
          disk |-> [Plain EXCEPT !.body = 30, !.real = 2, !.size = 2]]
PartitionedDisks ==
    {[NoDisk EXCEPT !.parts = p, !.scheme = s, !.tableFaults = t] :
       p \in SeqOf(Finds, 3), s \in {"none", "mbr", "gpt"}, t \in {{}, {"crc"}}}
FaultyDisks ==
    {[NoDisk EXCEPT !.parts = <<Plain>>, !.faults = f, !.type = t] :
       f \in {{}, {"metadata"}, {"bat"}}, t \in {"fixed", "dynamic"}}
BlockDisks ==
    {[NoDisk EXCEPT !.parts = <<Plain>>, !.regions = r, !.blocks = b, !.parent = q] :
       r \in {{"metadata", "bat"}, {"metadata"}, {}},
       b \in SeqOf([state : {"present", "zero", "absent"}, real : {1}], 3), q \in BOOLEAN}
Disks == PartitionedDisks \cup FaultyDisks \cup BlockDisks
Table(kind, state) == [kind |-> kind, state |-> state]
Executables ==
    [faults : {{}, {"header"}, {"metadata_signature"}, {"tables_header"}, {"command"},
               {"table"}, {"section_table"}},
     tables : {<<Table("module", "fits"), Table("resources", s)>> : s \in {"fits", "truncated"}}
        \cup {<<Table("module", s), Table("resources", "fits")>> : s \in {"unsupported", "truncated"}},
     parts : SeqOf(Finds, 2), managed : BOOLEAN]
MCInputs == [f \in DOMAIN Rules |->
   IF f \in {"pe", "elf", "macho", "dex"} THEN Executables
   ELSE IF f \in {"vhd", "vhdx"} THEN Disks
   ELSE IF f \in {"png","bmp","riff","jpeg","gif","tiff","mp3","mp4"} THEN Carriers
   ELSE Archives]

-----------------------------------------------------------------------------
(* Encoded inputs *)

Pieces == [state : {"good", "cut", "bad"}, size : {1, 2}]
Runs_(S, n) == UNION {[1 .. k -> S] : k \in 0 .. n}
Signs(header, count, share) == [header |-> header, count |-> count, share |-> share]
Clear_ == {Signs(TRUE, 20, 95)}
Yes == Clear_ \cup {Signs(FALSE, 20, 95)}
Edges == [header : BOOLEAN, count : {1, 2, 3, 20}, share : {69, 70, 95}]
Given(files, signs) == [file : files, changed : BOOLEAN, text : BOOLEAN, signs : signs]
Changed(files) == [file : files, changed : {TRUE}, text : {TRUE}, signs : Clear_]

PdfThing(nums, kinds, filters, sizes, scripts, held, to) ==
    {[num |-> n, kind |-> k, filter |-> f[1], state |-> f[2], size |-> z, raw |-> 1, js |-> s,
      holds |-> h, to |-> t] :
       n \in nums, k \in kinds, f \in filters, z \in sizes, s \in scripts, h \in held, t \in to}
Plainly == {<<"flate", "good">>}
Filters == {<<"flate", "good">>, <<"flate", "bad">>, <<"flate", "cut">>, <<"lzw", "bad">>,
            <<"hex", "bad">>}
Indirect ==
    PdfThing({1, 2}, {"stream"}, Filters, {2, 4}, {0, 2}, {<<>>}, {0})
      \cup PdfThing({2}, {"dict", "null"}, Plainly, {0}, {0, 1}, {<<>>}, {0})
      \cup PdfThing({2}, {"ref"}, Plainly, {0}, {0}, {<<>>}, {1, 2})
      \cup PdfThing({2}, {"long"}, Plainly, {0}, {0}, {<<>>}, {0})
Held == PdfThing({2, 4}, {"dict"}, Plainly, {0}, {1, 2}, {<<>>}, {0})
          \cup PdfThing({4}, {"long"}, Plainly, {0}, {0}, {<<>>}, {0})
Packed == PdfThing({3}, {"packed"}, Filters, {1}, {0}, Runs_(Held, 1), {0})
Pdfs == {<<a>> : a \in Indirect} \cup {<<a, b>> : a, b \in Indirect}
          \cup {<<a, p>> : a \in Indirect, p \in Packed}
          \cup {<<p, a>> : a \in Indirect, p \in Packed}

Entries ==
    [kind : {"stream"}, size : {1, 2}, start : {0, 1, 2}, links : {{}, {1, 2}}, chunks : {<<>>}]
      \cup [kind : {"module"}, size : {2}, start : {1}, links : {{}},
            chunks : Runs_([kind : {"raw", "packed", "unsigned"}, size : {2}], 2)]
      \cup [kind : {"storage"}, size : {0}, start : {0}, links : {{}, {2}, {1}}, chunks : {<<>>}]
Oles == [fat : [1 .. 2 -> 0 .. 2], entries : {<<a, b>> : a, b \in Entries},
         root : {{1}, {2}, {}}]
Xors == [raw : {40, 60}, keys : [1 .. 2 -> {40, 61, 70, 73, 80}], size : {1}]
Scripts == Runs_([kind : {"let", "eval"}, steps : {2, 3}, size : {0, 1}]
                   \cup [kind : {"other"}, steps : {0}, size : {0}], 2)
Flat == Given(Runs_(Pieces, 2), Yes)
Long == Given(Runs_(Pieces, 3), Clear_)
One == Given(Runs_(Pieces, 1), Yes)
MCEncoded ==
   [c \in {"bz2", "lzma", "zlib", "utf16", "quoted", "url", "html", "unicode",
           "jsescape", "deflate", "powershell", "brotli"} |-> Flat]
 @@ [c \in {"zstd"} |-> Given(Runs_([state : {"good", "cut", "bad"}, size : {0, 1, 2}], 2), Yes)]
 @@ [c \in {"gzip", "pem", "recursive"} |-> Long]
 @@ [c \in {"uu"} |-> Given(Runs_(Pieces, 2), Edges)]
 @@ [c \in {"asn1"} |-> Given(Runs_([state : {"good", "bad", "deep"}, size : {0, 1}], 3), Edges)]
 @@ [c \in {"base64", "base64url", "hex", "rot13", "ascii85", "base58", "base91"} |-> One]
 @@ [c \in {"base32"} |-> Given(Runs_(Pieces, 1), Edges)]
 @@ [c \in {"xor"} |-> Given(Xors, Yes)]
 @@ [c \in {"pdf"} |-> Changed(Pdfs)]
 @@ [c \in {"ole"} |-> Changed(Oles)]
 @@ [c \in {"jseval"} |-> Given(Scripts, Yes)]

-----------------------------------------------------------------------------
(* Reports and rule packs *)

NoIocs == [urls |-> 0, ipv4_public |-> 0, domains |-> 0, emails |-> 0]
NetIocs == [urls |-> 3, ipv4_public |-> 1, domains |-> 12, emails |-> 1]
Child(parent, words, artifact, text, e, d) ==
    [parent |-> parent, words |-> words, artifact |-> artifact, text |-> text,
     entropy |-> e, decoded |-> d]
RootNode(text, e) == Child(0, {}, "none", text, e, 0)
Layer(parent, text) == Child(parent, {"base64"}, "none", text, 30, 9)
Graphs_ ==
    {<<RootNode({}, 40), Layer(1, {}),
       Child(2, {"recursivebase64", "base64"}, "none", {"lolbin", "abuse"}, 30, 9)>>,
     <<RootNode({}, 40), Layer(1, {}), Layer(1, {}), Layer(1, {"y"})>>,
     <<RootNode({}, 40), Layer(1, {}), Layer(2, {}), Layer(3, {"y"})>>,
     <<RootNode({"y"}, 40), Child(1, {"ole"}, "none", {"macro"}, 50, 8),
       Child(2, {"xor"}, "none", {"urls", "c2", "y"}, 40, 8)>>,
     <<RootNode({"exe"}, 79)>>,
     <<RootNode({}, 40), Child(1, {"pdf"}, "none", {"exe"}, 60, 9),
       Child(1, {"steganography"}, "steg", {"y"}, 60, 9)>>,
     <<RootNode({"task", "logon", "lolbin", "abuse"}, 40),
       Child(1, {"rtf"}, "rtf_object", {}, 50, 3),
       Child(1, {"rtf"}, "rtf_summary", {"auto"}, 50, 3)>>,
     <<RootNode({}, 40), Child(1, {"msi"}, "msi_payload.exe", {"exe"}, 50, 3),
       Child(1, {"onenote"}, "onenote_file.exe", {"exe"}, 50, 3),
       Child(1, {"office"}, "office_xlm_macros", {"xlm_call"}, 50, 3)>>,
     <<>>}
MCReports == {[nodes |-> g, iocs |-> i] : g \in Graphs_, i \in {NoIocs, NetIocs}}
PackRule(id, flaw, sev, type, word, slow) ==
    [id |-> id, flaw |-> flaw, severity |-> sev, type |-> type, word |-> word,
     slow |-> slow, kinds |-> {"urls"}, least |-> 2]
WordRule(id, flaw, sev) == PackRule(id, flaw, sev, "content_regex", "lolbin", FALSE)
P1 == [readable |-> TRUE,
       rules |-> <<PackRule("A", "none", "low", "content_regex", "lolbin", TRUE),
                   WordRule("A", "none", "critical"), WordRule("titan-1", "reserved", "low")>>]
P2 == [readable |-> TRUE,
       rules |-> <<PackRule("B", "none", "critical", "ioc_present", "none", FALSE),
                   WordRule("A", "none", "high")>>]
P3 == [readable |-> FALSE, rules |-> <<>>]
P4 == [readable |-> TRUE,
       rules |-> <<WordRule("A", "none", "high"), WordRule("C", "raises", "low")>>]
MCPacks == {<<>>, <<P1>>, <<P2>>, <<P3, P1>>, <<P2, P1>>, <<P1, P4>>}
MCPlugin == "A" :> "critical" @@ "P" :> "medium"
MCYara == "yara1" :> [mark |-> "y", severity |-> "low"] @@ "yara2" :> [mark |-> "y", severity |-> "high"]

-----------------------------------------------------------------------------
(* Invocations *)

Usual == [commands |-> {}, mode |-> "single", file |-> "good", evidence |-> "none",
          profile |-> "none", depth |-> 0, offline |-> FALSE, profiled |-> FALSE,
          detections |-> TRUE, assurance |-> TRUE, enrichment |-> FALSE, phase5 |-> FALSE,
          exports |-> {}, vault |-> FALSE, strict |-> FALSE, limited |-> FALSE,
          failOn |-> Unrated, out |-> "file"]
AllExports == {"ioc", "case", "graph", "jsonl", "intelligence", "forensics"}
MCInvocations ==
    {[Usual EXCEPT !.commands = c] :
       c \in {{x} : x \in ToSet(InfoOrder)} \cup {{"doctor", "quarantine_list"}}}
      \cup {[Usual EXCEPT !.mode = m, !.strict = s, !.limited = s, !.vault = v] :
              m \in {"scan", "batch"}, s, v \in BOOLEAN}
      \cup {[Usual EXCEPT !.file = f, !.evidence = e] :
              f \in {"none", "missing", "empty", "good"},
              e \in {"none", "good", "bad_path", "malformed"}}
      \cup {[Usual EXCEPT !.offline = o, !.enrichment = TRUE, !.profiled = o, !.phase5 = o] :
              o \in BOOLEAN}
      \cup {[Usual EXCEPT !.detections = d, !.assurance = a, !.failOn = l, !.out = o] :
              d, a \in BOOLEAN, l \in {2, 3, Unrated}, o \in {"file", "stdout", "none"}}
      \cup {[Usual EXCEPT !.exports = AllExports, !.vault = v, !.strict = s, !.limited = l,
                          !.failOn = 3] : v, s, l \in BOOLEAN}
MCFiles == <<"a", "b", "a">>

-----------------------------------------------------------------------------
(* Reports and questions for the assistant *)

FactOf(kind, name, words, size) ==
    [kind |-> kind, name |-> name, words |-> words, size |-> size, depth |-> 1, advises |-> FALSE]
MCFactSets ==
    {<<>>,
     <<FactOf("node", "1", {"powershell"}, 2), FactOf("node", "2", {}, 1),
       FactOf("ioc", "i", {"url"}, 1), FactOf("detection", "t", {"risk"}, 1)>>,
     <<FactOf("node", "1", {"decoding"}, 1), FactOf("ioc", "i", {"url"}, 3),
       FactOf("risk", "level", {"risk"}, 1), FactOf("signal", "s", {}, 1),
       [FactOf("intelligence", "advice", {"recommend"}, 1) EXCEPT !.advises = TRUE]>>,
     <<FactOf("attack", "a", {"mitre"}, 2), FactOf("relationship", "r", {"risk"}, 1),
       FactOf("attribution_hint", "h", {"url"}, 2)>>}
MCDossiers == {<<a>> : a \in MCFactSets} \cup {<<a, b>> : a, b \in MCFactSets}
MCAsked == {{"why", "risk"}, {"powershell"}, {"decoding", "url"}, {"ioc", "caused"}, {"mitre", "url"},
            {"summarize"}, {"compare", "risk"}, {"recommend"}, {"url"}}
MCModelTexts ==
    {<<Says("fact", {<<"node", n, "1">>})>> : n \in {0, 1}}
      \cup {<<Says("heading", {}), Says("fact", {<<"ioc", 0, "i">>})>>, <<Says("fact", {})>>,
            <<Says("inference", {}), Says("advice", {})>>, <<Says("heading", {<<"node", 0, "9">>})>>}

-----------------------------------------------------------------------------
(* Evidence files *)

Line(good, at, fields) == [good |-> good, at |-> at, fields |-> fields]
MCLines ==
    {Line(TRUE, 2, "query" :> {"x"} @@ "client_ip" :> {"a"} @@ "answers" :> {"a", "c"}),
     Line(TRUE, 1, "url" :> {"u"} @@ "host" :> {"x"} @@ "user" :> {"w"} @@ "src_ip" :> {"a"}
                     @@ "dst_ip" :> {"b"} @@ "user_agent" :> {"g"}),
     Line(TRUE, 3, "url" :> {"u"} @@ "assigned_ip" :> {"b"} @@ "hostname" :> {"h"} @@ "mac" :> {"m"}
                     @@ "query" :> {"x"} @@ "resolved_ip" :> {"b"} @@ "user" :> {"w"}),
     Line(TRUE, 0, "url" :> {"u"} @@ "host" :> {"x"} @@ "client_ip" :> {"a"}),
     Line(FALSE, 0, Nobody)}
MCLogs == [kind : DOMAIN SeenBy, format : {"csv"}, lines : SeqOf(MCLines, 1)]
            \cup [kind : {"dns", "proxy", "browser", "generic"}, format : {"jsonl", "csv"},
                  lines : {<<a, b>> : a, b \in MCLines}]
MCFewLogs == [kind : {"proxy", "browser", "vpn"}, format : {"jsonl"}, lines : {<<a>> : a \in MCLines}]
MCSpecs == {<<>>} \cup {<<f>> : f \in MCLogs} \cup {<<f, g>> : f \in MCLogs, g \in MCFewLogs}

-----------------------------------------------------------------------------
(* One component at a time.  The inputs of the others are fixed.            *)

MCInit ==
    /\ subject \in Subjects
    /\ subject = "scan" \/ samples = [f \in Candidates |-> small]
    /\ ScanInit
    /\ subject = "plugins" \/ manifests = CHOOSE c \in Catalogs : TRUE
    /\ PluginInit
    /\ subject = "judgement"
       \/ /\ report = [graph |-> CHOOSE r \in Reports : TRUE, configured |-> <<>>, given |-> <<>>]
          /\ stage = "rules"
    /\ JudgeInit
    /\ IF subject = "cli" THEN CliInit ELSE given = Usual /\ cli = FirstStage(TRUE, TRUE)
    /\ subject = "enrichment" \/ lookup = Begun(1, FALSE, Cooldown)
    /\ EnrichInit
    /\ IF subject = "assistant" THEN AssistantInit ELSE desk = NewDesk(<<<<>>>>, FALSE)
    /\ IF subject = "evidence" THEN EvidenceInit ELSE inquiry = NewInquiry(<<>>)
    /\ BridgeInit /\ StoresInit /\ HistoryInit /\ ContainersInit /\ DecodingInit /\ ScreensInit

MCNext ==
    /\ UNCHANGED subject
    /\ IF subject = "scan" THEN ScanNext ELSE UNCHANGED scanVars
    /\ IF subject = "plugins" THEN PluginNext ELSE UNCHANGED pluginVars
    /\ IF subject = "bridge" THEN BridgeNext ELSE UNCHANGED bridgeVars
    /\ IF subject = "stores" THEN StoresNext ELSE UNCHANGED storeVars
    /\ IF subject = "history" THEN HistoryNext ELSE UNCHANGED historyVars
    /\ IF subject = "containers" THEN ContainersNext ELSE UNCHANGED job
    /\ IF subject = "decoding" THEN DecodingNext ELSE UNCHANGED decode
    /\ IF subject = "judgement" THEN JudgeNext ELSE UNCHANGED judgeVars
    /\ IF subject = "cli" THEN CliNext ELSE UNCHANGED cliVars
    /\ IF subject = "enrichment" THEN EnrichNext ELSE UNCHANGED enrichVars
    /\ IF subject = "screens" THEN ScreensNext ELSE UNCHANGED screenVars
    /\ IF subject = "assistant" THEN AssistantNext ELSE UNCHANGED desk
    /\ IF subject = "evidence" THEN EvidenceNext ELSE UNCHANGED inquiry
=============================================================================
