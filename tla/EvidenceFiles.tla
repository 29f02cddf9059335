--------------------------- MODULE EvidenceFiles ---------------------------
(***************************************************************************)
(* The evidence pipeline: files of logs and endpoint artifacts given on    *)
(* the command line are parsed into events and indicators                  *)
(* (core/evidence_parsers.py, core/endpoint_parsers.py), merged            *)
(* (core/evidence_models.py), linked (core/evidence_links.py) and attached *)
(* to the report of the run (cli.py).                                      *)
(*                                                                         *)
(* Times are numbers, 0 is unknown; UTC ISO strings sort as they do.       *)
(* Confidence is 1, 2, 3 for low, medium, high.                            *)
(***************************************************************************)
EXTENDS Naturals, Sequences, FiniteSets, FiniteSetsExt, Functions

CONSTANTS
    EvidenceSpecs,      \* what --evidence may be given: sequences of files
    MaxVisits,          \* LIMIT of the history queries
    Aliases             \* the answers of name servers that are no addresses

\* A line of a file: whether it parses, its time, and its fields, each a set
\* of values (one, but for lists).  A line number or an id that a record
\* carries itself is left out.
\* A file: its kind, its format, and its lines.

VARIABLE inquiry        \* [specs, at, pc, results, merged, links, iocs]

-----------------------------------------------------------------------------
(* Records *)

\* _read_jsonl numbers every line, _read_csv only the rows that parse.
RecordNo(file, k) ==
    IF file.format = "jsonl" THEN k
    ELSE 1 + Cardinality({j \in 1 .. k : file.lines[j].good})

Records(file) == {k \in DOMAIN file.lines : file.lines[k].good}

\* _pick: the first of the names that has a value.
Pick(line, names) ==
    LET there == {n \in DOMAIN names : names[n] \in DOMAIN line.fields
                                       /\ line.fields[names[n]] # {}}
    IN  IF there = {} THEN {} ELSE line.fields[names[Min(there)]]

\* What a parser reads: the names it looks for, the type it gives the value,
\* its confidence, its tags, and the field it names as the source.
Sees(names, type, trust, tags, field) ==
    [names |-> names, type |-> type, trust |-> trust, tags |-> tags, field |-> field]

ClientIp == <<"client_ip", "src_ip">>
HostName == <<"host", "hostname">>

\* parse_dns_records and the others: what becomes an indicator ...
DnsSees ==
    {Sees(<<"query">>, "domains", 3, {"dns"}, "domain"),
     Sees(ClientIp, "ipv4", 2, {"dns", "client"}, "client_ip"),
     Sees(<<"answers", "resolved_ip">>, "ipv4", 3, {"dns", "answer"}, "answers")}
ProxySees ==
    {Sees(<<"url">>, "urls", 3, {"proxy"}, "url"),
     Sees(<<"host", "domain">>, "domains", 3, {"proxy"}, "host"),
     Sees(<<"user_agent">>, "user_agents", 2, {"proxy"}, "user_agent"),
     Sees(<<"src_ip", "client_ip">>, "ipv4", 2, {"proxy", "client"}, "src_ip"),
     Sees(<<"dst_ip">>, "ipv4", 2, {"proxy", "server"}, "dst_ip")}
FirewallSees ==
    {Sees(<<"src_ip", "client_ip">>, "ipv4", 2, {"firewall", "src"}, "src_ip"),
     Sees(<<"dst_ip">>, "ipv4", 2, {"firewall", "dst"}, "dst_ip")}
VpnSees ==
    {Sees(<<"user">>, "users", 3, {"vpn"}, "user"),
     Sees(<<"src_ip", "client_ip">>, "ipv4", 3, {"vpn", "client"}, "src_ip"),
     Sees(<<"assigned_ip">>, "ipv4", 2, {"vpn", "assigned"}, "assigned_ip")}
AuthSees ==
    {Sees(<<"user">>, "users", 3, {"auth"}, "user"),
     Sees(<<"src_ip", "client_ip">>, "ipv4", 2, {"auth"}, "src_ip"),
     Sees(HostName, "hostnames", 2, {"auth"}, "host")}
DhcpSees ==
    {Sees(<<"mac">>, "mac_addresses", 3, {"dhcp"}, "mac"),
     Sees(<<"ip", "assigned_ip", "client_ip">>, "ipv4", 3, {"dhcp"}, "ip"),
     Sees(<<"hostname", "host">>, "hostnames", 2, {"dhcp"}, "hostname")}
GenericSees ==
    {Sees(<<"src_ip", "client_ip">>, "ipv4", 1, {"generic"}, "src_ip"),
     Sees(<<"dst_ip">>, "ipv4", 1, {"generic"}, "dst_ip"),
     Sees(<<"domain", "query", "host">>, "domains", 1, {"generic"}, "domain"),
     Sees(<<"url">>, "urls", 1, {"generic"}, "url"),
     Sees(<<"user">>, "users", 1, {"generic"}, "user"),
     Sees(HostName, "hostnames", 1, {"generic"}, "host")}
HistorySees ==
    {Sees(<<"url">>, "urls", 2, {"powershell"}, "command")}
BrowserSees ==
    {Sees(<<"url">>, "urls", 3, {"browser"}, "url")}

SeenBy ==
    [dns |-> DnsSees, proxy |-> ProxySees, firewall |-> FirewallSees, vpn |-> VpnSees,
     auth |-> AuthSees, dhcp |-> DhcpSees, generic |-> GenericSees,
     powershell |-> HistorySees, browser |-> BrowserSees]

\* ... and what the event says.
Slots(src, dst, domain, host, user, url) ==
    [src |-> src, dst |-> dst, domain |-> domain, host |-> host, user |-> user,
     url |-> url, ua |-> <<"user_agent">>, answers |-> <<"answers">>]
EventOf ==
    [dns |-> Slots(ClientIp, <<"server_ip">>, <<"query">>, HostName, <<"user">>, <<>>),
     proxy |-> Slots(<<"src_ip", "client_ip">>, <<"dst_ip">>, <<"host", "domain">>,
                     <<"device", "hostname", "host">>, <<"user">>, <<"url">>),
     firewall |-> Slots(<<"src_ip", "client_ip">>, <<"dst_ip">>, <<>>, HostName, <<"user">>, <<>>),
     vpn |-> Slots(<<"src_ip", "client_ip">>, <<"assigned_ip">>, <<>>, HostName, <<"user">>, <<>>),
     auth |-> Slots(<<"src_ip", "client_ip">>, <<>>, <<>>, HostName, <<"user">>, <<>>),
     dhcp |-> Slots(<<"ip", "assigned_ip", "client_ip">>, <<>>, <<>>, <<"hostname", "host">>, <<>>, <<>>),
     generic |-> Slots(<<"src_ip", "client_ip">>, <<"dst_ip">>, <<"domain", "query", "host">>,
                       HostName, <<"user">>, <<"url">>),
     powershell |-> Slots(<<>>, <<>>, <<>>, <<>>, <<>>, <<>>),
     browser |-> Slots(<<>>, <<>>, <<>>, <<>>, <<>>, <<"url">>)]

\* The records of a file that are read: the newest visits of a history.
RecordsRead(file) ==
    IF file.kind # "browser" THEN Records(file)
    ELSE LET newer(j, k) == file.lines[j].at > file.lines[k].at
                            \/ (file.lines[j].at = file.lines[k].at /\ j < k)
         IN  {k \in Records(file) : Cardinality({j \in Records(file) : newer(j, k)}) < MaxVisits}

Time(file, k) == IF file.kind = "powershell" THEN 0 ELSE file.lines[k].at

Events(path, file) ==
    {[path |-> path, kind |-> file.kind, record |-> k, at |-> Time(file, k),
      says |-> [slot \in DOMAIN EventOf[file.kind] |->
                  Pick(file.lines[k], EventOf[file.kind][slot])]] : k \in RecordsRead(file)}

\* Indicators in generic evidence are made from the event, and visits from a
\* query: neither names its record.
RecordNamed(file, k) == IF file.kind \in {"generic", "browser"} THEN 0 ELSE RecordNo(file, k)

Sighting(path, file, k, s, value) ==
    [type |-> s.type, value |-> value,
     first |-> IF file.kind = "browser" THEN 0 ELSE Time(file, k), last |-> Time(file, k),
     trust |-> s.trust, tags |-> s.tags,
     sources |-> {<<path, file.kind, RecordNamed(file, k), s.field>>}]
Sightings(path, file) ==
    UNION {UNION {{Sighting(path, file, k, s, v) : v \in Pick(file.lines[k], s.names)} :
                    s \in SeenBy[file.kind]} : k \in RecordsRead(file)}

-----------------------------------------------------------------------------
(* merge_indicators *)

\* Variant: an unknown time is the earliest.
EarlierUnknown(a, b) == Min({a, b})
Earlier(a, b) == IF a = 0 THEN b ELSE IF b = 0 THEN a ELSE Min({a, b})
Later(a, b) == Max({a, b})

Key(indicator) == <<indicator.type, indicator.value>>

Joined(old, new) ==
    [old EXCEPT !.first = Earlier(@, new.first), !.last = Later(@, new.last),
                !.trust = Max({@, new.trust}), !.tags = @ \cup new.tags,
                !.sources = @ \cup new.sources]
MergeInto(merged, new) ==
    [key \in DOMAIN merged \cup {Key(new)} |->
        IF key # Key(new) THEN merged[key]
        ELSE IF key \in DOMAIN merged THEN Joined(merged[key], new) ELSE new]

Nobody == [x \in {} |-> x]
MergeIndicators(indicators) ==
    FoldSet(LAMBDA new, merged : MergeInto(merged, new), Nobody, indicators)

\* parse_evidence_file: a file's indicators are merged among themselves.
Parsed(path, file) ==
    [events |-> Events(path, file),
     indicators |-> MergeIndicators(Sightings(path, file))]

\* combine_parse_results: and then with those of the other files.
Combined(parsed) ==
    [events |-> UNION {parsed[k].events : k \in DOMAIN parsed},
     indicators |-> MergeIndicators(UNION {Range(parsed[k].indicators) : k \in DOMAIN parsed})]

-----------------------------------------------------------------------------
(* build_links_from_evidence_events *)

Link(event, from, to, reason, trust) ==
    [event |-> event, from |-> from, to |-> to, reason |-> reason, trust |-> trust]
LinkRules ==
    {Link("dns", "src", "domain", "dns_client_queried_domain", 2),
     Link("dns", "domain", "answers", "dns_answer", 1),
     Link("proxy", "url", "domain", "proxy_url_host", 3),
     Link("proxy", "user", "url", "proxy_user_requested_url", 2),
     Link("proxy", "host", "url", "proxy_host_requested_url", 2),
     Link("proxy", "ua", "url", "proxy_user_agent_requested_url", 1),
     Link("firewall", "src", "dst", "firewall_flow", 2),
     Link("auth", "user", "src", "auth_user_source_ip", 2),
     Link("vpn", "user", "src", "vpn_user_source_ip", 3)}

\* _add_link: the sources of equal links are joined.
AddLink(edges, edge, source) ==
    [e \in DOMAIN edges \cup {edge} |->
        IF e # edge THEN edges[e]
        ELSE IF edge \in DOMAIN edges THEN edges[edge] \cup {source} ELSE {source}]

Ends(event) ==
    UNION {{<<rule.reason, from, to>> : from \in event.says[rule.from], to \in event.says[rule.to]} :
             rule \in {r \in LinkRules : r.event = event.kind}}
EdgesOf(event) == {edge \in Ends(event) : edge[1] = "dns_answer" => edge[3] \notin Aliases}

AddLinks(edges, event) ==
    FoldSet(LAMBDA edge, all : AddLink(all, edge, <<event.path, event.kind>>),
            edges, EdgesOf(event))
BuildLinks(events) ==
    FoldSet(LAMBDA event, edges : AddLinks(edges, event), Nobody, events)

-----------------------------------------------------------------------------
(* One run *)

Nil == [events |-> {}, indicators |-> Nobody]
NewInquiry(specs) ==
    [specs |-> specs, at |-> 1, pc |-> "parse", results |-> <<>>, merged |-> Nil,
     links |-> Nobody, iocs |-> {}]
EvidenceInit == \E specs \in EvidenceSpecs : inquiry = NewInquiry(specs)

\* _parse_evidence_specs: one file after the other.
ParseFile ==
    /\ inquiry.pc = "parse" /\ inquiry.at <= Len(inquiry.specs)
    /\ inquiry' = [inquiry EXCEPT !.at = @ + 1,
                     !.results = Append(@, Parsed(inquiry.at, inquiry.specs[inquiry.at]))]

\* A path that is not there, or a spec without a kind, ends the invocation.
SpecIsWrong ==
    /\ inquiry.pc = "parse" /\ inquiry.at <= Len(inquiry.specs)
    /\ inquiry' = [inquiry EXCEPT !.pc = "exit"]

\* A log that cannot be opened raises, and parse_evidence_stage goes on with no
\* evidence at all, of the other files neither.
LogUnreadable ==
    /\ inquiry.pc = "parse" /\ inquiry.at <= Len(inquiry.specs)
    /\ inquiry.specs[inquiry.at].kind \notin {"powershell", "browser"}
    /\ inquiry' = [inquiry EXCEPT !.pc = "without"]

\* An endpoint artifact that cannot be read is an empty one.
ArtifactUnreadable ==
    /\ inquiry.pc = "parse" /\ inquiry.at <= Len(inquiry.specs)
    /\ inquiry.specs[inquiry.at].kind \in {"powershell", "browser"}
    /\ inquiry' = [inquiry EXCEPT !.at = @ + 1, !.results = Append(@, Nil)]

CombineResults ==
    /\ inquiry.pc = "parse" /\ inquiry.at > Len(inquiry.specs)
    /\ inquiry' = [inquiry EXCEPT !.pc = "attach", !.merged = Combined(inquiry.results)]

\* attach_evidence_stage, and every later stage's _merge_evidence_iocs.
AttachEvidence ==
    /\ inquiry.pc = "attach"
    /\ inquiry' = [inquiry EXCEPT !.pc = "report", !.links = BuildLinks(inquiry.merged.events),
                     !.iocs = @ \cup DOMAIN inquiry.merged.indicators]

EvidenceNext ==
    ParseFile \/ SpecIsWrong \/ LogUnreadable \/ ArtifactUnreadable \/ CombineResults \/ AttachEvidence

EvidenceSpec == EvidenceInit /\ [][EvidenceNext]_inquiry

\* A file has a known kind and format, and a field as many values as it lists.
Legible(file) ==
    /\ file.kind \in DOMAIN SeenBy /\ file.format \in {"jsonl", "csv"}
    /\ file.lines \in Seq(Range(file.lines))
    /\ \A k \in DOMAIN file.lines :
         /\ file.lines[k].good \in BOOLEAN /\ file.lines[k].at \in Nat
         /\ \A name \in DOMAIN file.lines[k].fields : IsFiniteSet(file.lines[k].fields[name])
ASSUME EvidenceAssumption ==
    /\ MaxVisits \in Nat
    /\ \A specs \in EvidenceSpecs :
         specs \in Seq(Range(specs)) /\ \A k \in DOMAIN specs : Legible(specs[k])

-----------------------------------------------------------------------------
(* Properties *)

\* Whether a file was read, and not taken for empty.
WasRead(k) == inquiry.results[k].events # {}
AllSightings ==
    UNION {Sightings(k, inquiry.specs[k]) : k \in {j \in DOMAIN inquiry.results : WasRead(j)}}
\* What line a source means, where no row before it failed to parse.
LineNo(file, n) == file.lines[IF file.format = "csv" THEN n - 1 ELSE n]
Countable(file) == file.format = "jsonl" \/ Records(file) = DOMAIN file.lines
OfKey(key) == {s \in AllSightings : Key(s) = key}

\* The indicator has the sources and tags of the sightings, from the earliest
\* to the latest known time, and is as sure as the surest of them.
StandsFor(i, sightings) ==
    /\ i.sources = UNION {s.sources : s \in sightings}
    /\ i.tags = UNION {s.tags : s \in sightings}
    /\ i.trust = Max({s.trust : s \in sightings})
    /\ i.last = Max({s.last : s \in sightings})
    /\ LET times == {s.first : s \in sightings} \ {0} IN
       i.first = IF times = {} THEN 0 ELSE Min(times)
    /\ i.first <= i.last

\* The records its sources name hold the value.
Traceable(i) ==
    \A source \in i.sources :
      LET file == inquiry.specs[source[1]] IN
      source[3] # 0 /\ Countable(file) =>
        \E s \in SeenBy[file.kind] : /\ s.field = source[4] /\ s.type = i.type
                                     /\ i.value \in Pick(LineNo(file, source[3]), s.names)

\* The files with a record that has both ends of the link.
FilesWith(edge) ==
    {<<k, inquiry.specs[k].kind>> :
       k \in {j \in {n \in DOMAIN inquiry.specs : WasRead(n)} :
               \E e \in Events(j, inquiry.specs[j]), rule \in LinkRules :
                 /\ rule.event = e.kind /\ rule.reason = edge[1]
                 /\ edge[2] \in e.says[rule.from] /\ edge[3] \in e.says[rule.to]}}

\* Merging file by file and then all together loses nothing and invents
\* nothing: an indicator stands for exactly the sightings of its value, from
\* the earliest to the latest known time, as sure as the surest of them, with
\* every source.  A source that names a record names one that holds the
\* value, unless rows of a CSV file before it did not parse.  A link has for
\* sources exactly the files one of whose records has both its ends.
EvidenceFaithful ==
    inquiry.pc = "report" =>
        LET found == inquiry.merged.indicators IN
        /\ DOMAIN found = {Key(s) : s \in AllSightings} /\ inquiry.iocs = DOMAIN found
        /\ \A key \in DOMAIN found : StandsFor(found[key], OfKey(key)) /\ Traceable(found[key])
        /\ \A edge \in DOMAIN inquiry.links : inquiry.links[edge] = FilesWith(edge)
=============================================================================
