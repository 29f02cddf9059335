----------------------------- MODULE Enrichment -----------------------------
(***************************************************************************)
(* EnrichmentEngine (core/enrichment.py) over its cache file               *)
(* (core/enrichment_cache.py): the first addresses and domains of one run  *)
(* after the other are looked up, in the GeoIP database and by WHOIS, and  *)
(* what was answered is kept for later runs.                               *)
(***************************************************************************)
EXTENDS Naturals, Sequences, SequencesExt

CONSTANTS
    Addresses, Domains, \* sequences of the indicators of a run
    PerKind,            \* how many of each are looked up (10)
    Cooldown,           \* whois_cooldown, in ticks
    Providers_,         \* that initialized: subset of {"geo", "whois"}
    MaxRuns             \* bound

Values(s) == {s[k] : k \in DOMAIN s}

ASSUME EnrichmentAssumption ==
    /\ {PerKind, Cooldown, MaxRuns} \subseteq Nat /\ Providers_ \subseteq {"geo", "whois"}
    /\ Addresses \in Seq(Values(Addresses)) /\ Domains \in Seq(Values(Domains))

VARIABLES
    lookup,             \* [run, refresh, todo, step, clock, last, asked]
    cached              \* the cache file: [geo, whois : [key -> "absent", "null", "data"]]

enrichVars == <<lookup, cached>>

Keys == ({"ipv4"} \X Values(Addresses)) \cup ({"domain"} \X Values(Domains))
FirstOf(kind, s) ==
    [k \in 1 .. (IF Len(s) < PerKind THEN Len(s) ELSE PerKind) |-> <<kind, s[k]>>]

\* enrich_iocs
Begun(run, refresh, clock) ==
    [run |-> run, refresh |-> refresh, step |-> "geo", clock |-> clock,
     todo |-> FirstOf("ipv4", Addresses) \o FirstOf("domain", Domains), last |-> 0, asked |-> <<>>]

EnrichInit ==
    /\ \E refresh \in BOOLEAN : lookup = Begun(1, refresh, Cooldown)
    /\ cached = [p \in {"geo", "whois"} |-> [key \in Keys |-> "absent"]]

\* A new process asks nothing of the old one but its cache file.
NextRun ==
    /\ lookup.todo = <<>> /\ lookup.run < MaxRuns
    /\ \E refresh \in BOOLEAN : lookup' = Begun(lookup.run + 1, refresh, lookup.clock)
    /\ UNCHANGED cached

Item == Head(lookup.todo)
Kind == Item[1]
Value == Item[2]
Passes == lookup' = IF lookup.step = "geo" THEN [lookup EXCEPT !.step = "whois"]
                    ELSE [lookup EXCEPT !.step = "geo", !.todo = Tail(@)]

\* _cache_set: a file that cannot be written keeps what it has.
Keep(p, x) == cached' = [cached EXCEPT ![p][Item] = x] \/ UNCHANGED cached

NotAsked ==
    /\ lookup.todo # <<>>
    /\ lookup.step \notin Providers_ \/ (lookup.step = "geo" /\ Kind = "domain")
    /\ Passes /\ UNCHANGED cached

Due(p) ==
    /\ lookup.todo # <<>> /\ lookup.step = p /\ p \in Providers_
    /\ p = "geo" => Kind = "ipv4"

\* _cache_get
FromCache ==
    \E p \in Providers_ :
        /\ Due(p) /\ ~lookup.refresh /\ cached[p][Item] # "absent"
        /\ Passes /\ UNCHANGED cached

\* A hit is missed when the file is corrupt or locked.  An address the database
\* does not know is kept as such.
LookUpGeo ==
    /\ Due("geo")
    /\ \E x \in {"null", "data"} : Keep("geo", x)
    /\ Passes

\* whois_cache: the process remembers the answers of the run, whatever their kind.
Recalled == \E k \in DOMAIN lookup.asked :
    lookup.asked[k].value = Value /\ lookup.asked[k].got = "data"

Remembered ==
    /\ Due("whois") /\ Recalled
    /\ Passes /\ UNCHANGED cached
\* Variant: a failed query is kept as an answer.
AskWhoisKeepsAll ==
    /\ Due("whois") /\ ~Recalled
    /\ LET ready == lookup.last + Cooldown
           at == IF lookup.clock < ready THEN ready ELSE lookup.clock IN
       \E duration \in 0 .. 1, got \in {"null", "data"} :
         /\ lookup' = [lookup EXCEPT !.step = "geo", !.todo = Tail(@), !.last = at, !.clock = at + duration,
                                    !.asked = Append(@, [value |-> Value, at |-> at, got |-> got])]
         /\ Keep("whois", got)

\* _whois_wait claims the slot once the cooldown is over; the query takes its time.
AskWhois ==
    /\ Due("whois") /\ ~Recalled
    /\ LET ready == lookup.last + Cooldown
           at == IF lookup.clock < ready THEN ready ELSE lookup.clock IN
       \E duration \in 0 .. 1, got \in {"null", "data"} :
         /\ lookup' = [lookup EXCEPT !.step = "geo", !.todo = Tail(@), !.last = at, !.clock = at + duration,
                                    !.asked = Append(@, [value |-> Value, at |-> at, got |-> got])]
         /\ IF got = "data" THEN Keep("whois", got) ELSE UNCHANGED cached

EnrichNext == NextRun \/ NotAsked \/ FromCache \/ LookUpGeo \/ Remembered \/ AskWhois

EnrichSpec == EnrichInit /\ [][EnrichNext]_enrichVars

-----------------------------------------------------------------------------
(* Properties *)

\* The WHOIS service is asked for no more than the permitted indicators, never
\* twice within the cooldown and never again for one that has answered in the
\* run; and no failed query, of a later run or of a forced refresh, takes an
\* answer out of the cache or leaves a failure in it.
EnrichmentKept ==
    /\ Len(lookup.asked) <= 2 * PerKind
    /\ \A j, k \in DOMAIN lookup.asked : j < k =>
         /\ lookup.asked[k].at >= lookup.asked[j].at + Cooldown
         /\ lookup.asked[j].got = "data" => lookup.asked[k].value # lookup.asked[j].value
    /\ \A key \in Keys : cached.whois[key] # "null"
=============================================================================
