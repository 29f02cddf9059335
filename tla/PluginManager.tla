---------------------------- MODULE PluginManager ----------------------------
(***************************************************************************)
(* PluginManager.load_plugins (titan_decoder/plugins/registry.py): single  *)
(* files first, then the manifest packages in dependency order, each in a  *)
(* worker process of its own (plugins/isolation.py, plugins/worker.py)     *)
(* that answers one request, is killed on its limits, or answers nonsense. *)
(* Packages are numbered in the order of their paths.                      *)
(***************************************************************************)
EXTENDS Integers, FiniteSets, Sequences, SequencesExt

CONSTANTS
    Packages,           \* 1 .. n: the manifest directories
    Catalogs,           \* sets of functions from Packages to manifests
    SingleFiles         \* [numbers -> rule ids]: single-file plugins

ASSUME PluginAssumption ==
    /\ Packages \subseteq Nat \ {0} /\ IsFiniteSet(Packages)
    /\ \A m \in Catalogs : /\ DOMAIN m = Packages
                          /\ \A p \in Packages :
                               /\ m[p].version \in Int
                               /\ \A id \in DOMAIN m[p].needs : m[p].needs[id] \in Int

\* A manifest: its id and version, [ids -> lowest version] it depends on, what
\* it declares, whether it asks for the network and the rules its class names.
Capabilities == {"analyzer", "decoder", "detection", "extractor", "report"}

\* The order in which the proxies are built and registered: sorted names.
Registration == <<"analyzer", "decoder", "detection", "extractor", "report">>

VARIABLES
    manifests,          \* the manifests that could be read, by package
    unread,             \* packages and single files not yet looked at
    order,              \* packages in activation order
    loading,            \* [package, step]: package 0 when none is
    worker,             \* the worker process of the package being loaded
    active,             \* the loaded packages in activation order
    registered,         \* <<package or file, capability>> in the five lists
    owned,              \* <<package or file, rule>> of the detections
    refused             \* <<package or file, reason>> in errors

pluginVars == <<manifests, unread, order, loading, worker, active, registered, owned, refused>>

NoneLoading == [package |-> 0, step |-> 0]


PluginInit ==
    /\ manifests \in Catalogs
    /\ unread = Packages \cup DOMAIN SingleFiles
    /\ order = <<>> /\ active = <<>> /\ loading = NoneLoading /\ worker = "none"
    /\ registered = {} /\ owned = {} /\ refused = {}

PutError(p, reason) == refused' = refused \cup {<<p, reason>>}

\* _check_rule_ids; a reserved prefix is one of the reasons of Invalid below.
RulesTaken(rules) == \E o \in owned : o[2] \in rules

-----------------------------------------------------------------------------
(* Single files, in any order: iterdir.  The class of a file is only logged *)
(* when it cannot be used; the file counts as loaded.                       *)

LoadSingleFile ==
    \E f \in unread \cap DOMAIN SingleFiles :
      /\ unread' = unread \ {f}
      /\ \/ PutError(f, "import") /\ UNCHANGED <<registered, owned>>
         \/ /\ ~RulesTaken(SingleFiles[f])
            /\ registered' = registered \cup {<<f, "detection">>}
            /\ owned' = owned \cup {<<f, r>> : r \in SingleFiles[f]}
            /\ UNCHANGED refused
         \/ UNCHANGED <<registered, owned, refused>>
      /\ UNCHANGED <<manifests, order, loading, worker, active>>

-----------------------------------------------------------------------------
(* Manifests *)

Unread == unread \cap Packages

\* PluginManifest.load, in path order; a manifest that cannot be read is out.
ReadManifest ==
    /\ unread \cap DOMAIN SingleFiles = {} /\ Unread # {}
    /\ LET p == CHOOSE q \in Unread : \A r \in Unread : q <= r IN
       /\ unread' = unread \ {p}
       /\ \/ UNCHANGED <<manifests, refused>>
          \/ /\ manifests' = [q \in DOMAIN manifests \ {p} |-> manifests[q]]
             /\ PutError(p, "manifest")
    /\ UNCHANGED <<order, loading, worker, active, registered, owned>>

Remaining == DOMAIN manifests \ ToSet(order)
Needs(p) == DOMAIN manifests[p].needs

\* by_id: of two packages with one id the later path stands for it.
Holder(id) == CHOOSE p \in DOMAIN manifests : manifests[p].id = id
                 /\ \A q \in DOMAIN manifests : manifests[q].id = id => q <= p
Known(id) == \E p \in DOMAIN manifests : manifests[p].id = id
\* Variant: packages in the order of their directories.
ReadyAtOnce == Remaining

Ready == {p \in Remaining : \A id \in Needs(p) : Known(id) => Holder(id) \notin Remaining}

\* The one sequence of S in the order of the paths.
Sorted(S) == {s \in [1 .. Cardinality(S) -> S] :
                \A i, j \in DOMAIN s : i < j => s[i] < s[j]}

\* One round of the topological order; a cycle goes last as it stands.
OrderRound ==
    /\ unread = {} /\ loading = NoneLoading /\ active = <<>> /\ Remaining # {}
    /\ \E s \in Sorted(IF Ready = {} THEN Remaining ELSE Ready) : order' = order \o s
    /\ UNCHANGED <<manifests, unread, loading, worker, active, registered, owned, refused>>

-----------------------------------------------------------------------------
(* One package *)

Tried == {r[1] : r \in refused} \cup ToSet(active)
IsNext(p) == \E i \in DOMAIN order :
    order[i] = p /\ p \notin Tried /\ \A j \in 1 .. i - 1 : order[j] \in Tried

ActiveAs(id) == CHOOSE p \in ToSet(active) : manifests[p].id = id
IsActive(id) == \E p \in ToSet(active) : manifests[p].id = id

Missing(p) == {id \in Needs(p) : ~IsActive(id)}
TooOld(p) == {id \in Needs(p) \ Missing(p) :
                manifests[ActiveAs(id)].version < manifests[p].needs[id]}

\* validate_manifest, the id, the dependencies, the offline policy: whatever is
\* wrong first, the package is refused before a process is started.
StartPackage ==
    /\ unread = {} /\ Remaining = {} /\ loading = NoneLoading
    /\ \E p \in ToSet(order) :
       /\ IsNext(p)
       /\ \/ PutError(p, "invalid") /\ UNCHANGED <<loading, worker>>
          \/ /\ IsActive(manifests[p].id)
             /\ PutError(p, "duplicate") /\ UNCHANGED <<loading, worker>>
          \/ /\ ~IsActive(manifests[p].id) /\ Missing(p) # {}
             /\ PutError(p, "missing") /\ UNCHANGED <<loading, worker>>
          \/ /\ ~IsActive(manifests[p].id) /\ Missing(p) = {}
             /\ IF TooOld(p) # {} THEN PutError(p, "version") /\ UNCHANGED <<loading, worker>>
                ELSE IF manifests[p].network THEN PutError(p, "offline") /\ UNCHANGED <<loading, worker>>
                ELSE /\ loading' = [package |-> p, step |-> 0] /\ worker' = "running"
                     /\ UNCHANGED refused
    /\ UNCHANGED <<manifests, unread, order, active, registered, owned>>

Abandon(reason) == loading' = NoneLoading /\ PutError(loading.package, reason)

\* The worker imports the class and describes it; its output is one line of JSON
\* unless the plugin writes to it as well.
WorkerAnswers ==
    /\ worker = "running" /\ worker' = "none"
    /\ \/ loading' = [loading EXCEPT !.step = 1] /\ UNCHANGED refused
       \/ \E reason \in {"import", "not JSON", "capabilities"} : Abandon(reason)
    /\ UNCHANGED <<manifests, unread, order, active, registered, owned>>

\* It is killed and waited for.
WorkerExceedsLimits ==
    /\ worker = "running" /\ worker' = "none"
    /\ \E reason \in {"timeout", "output"} : Abandon(reason)
    /\ UNCHANGED <<manifests, unread, order, active, registered, owned>>

\* One proxy after the other is put in its list; the rule check of a detection
\* proxy may refuse the package when earlier proxies are in place already.
Register ==
    /\ loading.step \in 1 .. 5
    /\ LET p == loading.package
           capability == Registration[loading.step]
           rules == manifests[p].rules IN
       IF capability \notin manifests[p].provides
       THEN loading' = [loading EXCEPT !.step = @ + 1] /\ UNCHANGED <<registered, owned, refused>>
       ELSE IF capability = "detection" /\ RulesTaken(rules)
       THEN Abandon("rules") /\ UNCHANGED <<registered, owned>>
       ELSE /\ registered' = registered \cup {<<p, capability>>}
            /\ owned' = IF capability = "detection"
                        THEN owned \cup {<<p, r>> : r \in rules} ELSE owned
            /\ loading' = [loading EXCEPT !.step = @ + 1] /\ UNCHANGED refused
    /\ UNCHANGED <<manifests, unread, order, worker, active>>

Activate ==
    /\ loading.step = 6 /\ active' = Append(active, loading.package)
    /\ loading' = NoneLoading
    /\ UNCHANGED <<manifests, unread, order, worker, registered, owned, refused>>

PluginNext ==
    \/ LoadSingleFile \/ ReadManifest \/ OrderRound \/ StartPackage
    \/ WorkerAnswers \/ WorkerExceedsLimits \/ Register \/ Activate

PluginSpec == PluginInit /\ [][PluginNext]_pluginVars

-----------------------------------------------------------------------------
(* Properties *)

PluginsLoaded == /\ unread = {} /\ Remaining = {} /\ loading = NoneLoading
                 /\ ToSet(order) \subseteq Tried
IdsUnique == \A p, q \in DOMAIN manifests : manifests[p].id = manifests[q].id => p = q

\* A package is active only after everything it depends on, in a version that
\* will do; where no two packages share an id, none is refused for a missing
\* dependency that becomes active after all, whatever the order of the
\* directories, and cycles are refused; a rule id belongs to one detection.
ActivationSound ==
    /\ \A i \in DOMAIN active : \A id \in Needs(active[i]) :
         \E j \in 1 .. i - 1 : /\ manifests[active[j]].id = id
                               /\ manifests[active[j]].version >= manifests[active[i]].needs[id]
    /\ PluginsLoaded /\ IdsUnique =>
         \A p \in DOMAIN manifests : <<p, "missing">> \in refused => Missing(p) # {}
    /\ \A o1, o2 \in owned : o1[2] = o2[2] => o1[1] = o2[1]
=============================================================================
