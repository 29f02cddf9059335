# Verification of Titan Decoder

TLA+ models of Titan Decoder (`src/titan_decoder`), a forensic decoding engine
with a job service, an evidence vault and several interactive front ends. The
models are checked with TLC on small instances, and the most important
properties are proved with TLAPS for every value of the constants.

## The system

A *run* takes bytes, decodes and unpacks them recursively into an analysis tree,
and reports what it found. Detection, risk, enrichment, correlation and exports
follow over the finished report. Around that a service queues artifacts, a
scanner walks directories, a vault keeps evidence, and terminal, desktop and
server front ends start and cancel runs from other threads.

| Component | Source | State | Operations | Hard behaviour |
|---|---|---|---|---|
| Decode engine | `core/engine.py` | tree of nodes, seen hashes, limitations, decoder list, the Python stack | `run_analysis`, `analyze_blob` | recursion under four limits, exceptions from handlers at any depth, cancellation from another thread, state left over from the previous run |
| Scoring and pruning | `core/scoring.py` | none | score, prune | floating-point thresholds |
| Analyzers | `core/analyzers/` | none between calls | `can_analyze`, `analyze` | limits applied to what a container declares and again to what is read; one bad member among good ones |
| Decoders | `decoders/`, `core/emulation.py` | none between calls | `can_decode`, `decode` | streams that end early, garbage after them, output at its limit, cyclic references |
| Job service | `server/service.py`, `server/app.py` | blobs and reports on disk, table `jobs` in SQLite | submit, lease, complete, fail, `work_once` | several workers, leases that expire, crashes between the file and the table, threads that die |
| Evidence vault | `core/quarantine.py` | objects, records, the files themselves | quarantine (copy, move), restore | several processes on one directory, kills, failing file operations, sources that change |
| Deep scan | `core/deep_scan.py` | counts and results of one scan | scan | a file is judged from one read and quarantined from another; limits; partial errors |
| Assurance | `core/assurance.py`, `core/assurance_providers.py` | evidence of six controls, in files | evaluate, collect | a missing or failed control must never give a benign verdict |
| Offline guard | `core/offline_guard.py` | the process's socket functions, a flag | `block_network` | process-global state, no lock, no count of users |
| Workbench session | `workbench_ui/services.py`, `workbench_ui/app.py` | one `Config`, one cancel event, the latest report, the panels | analyze, decode, deep scan, cancel, load | several threads share the config, the event, the guard and the screen |
| Desktop session, Debian bridge | `desktop_ui/app.py`, `desktop_ui/debian_services.py`, `desktop_ui/debian_bridge.py`, `desktop_ui/sample_archive.py` | worker thread, child process, cancel event, an archive of samples on disk | start, cancel, request, record, delete, import | cancel and timeout race a late answer; one operation is several files; queued signals arrive late |
| Plugin registry and isolation | `plugins/` | plugins loaded, capabilities, worker processes | discover, order, activate, call | dependency cycles, shared ids, a worker that hangs, dies or answers nonsense, a registration that fails half way |
| Case vault, indicator store | `core/vault.py`, `core/correlation.py` | rows, report files | record, search, prune | processes and prunes between the transactions of one run |
| Correlation database | `correlation/` | three tables | read, record, read back | the same |
| Enrichment | `core/enrichment.py`, `core/enrichment_cache.py` | a cache file, a cache in memory, the time of the last query | look up | failures between answers, expiry, forced refresh, cooldown |
| Detection and risk | `core/detection_rules.py`, `core/rule_packs.py`, `core/yara_scanner.py`, `core/risk_scoring.py`, `core/intelligence.py` | one list of detections and one rating, per run | rules, plugins, YARA, risk, static pass | five stages add to one list and rate it twice |
| Evidence parsers | `core/evidence_parsers.py` and its neighbours | none between calls | parse, merge, link | merging twice with unknown times and unequal confidence |
| Analyst assistant | `analyst/` | none between questions | ledger, route, select, answer, validate | answer, ids and evidence come from different sets |
| Command line | `cli.py` | files it writes, the exit code | main, batch, deep scan, information commands | some files fail after others were written; only the exit code is seen |
| Reports, intelligence tables, investigation workbench | the rest | none | | wording and layout |

How they interact. The engine calls decoders and analyzers, in-process or
through plugin isolation. The service calls the engine inside `work_once`. The
deep scan calls the engine for each file, then the static suite, the providers,
assurance and the vault. The command line hands one report from stage to stage:
evidence, engine, detections, assurance, enrichment, correlation, exports, case
vault. The workbench and the desktop session call the engine, the deep scan and
the vault from worker threads and share one cancel event with them; the desktop
session may do so in a child process behind a line protocol. Whoever runs
offline enters the guard, which changes the process for every thread.

What makes each component correct: the engine must end, respect its limits,
explore each content once, keep its provenance and not call a truncated run
complete; the service must lose no accepted job, give each to one worker and
never point to a missing file; the vaults must never lose evidence, nor a
database a run that was stored; the guard must be closed for whoever is inside
and open once nobody is; a cancelled run must not be presented as a finished one,
nor a late answer as the one asked for; assurance must fail closed; a limit must
cost no more than what is over it; merging must invent nothing; and an exit code,
a panel or a citation must be about the report it claims to be about.
`PROJECT.json` lists each component with what is modelled of it and each hazard
with the line where it bites and the properties that cover it.

## Modules

| Module | Models | Extends or uses |
|---|---|---|
| `AnalysisEngine` | `TitanEngine.run_analysis`, `analyze_blob` | |
| `JobLifecycle` | what the service promises of one job | |
| `TitanService` | `server/service.py`, `_worker_loop` of `server/app.py` | implements `JobLifecycle` |
| `QuarantineVault` | `core/quarantine.py` | |
| `OfflineGuard` | `core/offline_guard.py`, and `SerialGuard`, its use by one thread at a time | |
| `WorkbenchSession` | `workbench_ui/services.py` under both front ends, the loop of `core/deep_scan.py` | composes with `OfflineGuard`, implements `SerialGuard` on the desktop |
| `Assurance` | the six controls and the verdict | |
| `DeepScan` | `core/deep_scan.py`, `core/assurance_providers.py` | `Assurance` |
| `PluginManager` | `plugins/registry.py`, `isolation.py`, `worker.py` | |
| `DebianBridge` | `desktop_ui/debian_services.py`, `debian_bridge.py` | |
| `SampleHistory` | `desktop_ui/sample_archive.py` under the handlers of `desktop_ui/app.py` | |
| `Screens` | the panels and request threads of `workbench_ui/app.py` | |
| `CaseStores` | `correlation/`, `core/correlation.py`, `core/vault.py` | |
| `Enrichment` | `core/enrichment.py`, `core/enrichment_cache.py` | |
| `Structures` | what the parsers of disks, media and executables find in a file | |
| `Containers` | how every analyzer admits what was found | `Structures` |
| `Decoding` | `decoders/`, `core/emulation.py`, smart detection | |
| `Judgement` | detection rules, packs, plugins, YARA, risk, static pass, intelligence | |
| `CommandLine` | `cli.py` | |
| `EvidenceFiles` | evidence and endpoint parsers, merging, links | |
| `Assistant` | `analyst/` | |
| `MC*` | small instances of the module they are named after; `MCComponents` of the ones from `DeepScan` down, one at a time | |
| `AnalysisEngineProofs`, `TitanServiceProofs`, `QuarantineVaultProofs`, `WorkbenchSessionProofs` | theorems | the module they are named after |
| `FrontEndProofs` | theorems | `DebianBridge`, `SampleHistory`, `Screens`, `CaseStores`, `Enrichment`, `CommandLine` |
| `ExtractionProofs` | theorems | `Containers`, `Decoding`, `FoldInduction` |
| `JudgementProofs` | theorems | `DeepScan`, `PluginManager`, `Judgement`, `EvidenceFiles`, `FoldInduction` |
| `FoldInduction` | theorems about folds, used wherever a proof meets one | |

A definition marked *Variant* is a plausible mistake in the definition that
follows it. No specification uses it. It is there to show that a property fails
when the code is wrong in that way; `PROJECT.json` pairs each property with one.

### AnalysisEngine

`analyze_blob` is recursive. Its Python stack is the variable `stack`, one frame
for each activation with the loop it is in (`pc`), the handlers left (`todo`),
the artifacts left (`queue`) and the best decode so far. A call that has been
made but has not run its prologue is `call`. The prologue's early returns are one
action each, in the code's order: `EnterCancelled`, `EnterOverdue`,
`EnterShortOfMemory`, `EnterEmpty`, `EnterTooDeep`, `EnterOverNodeCap`, then the
three ways a node is added (`EnterDuplicate`, `EnterMetadata`, `EnterNode`). The
loops are `SkipAnalyzer` to `Leaf`. An exception raised outside the handlers'
`try` blocks sets `raising`, and `Unwind` takes it down the stack to the
enclosing `try`, which is the one around `analyze` because the recursion is inside it.
`Cancel` and `DeadlinePasses` happen between any two steps. `ResetDecoders` and
`EnterNode` are where smart detection's additions to the decoder list appear and
disappear. The outcome (`Status`, `Complete`) is `_build_analysis_outcome`, and
`ProducedBy` is `_finalize_provenance`.

Data that is abstracted: bytes are names, and a SHA-256 digest is its content;
what a handler yields is a table; the score is an integer without the depth
penalty, and an empty decode scores nothing (`core/scoring.py:88-89`); opacity
(entropy) is a set of contents. Node ids are positions.

### TitanService and JobLifecycle

One action per SQLite statement outside a transaction, and one per file
published by rename: `PutBlob`, `Insert`, `Requeue` are `submit`; `Claim` is
`lease` (one IMMEDIATE transaction, which first requeues expired claims);
`Analyze`, `PutReport`, `CompleteJob`, `FailJob` are `work_once`. `LeaseRaises`
and the last disjunct of `FailJob` are the exceptions that end a worker's
thread. `WorkerCrash` and `SubmitterCrash` kill a process between any two steps.
Time is the age of each claim, counted in analysis timeouts and no further than
the age at which it expires.

`JobLifecycle` keeps only the state of each job and which reports exist. The
refinement maps `state` to the state column and `published` to the digests with
a report; submissions, crashes and dead workers are stutters of it.

### QuarantineVault

Each file operation is an action, so that clients interleave and can be killed
between any two: lookup, exclusive create, copy, verify, size, record, unlink,
second record; and for a restore check, exclusive open, fill, test, or the staged
replacement with its temporary file. An incomplete file has its writer as its
value. An error can come before a copy is whole (`copy`) or after (`late`: `fsync`,
the hash, the publication); either removes what the client made, be it whole and
found by others meanwhile, except the temporary file of an overwriting restore, which
is copied outside the `try` block and stays. History variables: `evidence` and
`replaced`, what was on disk and what overwriting restores replaced; `withdrawn`, whole
objects that such a late error removed while others relied on them; `moves`, the moves
that unlinked their source and those that returned. `Write` is any other program
that rewrites a file.

### OfflineGuard and WorkbenchSession

`block_network` saves three socket functions, sets a flag, installs its own, and
undoes this in its `finally`. `Save`, `Announce`, `Block`, `Restore`, `Withdraw`
are these stages; the three functions always go through them together, so that
one variable, `installed`, stands for them.

`WorkbenchSession` is one configuration, one cancel event, one guard and any
number of worker threads. `Start` creates a request of kind *single*
(`analyze`), *queue* (`analyze_path`) or *scan* (`deep_scan_path`). A worker then
goes through the code's statements as far as they read or write shared state:
`Reset` and `Clear` (the two places that clear the event), `SetPlugins`,
`SetLimits`, `Build` (`_configured_engine`), `ReadMode`, `EnterGuard`,
`BeginRun`, `SeeCancel`, `EndRun`, `LeaveGuard`, then `Reject`, `Keep` or `Drop`,
and `Finish`. The engine's run is whole, cut short, or raises: what it does
inside is `AnalysisEngine`. `Desktop` chooses the front end. The desktop window
accepts a request or a change of settings only while no worker runs, and has a
cancel key (`Escape`); the terminal's exclusive workers only mark the previous
one as cancelled, so that nothing stops a second thread. `asked` is a history
field: the settings when the request was made. The window's queued `completed`
and `finished` signals are part of `Finish` (`SampleHistory` takes them apart).

### Assurance and DeepScan

A report is reduced to the facts the controls look at, and the operator's files
(two hash lists, attestations of a sandbox and of provenance) to how they can be
absent, wrong or informative. Each control is an operator with the code's order
of tests, and `Verdict` is their precedence.

`DeepScan` is the loop of `scan`, one step per thing that can fail or be
interrupted: `Stat`, `Read` (bounded, since the file may have grown), `Analyze`,
`Collect`, the three providers, `Judge`, `SaveReport`, `Quarantine`. `Analyze` includes
the detection plugins: one whose `detect` raises adds nothing, one whose rules or findings
raise as they are listed ends the file. `Failure` is the `except` around them, which drops the file to the errors and keeps what was
already written. `Rewrite` is another program, at any moment; `Quarantine` opens
the path again, as the code does.

### PluginManager

`LoadSingleFile` and `ReadManifest` are discovery; `OrderRound` is one round of
the ordering by dependencies, the cyclic rest last; `StartPackage` refuses for
what is missing or too old and spawns the worker process; `WorkerAnswers`,
`WorkerExceedsLimits`, `Register` (one capability at a time, so that a refusal
can come in the middle) and `Activate` follow.

### DebianBridge

Three actors: the window's thread (`RequestAnalysis` to `Check`, with the
handshake `EnsureCompatible` first), the child process (`Say`, `CloseOutput`,
`Exit`) with the reader thread that queues its lines, and the user
(`UserCancels`). `BridgeDeadline` is the timeout.

### SampleHistory

The archive is objects, snapshots and one index. An operation is the list of its
writes, `todo`, each of one file, taken one by one by `WriteNext`, failing at any
of them (`WriteFails`) and lost with the process (`RestartWindow`). Each operation
begins with a reading of the index (`Readings`), which may come out empty: an index
that cannot be read, or is malformed, is taken for none, and the operation writes that
back (`Loses`). An index with a list of samples and no list of migrated sources
(`sample_archive.py:63-70`, an older format) is left out. The analysis thread puts two
signals in the window's queue, `HandleResult` and `HandleFinished` are their slots, and
every key of the user may come between, a second thread included.

### Screens

A request of the terminal (`Submit`: the button, the return key or a file that is
dropped) is a thread; each of its steps (`ReadField` to `RefreshDetails`) is one call into the
application's loop. What the field holds when a request reads it is any of `Fields`: the
user may have changed it in between. A thread that a newer one replaced is only marked, and goes on to
its end. A refresh is not one step: it finds the old panel (`QueryView`,
`QueryDetails`), awaits its removal (`DetachView`, `DetachDetails`) and mounts the new one
(`MountView`, `MountDetails`; `RevealView` is what a result does after). The view is
built before the first of these and the details after the removal, and both of a loaded
report are one handler with two such refreshes in it. Handlers run one at a time, but a
worker's refreshes are tasks of their own, so that any other refresh may come between.
What removal and mounting do is Textual's and marked external: a query that finds nothing
and a second widget with the same id raise, and an exception ends the application unless
it is of a worker that was replaced. `overlapped` is a history variable: two refreshes of
one panel were under way at once. Then either may find no panel or mount a second one;
nothing in the repository says what is to be seen, and `ScreenAgrees` is about the rest.

### CaseStores and Enrichment

Each run of the command line is a process; a step is one transaction or one file:
`Compare`, the three records and `ReadBack`; `MatchPriors` and
`LinkIndicators` of the indicator store; `SaveCase`, `RecordRun`, `RecordIocs` of
the case vault. `Prune` and `KillRun` come between any two, and either database
may fail.

`Enrichment` looks up the first addresses and domains of a run in two providers:
from the cache file (`FromCache`), the GeoIP database (`LookUpGeo`), the cache in
memory (`Remembered`), or the service (`AskWhois`), each able to fail; ticks of a
clock stand for the cooldown, and an entry of the file may be missed at any lookup,
because it expired or because the file is locked or corrupt.

### Structures, Containers and Decoding

The twenty-six formats of the analyzers share one loop, `OpenContainer`,
`ReadPart`, `FinishContainer`, and differ in a rule: what is passed over unread,
whether a first pass sums the declared sizes, what a failing read costs, what a
limit on number, total or size does, how duplicates and names are treated. A
rule is read off the format's `analyze` method: what `OfficeAnalyzer` reads of an
archive, for instance, is less than what its first pass counts (`passes`), and one
byte of RTF text that cp1252 lacks, one lone surrogate or one number too long raises out of
the call (`"raise"`), and every object of the file is lost with it (`Readable`). `Structures` gives the parts
that a parser of a disk image, a carrier or an executable finds, in their order.

A decoder likewise reads the parts of its input one at a time (`DecodePart`): a
stream, block, line or object is good, cut, bad or nested too far, and the rule
says what each does as the first part and as a later one. Layered decoding, XOR
keys, PDF references, sector chains of compound files and constant evaluation
have operators of their own. Alphabets and checksums are the state of a part.
The structures are folds: `PdfTable` defines objects in file order and
then unpacks the object streams in the order in which their numbers first appear, `Chain`
walks the allocation table, `Macro` and `Emulated` run chunk by chunk and statement by
statement. Not every decoder notices damage: a uuencoded line that ends early is filled
up with zeros, and of a PDF's streams a corrupt Flate one leaves its raw bytes, one that
is cut off gives what it has, as LZW and ASCII85 do, and corrupt hexadecimal gives nothing
(`PdfBody`); these are named in the property. One number of a PDF that is too long for
`int` fails the whole parse (`Parsable`). `DecodingAssumption` gives the type of what each decoder may meet.

### Judgement, CommandLine, EvidenceFiles, Assistant

`Judgement` is the five stages over one report: `RunRules`, `RunPlugins`,
`ScanYara`, `ScoreRisk`, `StaticChecks`, with every built-in rule as an operator
over the analysis graph. A pack's rule that is invalid is skipped (`AddRule`), but one
whose validation itself raises (flaw `"raises"`) ends the stage, and no built-in rule is
evaluated either: stage `"failed"`. Texts are sets of marks, entropies and scores integers.

`CommandLine` is `main`: the information commands in the order they are looked
for, or a deep scan, a batch (`BatchFile`, `BatchInterrupted`, `BatchEnds`) or a
single run through its stages, each of which may fail; `wrote` is what is on disk.

`EvidenceFiles` reads one file after the other into events and indicators
(`ParseFile` and the ways it fails), merges them twice with the same operator as
the code, links, and attaches the result to the report. A DNS answer is linked only if it
is an address (`Aliases` are the values that are not).

`Assistant` builds the ledger, routes a question by its words, selects evidence,
answers from it, cuts it to the context's bound, and lets a local model say
anything (`ModelAnswers`) or fail (`BackendFails`).

## Runs

| Run | Question | Instance |
|---|---|---|
| `engine` | limits, deduplication, provenance, completeness, repeatability, termination | two runs on one engine, each on any of seven contents |
| `provenance` | is every artifact retraceable when a matcher raises? No | one run |
| `service` | durability, exclusive leases, frozen reports, refinement | two jobs, two workers, one request thread, three submissions, one crash, every fault, lease 3 : analysis 1 |
| `overlong` | what remains when an analysis outlives its lease: a living worker, and that every job settles | lease 1 : analysis 2, failing analyses |
| `holder` | does only the lease holder end a job? No | as `overlong` |
| `quarantine` | evidence, restorable records, told removals, clean failures, no overwriting | two clients, two paths, two contents, four operations less one for a kill or an outside write before the last of them, one kill, one outside write, every fault |
| `interrupted` | is an interrupted copy removed? No | one kill |
| `source_changes` | does a move keep what was on disk? No | one outside write |
| `session` | guard, network, settings and cancellation of a desktop session, refinement of `SerialGuard` | two threads, two profiles, two files per directory, three requests, two changes of settings, two uses of the cancel key, every fault |
| `scan_offline` | are an offline deep scan's plugins offline? No | the same without faults or cancellation |
| `terminal` | is the network blocked for an offline run of the terminal? No | two requests |
| `components` | what each of thirteen components promises, one property for each but the deep scan, which has two | see below |

Why the bounds are enough for what the runs ask:

- The engine's archive unfolds to more than `MaxNodes` nodes and below
  `MaxDepth`, so that both limits bite, at a root, under an extraction and under
  a decode. It contains an equal artifact twice, an artifact that decodes to its
  own ancestor, a summary, an empty member, a tie between two decoders, and a
  decoder that only smart detection turns on. Two runs are what repeatability
  needs.
- Two workers and two jobs are what a takeover and an order between jobs need,
  three submissions allow the resubmission of a failed job while another one
  waits, and one crash can hit any step. Two processes are what the vault's
  races need: each is a check by one that another invalidates. A late error needs two
  operations on one content and a third that uses it. Four operations
  let two moves, which create the objects, be followed by two restores of one
  path while the second move is still to unlink it; `MaxOps` counts a kill or an
  outside write as one of them when another operation begins after it. The two clients run the same
  program, hence the symmetry.
- Three requests of a session allow any kind to leave its settings and its
  cancel event behind for any other, and to do so twice.

A behaviour of `components` chooses its `subject` and then takes only the steps of
that one; the others keep their first state, so that the thirteen state spaces add
up instead of multiplying. What they contain:

- *Scan*: three files of which two fit `MaxFiles`, each of size one or three in a total
  of four; one is rewritten by another program at any step.
- *Plugins*: three packages, every assignment of five sets of dependencies, four of
  ids (a shared one among them), so that there are chains in and against the order
  of the directories, cycles of two and three, and a dependency on a refused package;
  rules shared by a package and a single file.
- *Bridge*: two requests, two cancels and a queue of two lines: a cancel in the
  handshake and one in the exchange, and a line behind the result.
- *Stores*: two runs with a shared indicator, two prunes, any kill or failure.
- *History*: two samples, an older report to import, two contents (interchangeable, hence
  the symmetry), one restart between any two writes, a write that fails, an index that
  is unreadable at any read. The user loads at any moment before the restart and between
  analyses after it (`MayLoad`), and once a thread has been started before the signals of
  the last one were handled (`overtakings`), nothing more; what that does to the saved
  analyses is among the observations below.
- *Screens*: two workers of any kind, or loaded reports, and the user's keys at each of
  their steps. Two are what an overlap needs.
- *Containers*: archives of up to three of ten kinds of entry, which cover each
  reason for a refusal and a failure, against a limit of three artifacts, size two
  and total five; disks, media and executables with every fault the parsers look for.
- *Decoding*: up to two or three parts in every state, output limit three, PDFs with
  object numbers up to four, streams of every filter and state, and numbers too long. A part of size 0 is one that gives nothing, as an empty
  Zstandard frame or an ASN.1 value that has no text.
- *Judgement*: nine graphs around the built-in rules (nested layers in one
  path and in siblings, macros, active documents, keys, droppers, none), with packs
  that repeat, shadow, malform, time out and raise.
- *Command line*: every information command, and the options that change where a run
  may fail or what it writes; a batch of three files with two stems in common.
- *Enrichment*: two runs over three addresses and a domain, two of each kind looked
  up, cooldown of two ticks.
- *Assistant*: one or two of four reports, nine questions, a ledger that holds seven
  facts, three of them selected, a context that holds three units.
- *Evidence*: up to two files of every kind, a line in each of five shapes, two lines
  in four kinds; history queries limited to one visit.

Fairness. Safety runs need none. `RunsEnd` assumes only that the thread inside
`run_analysis` keeps executing (`WF` of `EngineStep`); neither cancellation nor
the deadline is assumed to happen, so the run must end by itself.
`EveryJobSettles` assumes that each thread keeps executing (`_worker_loop` polls
until it is stopped), that time passes, and that a worker process that was killed
is started again some day. The last is an assumption about the operator and not
about the code, which restarts nothing; `docs/SERVER.md` promises only that the
claim of a stopped worker returns to the queue, and somebody has to take it. It
is checked without the fault `busy`: a
database that is locked for too long ends worker threads for good, and then
nothing settles. That is listed as a hazard and not as a property.

## Findings

Six disagreements between the program and what its documents, comments or error
messages say. Each has a run that exhibits it.

1. `provenance`: a matcher of a plugin (`can_analyze`, `can_decode`) that raises deep in the
   recursion is taken for a failure of an ancestor's analyzer; a later handler
   then renames the producer of children that are already there.
2. `holder`: `_finish` looks at the state of the row and not at the worker, so a
   stale worker ends the job of the one that took it over.
3. `interrupted`: a `KeyboardInterrupt` or a kill leaves the incomplete file that the
   comment says is removed, and that digest cannot be quarantined any more.
4. `source_changes`: a source that is rewritten between the copy and its removal
   is removed with the only copy of the new bytes.
5. `scan_offline`: a deep scan builds its engine from the configuration the last
   analysis left, so its plugins may be online although it was started offline.
6. `terminal`: overlapping requests of the terminal open the network under each
   other.

The runs `service`, `quarantine`, `engine` and `session` show what does hold
beside each of them, with the condition written into the property
(`ExclusiveUnlessOverlong`, `EvidenceKeptUnlessRewritten`,
`RecordsRestorableUnlessWithdrawn`, `RetraceableUnlessMatcherRaises`) or into the instance (`Desktop`).

Observations made while modelling, which no run states as a violation because no
document promises otherwise, or because the models only step around them:

- `desktop_ui/app.py:934-977`: evidence that is loaded after an analysis thread ended and
  before its queued `completed` is handled gets that analysis as its own, and the
  queued `finished` of the old thread deletes the new one while it runs.
  `HistoryKept` excepts, by the history variable `overtakings`, the match of analysis
  and evidence after such a load, and claims everything else for it too.
- `workbench_ui/app.py:1090-1113`: a refresh awaits the removal of the panel it found before
  it mounts the next. When a second request's refresh of the same panel comes between, it
  finds no panel, or both mount one: two panels with one id raise and end the application,
  and of the details an old one stays on the screen. `ScreenAgrees` excepts this by the
  history variable `overlapped`.
- `core/quarantine.py:219-231`: an object is visible by its name once it is flushed, and
  another process may find it whole, record it and unlink its source. An `fsync` or hash that
  then raises in the first process removes the object under that record, against the comment
  that "a recoverable record must exist before a requested move removes the source" (108).
  `RecordsRestorableUnlessWithdrawn` and `EvidenceKeptUnlessRewritten` except what the
  history variable `withdrawn` holds.
- `desktop_ui/sample_archive.py:54-71`: an index that cannot be read, if only for a moment, is
  taken as empty and written back: all records are lost without an error, the list of imported
  sources with them, and a report that was imported and deleted is imported again. `HistoryKept`
  starts its account of deleted imports (`dropped`) anew after such a write.
- `core/rule_packs.py:191` and `221`: a pack's rule whose `type` or `flags` is no string is not
  skipped with a warning; its validation raises, `core/detection_rules.py:92-93` catches
  nothing, and no rule is evaluated at all. `JudgedSoundly` says that nothing but such a rule
  (`Breaks`) ends a judgement.
- `core/quarantine.py:233-244`: the temporary file of an overwriting restore is copied outside
  the `try` block whose `finally` removes it, so that of a failed copy stays beside the
  destination. `FailedCopyRemoved` excepts it.
- `core/analyzers/structured.py:609-653`: one byte or character of an RTF text that has no
  encoding raises out of the analyzer, and the objects embedded in the file are not found.
- `decoders/base.py:954`: a line of a uuencoded text that ends early is filled up with zeros and
  given back as decoded.
- `core/quarantine.py:221-229`: a copy that fails removes its destination by path. A
  pending move can unlink the file a restore is writing, another restore can put
  its own there, and the first one's failure removes that. `RestoreKeepsExisting`
  is therefore about files whose content is not whole in the vault.
- `analyst/engine.py:120-142`: a model's answer is checked against the whole ledger and not
  against the evidence it was sent (compare `docs/LOCAL_AI_ANALYST.md:78-79`), and a fallback
  made before the context was cut cites what the listed ids no longer have.
- `core/evidence_parsers.py`: the row numbers of a CSV file are off by the rows before them
  that did not parse; a proxy log's `host` is a domain seen and a client's name.
- `cli.py:820`: one log that cannot be read drops all evidence of the run.
- `core/assurance.py:537`: a malicious-hash list that cannot be read counts as one
  without the hash.
- `core/enrichment.py:214`: a GeoIP lookup that fails replaces the answer in the cache.
- `plugins/registry.py:305`: a package refused in the middle of its registration keeps the
  capabilities registered so far.

## Proofs

All theorems hold for every value of the constants that satisfies the module's
named assumption: any number of threads, jobs, files, any bounds, any set of
faults.

**AnalysisEngineProofs.** The invariant ties three parts of the engine's state
together. `StackInv`: frame `i` of the Python stack works on a node at depth
`i - 1` that is no duplicate. `CallInv`: a call that is about to begin has the
depth of the stack and the innermost frame's node as its parent. `TreeInv` and
`SeenInv`: a parent is an earlier node one level up and no duplicate, and the
seen hashes are the contents of the nodes that are explored. `Bounded` alone
does not say why a call cannot exceed the stack's depth, and `ExploredOnce` does
not mention `seen`, so neither is inductive. `EngineBounded` and
`EngineExploredOnce` follow. `ProvenanceInv` holds until a matcher raises: only
the innermost frame tries handlers, its node is still unclassified and has no
children, its best decode is a decode of its bytes, and the artifacts queued
in a frame come from the handler its node names. It gives `EngineRetraceable` and
`EngineNeverReclassifies`; the run `provenance` shows that its condition is
needed. `CoverInv` is what `EngineComplete` needs, and holds while nothing was
limited and no matcher raised: a node whose activation has returned has a child
for everything its handler produced (`Covered`), and an activation that has not
returned has, for each handler it already tried, either nothing to show, or a child,
a pending call, or an artifact still in its queue (`TriedFrame`). A complete
outcome means an empty stack, so every node is covered.

**TitanServiceProofs.** `StoreInv` adds to the types and to `Durable` what a
thread in the middle of an operation has already done: a request thread past
`put` has its blob, a worker past `put_report` has its report, and a worker's job
has a row. Without that, `Insert` and `CompleteJob` could not be shown to
keep `Durable`. The queue's invariant says that each digest in the table occurs once
in the order of arrival. For the exclusive lease the invariant relates the two
clocks: the age of a claim never exceeds the time its worker has spent, which
`Tick` bounds by `MaxAnalysis`, so with `MaxAnalysis <= LeaseTimeout` a claim
held by a working thread has not expired. `ServiceReportFrozen` is a step property that
follows from it. `ServiceSurvives` needs no bound on analyses: a worker dies only of a
job that another living worker has taken over. `ServiceImplementsLifecycle` is the
refinement, from `StoreInv`.

**QuarantineVaultProofs.** The heart of `VaultInv` is who may write: an object
under construction belongs to the one client that created it exclusively
(`WritersAlone`), and nobody else removes it. So a whole object stays whole unless its
client meets a late error, and whoever has found or verified one relies on it from then on:
it is whole, or was withdrawn under somebody who relied on it. That gives
`RecordsStayRestorable`, although other clients restore, fail and are killed meanwhile.
`RemovalsAreTold` ties a record to what its own operation did to the source. As long as no
other program writes, every content a client is about to unlink or replace is in the
vault or withdrawn from it: `EvidenceIsKept` and `RestoresKeepFiles`. As long as
nobody is killed, every incomplete object or destination has a client that is still writing
it, and a temporary file is of a client at work or of a copy that failed: `FailuresCleanUp`.
The two findings of the vault and the first of the observations above are why the
conditions are needed.

**WorkbenchSessionProofs.** `GuardInv` says of a thread that is in the guard
that it is alone, found the real functions, and where that puts `installed` and
`blocked`. It is inductive for `SerialGuard`, and `SerialGuardWorks` follows.
`SessionTypeCorrect` is the type invariant of both front ends.
On the desktop (assuming `Desktop`), `DesktopInv` says that at most one
thread works, that the others are at rest with no request and outside the guard,
and of the one that works where it is in the guard (`Place`), which steps its
kind can reach (`Route`), which of the settings it has read so far and that they
are still the operator's (`Setup`), and that what was cut short still has the
cancel event set (`Cut`). The gate on requests and settings is the whole reason
why this is inductive; the terminal has no gate, and its run shows the
properties failing. From it: the session implements `SerialGuard`, and
`OfflineRunGuarded`, `NetworkBack`, `RunsAsAsked`, `CutIsTold` always hold.

**FrontEndProofs.** *DebianBridge.* `BridgeInv`: there is a process only while a
request is exchanged, a result is of the operation that asked, and a cancel that
came during the exchange is still set or has ended in an error (`CancelSeen`),
since `analyze` clears the event before and not within it.

*SampleHistory.* The archive is written one file at a time, so `HistoryKept` is not
kept by a write that comes before the one that makes up for it. `HistoryInv` looks
ahead: `SoundAhead` runs the writes that are left in `todo` to their end and asks
`Sound` of every archive on the way, with the sources whose deletion is still on record at
that point (an index made of none takes them all away). `Claims` are the pairs of sample and evidence
that the running thread and the queued signals still hold; each is of a sample the
index does not contradict. An overtaking (a sample taken while a signal is queued)
ends the claims of the thread and the signals and makes the rest `Loose`: from then on
nothing is said of which evidence an analysis belongs to, which is exactly where the
property's own condition (`overtakings`) ends.

*Screens.* `ScreenInv` holds as long as no two refreshes of one panel overlapped.
`OneRefresh`: a panel is missing exactly while its one refresh is between removal and
mount, so no query fails and no mount meets a second panel. `MadeGood`: what a panel
lacks of the current snapshot is owed by somebody, a worker that has not refreshed yet or
a task whose refreshes go on to that panel (`Building`, `Continues`); the details are built
of what is current after the removal, the view of what was current before it, which is why
a view under construction may be out of date only while another worker is to follow
(`Pending`).

*CaseStores.* `RecordedInOrder`: who reports has recorded itself
in all three tables, which only grow. `LaterReaderSees`: of two runs that report, the
one that read later sees the other. `StoredInOrder`: a run's row, indicators and links
follow its report file, and a prune takes them of nobody else. `RunsStayConnected`
follows.

*Enrichment.* `WellAsked`: the queries so far are spaced by `Cooldown`, none follows an
answer for the same value, and none is later than the limiter's clock. The queries made and
the values still to do are together at most `2 * PerKind`, and no cached WHOIS answer is
empty, which is what separates it from GeoIP (see the finding).

*CommandLine.* `CliInv` follows the order of `main`: `StageFits` says which stages can
be reached with the arguments given, `ExportsWritten` which exports a stage has
behind it, `Held` that what was asked for (a stored, valid, small enough, written report)
holds past the stage that sees to it, and `BatchSoFar` that the
batch's counters are of the files so far. `NothingSent`: offline nothing was enriched.

*Assistant.* `DeskInv`: what is in hand is what the question calls for (`InHand`), and an
answer is made from it (`FromEvidence`) or is a model's that was validated (`FromModel`). The
rest is about the operators: selecting and sorting add no item and lose none but to
a limit (`KeptOnes`, `SortedOnes`, `FirstOnes`), so nothing is chosen only when nothing
is of the kinds (`ChosenOnes`); every line of a made answer is a heading, an advice or a
fact of a chosen item (`MadeFromItems`); two items with one name are an indicator
or of one report (`NamesApart`); and what is cut to the bound fits in it or is nothing
(`WithinBound`).

**JudgementProofs.** *DeepScan.* A benign verdict is first shown to be a conjunction
of one condition for each control, and each to be monotone in the evidence:
`VerdictMonotone`, about the operators alone. `ScanInv` then says that the verdict
of the current file is `Verdict` of the facts of the very bytes that were read
(`JudgedHere`), that every file passed so far is exactly one of a result and an
error, and that without other writers the path still holds those bytes
(`Untouched`). `ScanNeverGains` and `ScanIsAccounted` follow for any providers, any
number of files and of rewrites.

*PluginManager.* `PluginInv`: the packages met are those of the order up to the present
one (`InTurn`) and no two active packages share a rule (`RulesApart`). There is a set of packages, the
cyclic ones, each of which waits for another of them, and every package outside of it
comes after all it depends on (`Ordered`); what a package was refused for is unknown,
refused itself or in that set (`StaysMissing`), so it never becomes active after all.

*Judgement.* The phases compute over sequences with folds, and what a phase leaves for
the next is the invariant `JudgeInv`: the built-in rules among the detections are those whose
condition holds of the report (`Agrees`), every detection has a severity (`Severe`), a match is reported under
its rule, no two detections have one id, and the risk is not below a floor. Each fold has an induction of
its own: `Keeps` (packs and plugins leave the built-in rules), `FireHolds`,
`KeepHolds`, `MatchHolds`, `MergeHolds`, and `PathHolds`, from which a lineage is
the node's ancestors. The assumption says what the code
makes sure of beforehand: a parent comes before its child, no plugin's rule has a
built-in rule's id (`RESERVED_RULE_PREFIX`). A judgement that
ends early has a pack with a rule whose validation raises (`Breaks`).

*EvidenceFiles.* The invariant `EvidenceInv` says little: a file parsed so far left what
it holds (`Parsed`) or nothing, and what is attached is made of all of it. What
is proved is what the code computes in between. `Joint(i, G)` says that
indicator `i` stands for the set `G`: its times, confidence, tags and sources are the
bounds and unions over `G`. One more member keeps it (`JoinStands`), so merging leaves
every key with an indicator that stands for its sightings (`MergeStands`); and what
stands for indicators that each stand for sightings stands for them all
(`StandingForAll`), so merging each file by itself and then all together is merging
everything at once (`TogetherStands`). `LinksStand` is the same for links.
Both folds need finite sets: `EvidenceAssumption` says that a field has finitely many values,
as the elements of a parsed record have. `RecordsNumbered` relates the number of a source to the line, and
is where a CSV file needs all its rows to parse.

**ExtractionProofs.** *Containers.* `Ready` relates a loop that is running to the file it
reads: what is to come and what was taken are admitted parts of the file
(`OfTheFile`), the sum that the loop carries is the sum of what it took and both are
within the limits (`WithinLimits`), names taken so far are different and known to
the collector (`NamedApart`). That nothing is lost needs more: in a file that is within
all limits, what was taken and what is to come are together no more than the file,
in number and in size, everything wanted is among one of the two, and content counted
as seen was taken (`AllToCome`). So no limit can be reached, and an artifact that is not kept is
refused or already there. That the first pass over the headers leaves such a state
(`Started`) is an induction over the parts, and that `_Collector` always
finds a new name is the pigeonhole principle (`FreshIsNew`). `RuleFits` states what the
twenty-six rules have in common, which is all that the proof knows of them: content that was found
counts as seen only where no artifact is dropped for its size, and a limit on size ends
the loop only for fixed disks, whose partitions are cut to it.

*Decoding.* That what is being read is a sequence of parts at all is a lemma for each
structure (`PdfPartsAreParts`, `OlePartsAreParts`, `EmulatedAreParts` and the others,
together `PartsAreParts`), each an induction over a fold. `WalksOnce` is the one about
compound files: a chain never holds a sector twice, whatever the allocation table says.
`RuleDecodes` states what the thirty rules have in common (`CodecsDecode`), and the rest
uses nothing else of them. The invariant is about the loop. `Reading` relates what
was kept to the parts read so far: what is kept is not larger than the size
counted, the size is within the limit, sequences of streams keep all they have seen,
decoders of blocks and lines keep exactly the good ones, and size 0 means that the
good parts gave nothing. `LastRead` adds why the loop ended before the last part. A
part kept (`KeptPart`) or passed over (`SkippedPart`) leaves `Reading`, a part that ends
the loop leaves `LastRead` and one that fails it has a reason (`EffectIsSound`); from
these follow what is given back (`EndGivesHonestly`) and that a decode which gained
nothing has a reason for it (`EndFailsForReason`).
Two of the reasons are about parts that come before a good one and give nothing: an empty
first Zstandard frame, after which the next frames are not read, and ASN.1 values without
text in front of one that is malformed. In both the decoder reports that nothing was
decoded although a later part might have given something.

**FoldInduction.** Lemmas only, and none of them about the program. The library's induction theorems take a predicate as a parameter,
which the provers cannot instantiate. A module's constants can be: `FoldInduction`
declares `Step`, `Start` and `Holds`, proves `FoldHolds` (what holds of the start and is
kept by a step holds of the fold over any sequence) from the well-foundedness of `<`, stated
with sets, and each fold of `JudgementProofs`, `ExtractionProofs` and `FrontEndProofs` is one `INSTANCE` of
it. `FoldAppends` and `FoldOfNothing` are the equations of a fold. `SetFoldHolds` is the
same for `FoldSet`, where what a step keeps may not depend on the order in which the
members come.

**Repeatability.** `EngineRepeats` is about two runs, so no invariant of one state
states it. While nothing disturbs a run, its future depends only on `nodes`, `seen`,
`enabled`, `call` and `stack` (a `Configuration`), and `Successor` is the function that
computes the next one. `Leads(x, y)` says that `y` is in every set that contains
`x` and is closed under `Successor`; from one configuration at most one end can be
reached, and `RepeatInv` says that the first run led from its origin to what it found
and the second is on the same way. It needs handlers in a strict order: the code sorts
decoders and analyzers by name, and `EngineAssumption` gives each kind distinct ranks.

**Only model-checked.** `RunsEnd` and `EveryJobSettles` are liveness properties: their
proofs need `ENABLED`, which the prover does not handle. Every invariant and every other
action property that a passing run checks is also a theorem. The type invariants of the
vault and of the session are the other way round: proved, and in no run of their own.

## Not modelled

- *Scoring and pruning*: floating-point formulas; the engine takes scores as a
  table. `should_prune_node` is not reached from `analyze_blob`, whose recursive calls
  all pass `is_decoded_content`.
- *Threat intelligence*: lookups in static tables. *Calibration*: counts over a labelled
  corpus, and only one of the information commands of `CommandLine`.
- *Investigation workbench*, widgets, themes, dialogs, the contents and layout of
  reports and exports: presentation. Which files are written, in which order and
  what their failure does is in `CommandLine`.
- The interactive menu and the launcher, which ask for the same arguments.
- Manifest signatures, version syntax and the worker's own sandbox in `plugins/`;
  similarity scores, fingerprints and clustering in `correlation/`; timelines and
  device forensics of evidence.
- In the components that are modelled: authentication, size checks and read-only
  handlers of the server; listing in the vaults; wording and progress.
- Bytes: alphabets, checksums, regular expressions and offsets appear as the outcome
  of the test the code makes with them.

## Next

The terminal's session with `Screens` and `WorkbenchSession` composed, so that what
is shown is related to what was asked.
