---------------------------- MODULE TitanService ----------------------------
(***************************************************************************)
(* The job service, titan_decoder/server: request threads that submit      *)
(* artifacts, worker threads that lease jobs from the SQLite queue, run    *)
(* the engine and publish reports, and the crashes of both.                *)
(*                                                                         *)
(* Each SQLite statement outside a transaction is a step of its own        *)
(* (isolation_level=None), and so are the write of a blob and of a report, *)
(* which are published by an atomic rename.  Only the elapsed time of a    *)
(* lease matters, so the model keeps the age of each claim, in units of    *)
(* the engine's analysis timeout (300 s), up to the age at which it        *)
(* expires.  Artifacts are of acceptable size.                             *)
(***************************************************************************)
EXTENDS Integers, Sequences, FiniteSets

CONSTANTS
    Digests,        \* artifacts, named by their SHA-256
    Workers,        \* worker threads
    Submitters,     \* request threads
    LeaseTimeout,   \* lease_timeout_seconds
    MaxAnalysis,    \* the longest a worker holds a job
    MaxSubmits,     \* bound of the model: submissions
    MaxCrashes,     \* bound of the model: crashes
    Faults,         \* what may fail, a subset of FaultKinds
    None            \* no worker, no digest

FaultKinds == {"analysis", "publish", "busy"}

ASSUME ServiceAssumption ==
    /\ LeaseTimeout \in Nat \ {0}
    /\ MaxAnalysis \in Nat \ {0}
    /\ MaxSubmits \in Nat
    /\ MaxCrashes \in Nat
    /\ Faults \subseteq FaultKinds
    /\ None \notin Digests \cup Workers

VARIABLES
    blobs,          \* the digests with a blob file
    reports,        \* reports[d]: the worker whose report is published, or None
    row,            \* row[d]: the row of d in table jobs
    arrivals,       \* the digests in the table, by created
    wpc, job,       \* each worker: where it is in work_once, and its job
    spent,          \* how long it has held the job
    spc, upload,    \* each request thread: where it is in submit, its digest
    submits, crashes

store == <<blobs, reports>>
queue == <<row, arrivals>>
workers == <<wpc, job, spent>>
submitters == <<spc, upload>>
vars == <<store, queue, workers, submitters, submits, crashes>>

Row == [state : {"absent", "queued", "running", "completed", "failed"},
        worker : Workers \cup {None}, age : 0 .. LeaseTimeout + 1]

\* An entry of the table: a state, who claimed it, and for how long.
Entry(state, worker, age) == [state |-> state, worker |-> worker, age |-> age]

Init ==
    /\ blobs = {} /\ reports = [d \in Digests |-> None]
    /\ row = [d \in Digests |-> Entry("absent", None, 0)]
    /\ arrivals = <<>>
    /\ wpc = [w \in Workers |-> "idle"] /\ job = [w \in Workers |-> None]
    /\ spent = [w \in Workers |-> 0]
    /\ spc = [s \in Submitters |-> "idle"]
    /\ upload = [s \in Submitters |-> None]
    /\ submits = 0 /\ crashes = 0

\* UPDATE jobs SET state=... WHERE id=d.
Mark(d, state) == [row EXCEPT ![d] = Entry(state, @.worker, 0)]

-----------------------------------------------------------------------------
(* TitanService.submit *)

SGoto(s, pc) == spc' = [spc EXCEPT ![s] = pc]

\* Variant: the job is queued before its artifact is stored.
PostQueuesFirst(s, d) ==
    /\ spc[s] = "idle" /\ submits < MaxSubmits
    /\ upload' = [upload EXCEPT ![s] = d]
    /\ SGoto(s, "insert") /\ submits' = submits + 1
    /\ UNCHANGED <<store, queue, workers, crashes>>

Post(s, d) ==
    /\ spc[s] = "idle" /\ submits < MaxSubmits
    /\ upload' = [upload EXCEPT ![s] = d]
    /\ SGoto(s, "put") /\ submits' = submits + 1
    /\ UNCHANGED <<store, queue, workers, crashes>>

\* ArtifactStore.put: an existing blob is kept, a new one appears whole.
PutBlob(s) ==
    /\ spc[s] = "put"
    /\ blobs' = blobs \cup {upload[s]}
    /\ SGoto(s, "insert")
    /\ UNCHANGED <<reports, queue, workers, upload, submits, crashes>>

\* enqueue: INSERT OR IGNORE.
Insert(s) == LET d == upload[s] IN
    /\ spc[s] = "insert"
    /\ IF row[d].state = "absent"
       THEN /\ row' = Mark(d, "queued")
            /\ arrivals' = Append(arrivals, d)
            /\ SGoto(s, "idle") /\ upload' = [upload EXCEPT ![s] = None]
       ELSE SGoto(s, "requeue") /\ UNCHANGED <<queue, upload>>
    /\ UNCHANGED <<store, workers, submits, crashes>>

\* Variant: completed work is done again when it is submitted again.
ResubmittableAlways(state) == state \in {"failed", "completed"}

Resubmittable(state) == state = "failed"

\* Variant: a resubmission inserts a second row.
RequeueInserts(s) == LET d == upload[s] IN
    /\ spc[s] = "requeue"
    /\ row' = IF Resubmittable(row[d].state)
              THEN [row EXCEPT ![d] = Entry("queued", None, 0)]
              ELSE row
    /\ arrivals' = Append(arrivals, d)
    /\ SGoto(s, "idle") /\ upload' = [upload EXCEPT ![s] = None]
    /\ UNCHANGED <<store, workers, submits, crashes>>

\* enqueue: UPDATE ... WHERE id=? AND state='failed'.
Requeue(s) == LET d == upload[s] IN
    /\ spc[s] = "requeue"
    /\ row' = IF Resubmittable(row[d].state)
              THEN [row EXCEPT ![d] = Entry("queued", None, 0)]
              ELSE row
    /\ SGoto(s, "idle") /\ upload' = [upload EXCEPT ![s] = None]
    /\ UNCHANGED <<store, arrivals, workers, submits, crashes>>

\* The process that serves the request is killed.
SubmitterCrash(s) ==
    /\ spc[s] # "idle" /\ crashes < MaxCrashes
    /\ SGoto(s, "idle") /\ upload' = [upload EXCEPT ![s] = None]
    /\ crashes' = crashes + 1
    /\ UNCHANGED <<store, queue, workers, submits>>

-----------------------------------------------------------------------------
(* _worker_loop and TitanService.work_once *)

WGoto(w, pc) == wpc' = [wpc EXCEPT ![w] = pc]

\* The worker's thread leaves work_once and is at pc.
Release(w, pc) ==
    /\ WGoto(w, pc)
    /\ job' = [job EXCEPT ![w] = None]
    /\ spent' = [spent EXCEPT ![w] = 0]

\* Variants: the timeout is not subtracted; claims never expire.
ExpiredAtOnce(d) == row[d].state = "running" /\ row[d].age > 0

ExpiredNever(d) == FALSE

Expired(d) == row[d].state = "running" /\ row[d].age > LeaseTimeout

Queued(d) == row[d].state = "queued" \/ Expired(d)

\* ORDER BY created LIMIT 1 of what is queued after the expired claims are.
IsOldest(d) ==
    \E i \in DOMAIN arrivals :
      /\ arrivals[i] = d /\ Queued(d)
      /\ \A j \in 1 .. i - 1 : ~Queued(arrivals[j])

\* JobQueue.lease: one IMMEDIATE transaction.
Claim(w, d) ==
    /\ wpc[w] = "idle" /\ IsOldest(d)
    /\ row' = [e \in Digests |->
                 IF e = d THEN Entry("running", w, 0)
                 ELSE IF Expired(e) THEN Entry("queued", None, 0) ELSE row[e]]
    /\ WGoto(w, "analyze")
    /\ job' = [job EXCEPT ![w] = d] /\ spent' = [spent EXCEPT ![w] = 0]
    /\ UNCHANGED <<store, arrivals, submitters, submits, crashes>>

\* lease raises, for instance on a locked database: it is called outside the
\* try block, so the exception ends the worker's thread.
LeaseRaises(w) ==
    /\ wpc[w] = "idle" /\ "busy" \in Faults
    /\ WGoto(w, "dead")
    /\ UNCHANGED <<store, queue, job, spent, submitters, submits, crashes>>

\* The engine has analysed the stored bytes.
Analyze(w) ==
    /\ wpc[w] = "analyze"
    /\ \/ job[w] \in blobs /\ WGoto(w, "publish")
       \/ job[w] \notin blobs /\ WGoto(w, "fail")
       \/ "analysis" \in Faults /\ WGoto(w, "fail")
    /\ UNCHANGED <<store, queue, job, spent, submitters, submits, crashes>>

\* Variant: a report that could not be written is not an error.
PutReportBestEffort(w) ==
    /\ wpc[w] = "publish"
    /\ WGoto(w, "complete")
    /\ \/ reports' = [reports EXCEPT ![job[w]] = w]
       \/ "publish" \in Faults /\ UNCHANGED reports
    /\ UNCHANGED <<blobs, queue, job, spent, submitters, submits, crashes>>

\* ArtifactStore.put_report.
PutReport(w) ==
    /\ wpc[w] = "publish"
    /\ \/ /\ reports' = [reports EXCEPT ![job[w]] = w]
          /\ WGoto(w, "complete")
       \/ /\ "publish" \in Faults /\ WGoto(w, "fail") /\ UNCHANGED reports
    /\ UNCHANGED <<blobs, queue, job, spent, submitters, submits, crashes>>

\* The WHERE clause of _finish: the worker is not part of it.
MayFinish(w, d) == row[d].state = "running"

\* JobQueue.complete: an exception leads to JobQueue.fail.
CompleteJob(w) ==
    /\ wpc[w] = "complete"
    /\ \/ /\ MayFinish(w, job[w])
          /\ row' = Mark(job[w], "completed")
          /\ Release(w, "idle")
       \/ /\ ~MayFinish(w, job[w]) \/ "busy" \in Faults
          /\ WGoto(w, "fail") /\ UNCHANGED <<row, job, spent>>
    /\ UNCHANGED <<store, arrivals, submitters, submits, crashes>>

\* Variant: the except clause raises the error again.
FailJobReraises(w) ==
    /\ wpc[w] = "fail"
    /\ row' = IF MayFinish(w, job[w])
              THEN Mark(job[w], "failed")
              ELSE row
    /\ Release(w, "dead")
    /\ UNCHANGED <<store, arrivals, submitters, submits, crashes>>

\* JobQueue.fail, in the except clause: its own exception is not caught.
FailJob(w) ==
    /\ wpc[w] = "fail"
    /\ \/ /\ MayFinish(w, job[w])
          /\ row' = Mark(job[w], "failed")
          /\ Release(w, "idle")
       \/ /\ ~MayFinish(w, job[w]) \/ "busy" \in Faults
          /\ Release(w, "dead") /\ UNCHANGED row
    /\ UNCHANGED <<store, arrivals, submitters, submits, crashes>>

Working(w) == wpc[w] \in {"analyze", "publish", "complete", "fail"}

\* The worker's process is killed, and whoever operates it starts it again.
WorkerCrash(w) ==
    /\ Working(w) /\ crashes < MaxCrashes
    /\ Release(w, "down") /\ crashes' = crashes + 1
    /\ UNCHANGED <<store, queue, submitters, submits>>

WorkerRestart(w) ==
    /\ wpc[w] = "down" /\ WGoto(w, "idle")
    /\ UNCHANGED <<store, queue, job, spent, submitters, submits, crashes>>

\* Variant: the age runs past the one that matters.
OlderForever(age) == age + 1

\* Time passes for the claims and for the workers.
Older(age) == IF age <= LeaseTimeout THEN age + 1 ELSE age

Tick ==
    /\ \A w \in Workers : Working(w) => spent[w] < MaxAnalysis
    /\ row' = [d \in Digests |->
                 IF row[d].state = "running"
                 THEN Entry("running", row[d].worker, Older(row[d].age))
                 ELSE row[d]]
    /\ spent' = [w \in Workers |-> IF Working(w) THEN spent[w] + 1 ELSE 0]
    /\ UNCHANGED <<store, arrivals, wpc, job, submitters, submits, crashes>>

SubmitStep(s) == PutBlob(s) \/ Insert(s) \/ Requeue(s)

WorkStep(w) ==
    \/ \E d \in Digests : Claim(w, d)
    \/ Analyze(w) \/ PutReport(w) \/ CompleteJob(w) \/ FailJob(w)

Next ==
    \/ \E s \in Submitters : \/ \E d \in Digests : Post(s, d)
                             \/ SubmitStep(s) \/ SubmitterCrash(s)
    \/ \E w \in Workers : \/ WorkStep(w) \/ LeaseRaises(w)
                          \/ WorkerCrash(w) \/ WorkerRestart(w)
    \/ Tick

\* Threads run, time passes, and a killed worker process is started again.
Fairness ==
    /\ \A s \in Submitters : WF_vars(SubmitStep(s))
    /\ \A w \in Workers : WF_vars(WorkStep(w)) /\ WF_vars(WorkerRestart(w))
    /\ WF_vars(Tick)

Spec == Init /\ [][Next]_vars /\ Fairness

-----------------------------------------------------------------------------
(* Properties *)

TypeOK ==
    /\ blobs \subseteq Digests
    /\ reports \in [Digests -> Workers \cup {None}]
    /\ row \in [Digests -> Row]
    /\ arrivals \in Seq(Digests)
    /\ wpc \in [Workers -> {"idle", "analyze", "publish", "complete", "fail",
                            "dead", "down"}]
    /\ job \in [Workers -> Digests \cup {None}]
    /\ spent \in [Workers -> 0 .. MaxAnalysis]
    /\ spc \in [Submitters -> {"idle", "put", "insert", "requeue"}]
    /\ upload \in [Submitters -> Digests \cup {None}]
    /\ submits \in 0 .. MaxSubmits /\ crashes \in 0 .. MaxCrashes

\* Files are published before the database row that points to them: a job in
\* the table has its artifact and a completed one its report, after every
\* crash (ArtifactStore.put before enqueue, put_report before complete).
Durable ==
    \A d \in Digests :
      /\ row[d].state # "absent" => d \in blobs
      /\ row[d].state = "completed" => reports[d] # None

\* The table remembers who claimed a job that is running, and every row is
\* reachable by the lease query exactly once.
QueueConsistent ==
    /\ \A d \in Digests : row[d].state = "running" => row[d].worker # None
    /\ \A d \in Digests : row[d].state # "absent" <=>
         Cardinality({i \in DOMAIN arrivals : arrivals[i] = d}) = 1

Holds(w, d) == Working(w) /\ job[w] = d

\* "SQLite transactions ensure one worker claims a queued artifact"
\* (docs/SERVER.md): as long as no analysis outlives its lease, two workers
\* never work on one job, and the row names the worker that does.
ExclusiveUnlessOverlong ==
    MaxAnalysis <= LeaseTimeout =>
      \A w \in Workers, d \in Digests : Holds(w, d) =>
        row[d].state = "running" /\ row[d].worker = w

\* A completed job's report is not written again while leases are respected:
\* who fetches it twice reads the same report.
ReportFrozen ==
    [][MaxAnalysis <= LeaseTimeout =>
         \A d \in Digests : row[d].state = "completed" =>
           row'[d].state = "completed" /\ reports'[d] = reports[d]]_vars

Alive(w) == wpc[w] # "dead"

\* A worker whose job was taken over may die of it, but never the last one:
\* only a worker that is alive takes a job over.
SomeWorkerSurvives == \E w \in Workers : Alive(w)

\* Only the worker that holds the lease ends the job: any other is told
\* "job is not leased" (JobQueue._finish).
OnlyHolderFinishes ==
    [][\A d \in Digests :
         row[d].state = "running" /\ row'[d].state \in {"completed", "failed"}
         => wpc'[row[d].worker] # wpc[row[d].worker]]_vars

\* Work that was accepted is done: a job in the queue is completed or failed
\* some day, through crashes, expired leases and workers that die.
EveryJobSettles ==
    \A d \in Digests :
      row[d].state \in {"queued", "running"}
        ~> row[d].state \in {"completed", "failed"}

JobState == [d \in Digests |-> row[d].state]

Published == {d \in Digests : reports[d] # None}

Lifecycle == INSTANCE JobLifecycle WITH state <- JobState, published <- Published

\* The service implements the abstract life of a job.
LifecycleSpec == Lifecycle!JobSpec
=============================================================================
