------------------------- MODULE TitanServiceProofs -------------------------
(***************************************************************************)
(* Theorems about the job service, for any number of digests, workers and  *)
(* request threads, any lease timeout and any set of faults.               *)
(***************************************************************************)
EXTENDS TitanService, FiniteSetTheorems, TLAPS

RowStates == {"absent", "queued", "running", "completed", "failed"}

\* An entry is a row of the table.
LEMMA EntryType ==
  ASSUME NEW st \in RowStates, NEW w \in Workers \cup {None},
         NEW age \in 0 .. LeaseTimeout + 1
  PROVE  /\ Entry(st, w, age) \in Row
         /\ Entry(st, w, age).state = st
         /\ Entry(st, w, age).worker = w
         /\ Entry(st, w, age).age = age
  BY DEF Entry, Row, RowStates

\* The fields of a row have their types.
LEMMA RowType ==
  ASSUME NEW r \in Row
  PROVE  /\ r.state \in RowStates
         /\ r.worker \in Workers \cup {None}
         /\ r.age \in 0 .. LeaseTimeout + 1
  BY DEF Row, RowStates

LEMMA ZeroAge == 0 \in 0 .. LeaseTimeout + 1
  BY ServiceAssumption

LEMMA ZeroSpent == 0 \in 0 .. MaxAnalysis
  BY ServiceAssumption

\* Mark changes the state and the age of one row, and nothing else.
LEMMA MarkType ==
  ASSUME row \in [Digests -> Row], NEW d \in Digests, NEW st \in RowStates
  PROVE  /\ Mark(d, st) \in [Digests -> Row]
         /\ Mark(d, st)[d] = Entry(st, row[d].worker, 0)
         /\ Mark(d, st)[d].state = st
         /\ Mark(d, st)[d].worker = row[d].worker
         /\ \A e \in Digests : e # d => Mark(d, st)[e] = row[e]
<1>1. row[d] \in Row
  OBVIOUS
<1>2. row[d].worker \in Workers \cup {None}
  BY <1>1, RowType
<1>3. /\ Entry(st, row[d].worker, 0) \in Row
      /\ Entry(st, row[d].worker, 0).state = st
      /\ Entry(st, row[d].worker, 0).worker = row[d].worker
  BY <1>2, EntryType, ZeroAge
<1> QED
  BY <1>3 DEF Mark

(***************************************************************************)
(* The inductive invariant of the store.  A request thread that is past    *)
(* ArtifactStore.put has its blob on disk; a worker inside work_once has a *)
(* job that is in the table; one that is past put_report has a report.     *)
(***************************************************************************)
SubmitterInv ==
    \A s \in Submitters :
      /\ spc[s] # "idle" => upload[s] \in Digests
      /\ spc[s] \in {"insert", "requeue"} => upload[s] \in blobs

WorkerInv ==
    \A w \in Workers : Working(w) =>
      /\ job[w] \in Digests
      /\ row[job[w]].state # "absent"
      /\ wpc[w] = "complete" => reports[job[w]] # None

StoreInv == TypeOK /\ SubmitterInv /\ WorkerInv /\ Durable

LEMMA StoreInit == Init => StoreInv
<1> SUFFICES ASSUME Init PROVE StoreInv
  OBVIOUS
<1> USE ServiceAssumption
<1>1. TypeOK
  <2>1. Entry("absent", None, 0) \in Row
    BY EntryType, ZeroAge DEF RowStates
  <2> QED BY <2>1 DEF Init, TypeOK
<1>2. SubmitterInv
  BY DEF Init, SubmitterInv
<1>3. WorkerInv
  BY DEF Init, WorkerInv, Working
<1>4. Durable
  BY DEF Init, Durable, Entry
<1> QED
  BY <1>1, <1>2, <1>3, <1>4 DEF StoreInv

LEMMA StoreStep == StoreInv /\ [Next]_vars => StoreInv'
<1> SUFFICES ASSUME StoreInv, [Next]_vars PROVE StoreInv'
  OBVIOUS
<1> USE ServiceAssumption DEF StoreInv
<1>1. ASSUME NEW s \in Submitters, NEW d \in Digests, Post(s, d)
      PROVE  StoreInv'
  <2> USE <1>1 DEF Post, SGoto, store, queue, workers
  <2>1. TypeOK'
    BY DEF TypeOK
  <2>2. SubmitterInv'
    BY DEF TypeOK, SubmitterInv
  <2>3. WorkerInv' /\ Durable'
    BY DEF WorkerInv, Working, Durable
  <2> QED BY <2>1, <2>2, <2>3
<1>2. ASSUME NEW s \in Submitters, PutBlob(s)
      PROVE  StoreInv'
  <2> USE <1>2 DEF PutBlob, SGoto, queue, workers
  <2>1. TypeOK'
    BY DEF TypeOK, SubmitterInv
  <2>2. SubmitterInv'
    BY DEF TypeOK, SubmitterInv
  <2>3. WorkerInv' /\ Durable'
    BY DEF WorkerInv, Working, Durable
  <2> QED BY <2>1, <2>2, <2>3
<1>3. ASSUME NEW s \in Submitters, Insert(s)
      PROVE  StoreInv'
  <2> DEFINE d == upload[s]
             new == Mark(d, "queued")
  <2>0. d \in Digests /\ d \in blobs
    BY <1>3 DEF SubmitterInv, Insert
  <2>1. CASE row[d].state = "absent"
    <3>1. /\ row' = new /\ arrivals' = Append(arrivals, d)
          /\ spc' = [spc EXCEPT ![s] = "idle"]
          /\ upload' = [upload EXCEPT ![s] = None]
          /\ UNCHANGED <<store, workers, submits, crashes>>
      BY <1>3, <2>1 DEF Insert, SGoto
    <3>2. row \in [Digests -> Row] /\ arrivals \in Seq(Digests)
      BY DEF TypeOK
    <3>3. /\ new \in [Digests -> Row] /\ new[d].state = "queued"
          /\ \A e \in Digests : e # d => new[e] = row[e]
      BY <2>0, <3>2, MarkType DEF RowStates
    <3> HIDE DEF d, new
    <3>4. arrivals' \in Seq(Digests)
      BY <2>0, <3>1, <3>2
    <3>5. TypeOK'
      BY <3>1, <3>3, <3>4 DEF TypeOK, store, workers
    <3>6. SubmitterInv'
      BY <3>1 DEF SubmitterInv, TypeOK, store
    <3>7. WorkerInv'
      BY <3>1, <3>3, <2>0 DEF WorkerInv, Working, store, workers
    <3>8. Durable'
      BY <3>1, <3>3, <2>0 DEF Durable, store
    <3> QED BY <3>5, <3>6, <3>7, <3>8
  <2>2. CASE row[d].state # "absent"
    BY <1>3, <2>2 DEF Insert, SGoto, queue, store, workers, TypeOK,
                      SubmitterInv, WorkerInv, Working, Durable
  <2> QED BY <2>1, <2>2
<1>4. ASSUME NEW s \in Submitters, Requeue(s)
      PROVE  StoreInv'
  <2> DEFINE d == upload[s]
  <2>1. /\ row' = IF row[d].state = "failed"
                  THEN [row EXCEPT ![d] = Entry("queued", None, 0)] ELSE row
        /\ spc' = [spc EXCEPT ![s] = "idle"]
        /\ upload' = [upload EXCEPT ![s] = None]
        /\ UNCHANGED <<store, arrivals, workers, submits, crashes>>
    BY <1>4 DEF Requeue, SGoto, Resubmittable
  <2>2. d \in Digests /\ d \in blobs
    BY <1>4 DEF SubmitterInv, Requeue
  <2>3. /\ Entry("queued", None, 0) \in Row
        /\ Entry("queued", None, 0).state = "queued"
    BY EntryType, ZeroAge DEF RowStates
  <2> HIDE DEF d
  <2>4. TypeOK'
    BY <2>1, <2>2, <2>3 DEF TypeOK, store, workers
  <2>5. SubmitterInv'
    BY <2>1 DEF TypeOK, SubmitterInv, store
  <2>6. WorkerInv'
    BY <2>1, <2>2, <2>3 DEF WorkerInv, Working, TypeOK, store, workers
  <2>7. Durable'
    BY <2>1, <2>2, <2>3 DEF Durable, TypeOK, store
  <2> QED BY <2>4, <2>5, <2>6, <2>7
<1>5. ASSUME NEW s \in Submitters, SubmitterCrash(s)
      PROVE  StoreInv'
  BY <1>5 DEF SubmitterCrash, SGoto, store, queue, workers,
              TypeOK, SubmitterInv, WorkerInv, Working, Durable
<1>6. ASSUME NEW w \in Workers, NEW d \in Digests, Claim(w, d)
      PROVE  StoreInv'
  <2> USE <1>6
  <2>1. row \in [Digests -> Row]
    BY DEF TypeOK
  <2>2. /\ row' \in [Digests -> Row]
        /\ row[d].state \in {"queued", "running"}
        /\ row'[d].state = "running"
        /\ \A e \in Digests \ {d} :
             \/ row'[e] = row[e]
             \/ row[e].state = "running" /\ row'[e].state = "queued"
    <3>1. /\ Entry("queued", None, 0) \in Row
          /\ Entry("queued", None, 0).state = "queued"
          /\ Entry("running", w, 0) \in Row
          /\ Entry("running", w, 0).state = "running"
      BY EntryType, ZeroAge DEF RowStates
    <3>2. row[d].state \in {"queued", "running"}
      BY DEF Claim, IsOldest, Queued, Expired
    <3> QED BY <2>1, <3>1, <3>2 DEF Claim, Expired
  <2>3. TypeOK'
    BY <2>2 DEF Claim, WGoto, store, submitters, TypeOK
  <2>4. SubmitterInv'
    BY DEF Claim, SubmitterInv, store, submitters
  <2>5. WorkerInv'
    BY <2>2 DEF Claim, WGoto, store, WorkerInv, Working, TypeOK
  <2>6. Durable'
    BY <2>2 DEF Claim, store, Durable
  <2> QED BY <2>3, <2>4, <2>5, <2>6
<1>7. ASSUME NEW w \in Workers, LeaseRaises(w)
      PROVE  StoreInv'
  BY <1>7 DEF LeaseRaises, WGoto, store, queue, submitters,
              TypeOK, SubmitterInv, WorkerInv, Working, Durable
<1>8. ASSUME NEW w \in Workers, Analyze(w)
      PROVE  StoreInv'
  BY <1>8, SMTT(30) DEF Analyze, WGoto, store, queue, submitters,
              TypeOK, SubmitterInv, WorkerInv, Working, Durable
<1>9. ASSUME NEW w \in Workers, PutReport(w)
      PROVE  StoreInv'
  <2> USE <1>9 DEF PutReport, WGoto, queue, submitters
  <2>0. job[w] \in Digests
    BY DEF WorkerInv, Working
  <2>1. TypeOK'
    <3>1. reports' \in [Digests -> Workers \cup {None}]
      BY DEF TypeOK
    <3> QED BY <3>1 DEF TypeOK
  <2>2. SubmitterInv'
    BY DEF SubmitterInv
  <2>3. w # None
    OBVIOUS
  <2>4. WorkerInv'
    BY <2>0, <2>3 DEF WorkerInv, Working, TypeOK
  <2>5. Durable'
    BY <2>3 DEF Durable, TypeOK
  <2> QED BY <2>1, <2>2, <2>4, <2>5
<1>10. ASSUME NEW w \in Workers, CompleteJob(w)
       PROVE  StoreInv'
  <2> DEFINE new == Mark(job[w], "completed")
  <2>1. /\ job[w] \in Digests /\ reports[job[w]] # None
        /\ job[w] \in blobs
    BY <1>10 DEF CompleteJob, WorkerInv, Working, Durable
  <2>2. row \in [Digests -> Row]
    BY DEF TypeOK
  <2>3. /\ new \in [Digests -> Row] /\ new[job[w]].state = "completed"
        /\ \A e \in Digests : e # job[w] => new[e] = row[e]
    BY <2>1, <2>2, MarkType DEF RowStates
  <2>4. /\ UNCHANGED <<store, arrivals, submitters, submits, crashes>>
        /\ \/ /\ row' = new
              /\ wpc' = [wpc EXCEPT ![w] = "idle"]
              /\ job' = [job EXCEPT ![w] = None]
              /\ spent' = [spent EXCEPT ![w] = 0]
           \/ /\ UNCHANGED <<row, job, spent>>
              /\ wpc' = [wpc EXCEPT ![w] = "fail"]
    BY <1>10 DEF CompleteJob, Release, WGoto
  <2>5. TypeOK'
    <3>1. row' \in [Digests -> Row]
      BY <2>2, <2>3, <2>4
    <3>2. job' \in [Workers -> Digests \cup {None}]
      BY <2>4 DEF TypeOK
    <3>3. spent' \in [Workers -> 0 .. MaxAnalysis]
      BY <2>4, ZeroSpent DEF TypeOK
    <3>4. wpc' \in [Workers -> {"idle", "analyze", "publish", "complete",
                                "fail", "dead", "down"}]
      BY <2>4 DEF TypeOK
    <3> QED BY <2>4, <3>1, <3>2, <3>3, <3>4 DEF TypeOK, store, submitters
  <2>6. SubmitterInv'
    BY <2>4 DEF SubmitterInv, store, submitters
  <2>7. WorkerInv'
    <3> SUFFICES ASSUME NEW v \in Workers, Working(v)'
                 PROVE  /\ job'[v] \in Digests
                        /\ row'[job'[v]].state # "absent"
                        /\ wpc'[v] = "complete" => reports'[job'[v]] # None
      BY DEF WorkerInv
    <3>1. /\ Working(v) /\ job'[v] = job[v]
          /\ wpc'[v] = "complete" => wpc[v] = "complete"
      BY <1>10, <2>4 DEF Working, TypeOK, CompleteJob
    <3>2. row'[job[v]].state # "absent"
      BY <2>1, <2>3, <2>4, <3>1 DEF WorkerInv
    <3> QED BY <2>4, <3>1, <3>2 DEF WorkerInv, store
  <2>8. Durable'
    BY <2>1, <2>3, <2>4 DEF Durable, store
  <2> QED BY <2>5, <2>6, <2>7, <2>8
<1>11. ASSUME NEW w \in Workers, FailJob(w)
       PROVE  StoreInv'
  <2> DEFINE new == Mark(job[w], "failed")
  <2>1. job[w] \in Digests /\ job[w] \in blobs
    BY <1>11 DEF FailJob, WorkerInv, Working, Durable
  <2>2. row \in [Digests -> Row]
    BY DEF TypeOK
  <2>3. /\ new \in [Digests -> Row] /\ new[job[w]].state = "failed"
        /\ \A e \in Digests : e # job[w] => new[e] = row[e]
    BY <2>1, <2>2, MarkType DEF RowStates
  <2>4. /\ UNCHANGED <<store, arrivals, submitters, submits, crashes>>
        /\ \/ /\ row' = new
              /\ wpc' = [wpc EXCEPT ![w] = "idle"]
              /\ job' = [job EXCEPT ![w] = None]
              /\ spent' = [spent EXCEPT ![w] = 0]
           \/ /\ UNCHANGED row
              /\ wpc' = [wpc EXCEPT ![w] = "dead"]
              /\ job' = [job EXCEPT ![w] = None]
              /\ spent' = [spent EXCEPT ![w] = 0]
    BY <1>11 DEF FailJob, Release, WGoto
  <2>5. TypeOK'
    <3>1. row' \in [Digests -> Row]
      BY <2>2, <2>3, <2>4
    <3>2. job' \in [Workers -> Digests \cup {None}]
      BY <2>4 DEF TypeOK
    <3>3. spent' \in [Workers -> 0 .. MaxAnalysis]
      BY <2>4, ZeroSpent DEF TypeOK
    <3>4. wpc' \in [Workers -> {"idle", "analyze", "publish", "complete",
                                "fail", "dead", "down"}]
      BY <2>4 DEF TypeOK
    <3> QED BY <2>4, <3>1, <3>2, <3>3, <3>4 DEF TypeOK, store, submitters
  <2>6. SubmitterInv'
    BY <2>4 DEF SubmitterInv, store, submitters
  <2>7. WorkerInv'
    <3> SUFFICES ASSUME NEW v \in Workers, Working(v)'
                 PROVE  /\ job'[v] \in Digests
                        /\ row'[job'[v]].state # "absent"
                        /\ wpc'[v] = "complete" => reports'[job'[v]] # None
      BY DEF WorkerInv
    <3>1. /\ Working(v) /\ job'[v] = job[v]
          /\ wpc'[v] = "complete" => wpc[v] = "complete"
      BY <1>11, <2>4 DEF Working, TypeOK, FailJob
    <3>2. row'[job[v]].state # "absent"
      BY <2>1, <2>3, <2>4, <3>1 DEF WorkerInv
    <3> QED BY <2>4, <3>1, <3>2 DEF WorkerInv, store
  <2>8. Durable'
    BY <2>1, <2>3, <2>4 DEF Durable, store
  <2> QED BY <2>5, <2>6, <2>7, <2>8
<1>12. ASSUME NEW w \in Workers, WorkerCrash(w)
       PROVE  StoreInv'
  BY <1>12 DEF WorkerCrash, Release, WGoto, store, queue, submitters,
               TypeOK, SubmitterInv, WorkerInv, Working, Durable
<1>13. ASSUME NEW w \in Workers, WorkerRestart(w)
       PROVE  StoreInv'
  BY <1>13 DEF WorkerRestart, WGoto, store, queue, submitters,
               TypeOK, SubmitterInv, WorkerInv, Working, Durable
<1>14. CASE Tick
  <2> USE <1>14
  <2>1. \A d \in Digests : row[d] \in Row
    BY DEF TypeOK
  <2>2. \A d \in Digests : /\ row'[d] \in Row
                           /\ row'[d].state = row[d].state
    <3> SUFFICES ASSUME NEW d \in Digests, row[d].state = "running"
                 PROVE  row'[d] \in Row /\ row'[d].state = "running"
      BY <2>1 DEF Tick
    <3>1. row[d].worker \in Workers \cup {None}
      BY <2>1, RowType
    <3>2. Older(row[d].age) \in 0 .. LeaseTimeout + 1
      BY <2>1, RowType, ServiceAssumption DEF Older
    <3>3. row'[d] = Entry("running", row[d].worker, Older(row[d].age))
      BY DEF Tick
    <3> QED BY <3>1, <3>2, <3>3, EntryType DEF RowStates
  <2>3. TypeOK'
    <3>1. row' \in [Digests -> Row]
      BY <2>2 DEF Tick
    <3>2. spent' \in [Workers -> 0 .. MaxAnalysis]
      BY ServiceAssumption DEF TypeOK, Tick
    <3> QED BY <3>1, <3>2 DEF TypeOK, Tick, store, submitters
  <2>4. SubmitterInv'
    BY DEF SubmitterInv, Tick, store, submitters
  <2>5. WorkerInv'
    BY <2>2 DEF WorkerInv, Working, Tick, store
  <2>6. Durable'
    BY <2>2 DEF Durable, Tick, store
  <2> QED BY <2>3, <2>4, <2>5, <2>6
<1>15. CASE UNCHANGED vars
  BY <1>15 DEF vars, store, queue, workers, submitters,
               TypeOK, SubmitterInv, WorkerInv, Working, Durable
<1> QED
  BY <1>1, <1>2, <1>3, <1>4, <1>5, <1>6, <1>7, <1>8, <1>9, <1>10, <1>11,
     <1>12, <1>13, <1>14, <1>15 DEF Next, SubmitStep, WorkStep

LEMMA StoreInvariant == Spec => []StoreInv
  BY StoreInit, StoreStep, PTL DEF Spec

\* Every variable keeps its type.
THEOREM ServiceTypeCorrect == Spec => []TypeOK
  BY StoreInvariant, PTL DEF StoreInv

\* A job in the table has its artifact on disk and a completed one its
\* report, whatever workers, request threads, faults and crashes do.
THEOREM ServiceDurable == Spec => []Durable
  BY StoreInvariant, PTL DEF StoreInv

-----------------------------------------------------------------------------
(***************************************************************************)
(* Leases.  While no analysis outlives its lease, the row of a worker's    *)
(* job names that worker, and its claim is no older than the worker's      *)
(* visit: the age that expires cannot be reached, so nobody takes it over. *)
(***************************************************************************)
HeldBy(w) ==
    /\ row[job[w]].state = "running"
    /\ row[job[w]].worker = w

LeaseInv ==
    \A w \in Workers : Working(w) => HeldBy(w) /\ row[job[w]].age <= spent[w]

Timely == MaxAnalysis <= LeaseTimeout

\* What each action does to the rows of running jobs.
LEMMA RowsThatChange ==
  ASSUME StoreInv, [Next]_vars, ~Tick
  PROVE  \A d \in Digests : row[d].state = "running" =>
           \/ row'[d] = row[d]
           \/ Expired(d)
           \/ \E w \in Workers : /\ Working(w) /\ job[w] = d
                                 /\ ~Working(w)'
<1> SUFFICES ASSUME NEW d \in Digests, row[d].state = "running"
             PROVE  \/ row'[d] = row[d]
                    \/ Expired(d)
                    \/ \E w \in Workers : /\ Working(w) /\ job[w] = d
                                          /\ ~Working(w)'
  OBVIOUS
<1>0. /\ row \in [Digests -> Row]
      /\ wpc \in [Workers -> {"idle", "analyze", "publish", "complete",
                              "fail", "dead", "down"}]
      /\ \A w \in Workers : Working(w) => job[w] \in Digests
      /\ \A s \in Submitters : spc[s] # "idle" => upload[s] \in Digests
  BY DEF StoreInv, TypeOK, WorkerInv, SubmitterInv
<1>1. ASSUME NEW s \in Submitters, Insert(s)
      PROVE  row'[d] = row[d]
  BY <1>0, <1>1, MarkType DEF Insert, RowStates, queue
<1>2. ASSUME NEW s \in Submitters, Requeue(s)
      PROVE  row'[d] = row[d]
  BY <1>0, <1>2 DEF Requeue, Resubmittable
<1>3. ASSUME NEW w \in Workers, NEW e \in Digests, Claim(w, e)
      PROVE  row'[d] = row[d] \/ Expired(d)
  BY <1>3 DEF Claim, IsOldest, Queued
<1>4. ASSUME NEW w \in Workers, CompleteJob(w)
      PROVE  row'[d] = row[d] \/ (Working(w) /\ job[w] = d /\ ~Working(w)')
  <2>1. Working(w) /\ job[w] \in Digests
    BY <1>0, <1>4 DEF CompleteJob, Working
  <2>2. (row' = Mark(job[w], "completed") /\ wpc'[w] = "idle") \/ row' = row
    BY <1>0, <1>4 DEF CompleteJob, Release, WGoto
  <2> QED BY <1>0, <2>1, <2>2, MarkType DEF RowStates, Working
<1>5. ASSUME NEW w \in Workers, FailJob(w)
      PROVE  row'[d] = row[d] \/ (Working(w) /\ job[w] = d /\ ~Working(w)')
  <2>1. Working(w) /\ job[w] \in Digests
    BY <1>0, <1>5 DEF FailJob, Working
  <2>2. (row' = Mark(job[w], "failed") /\ wpc'[w] = "idle") \/ row' = row
    BY <1>0, <1>5 DEF FailJob, Release, WGoto
  <2> QED BY <1>0, <2>1, <2>2, MarkType DEF RowStates, Working
<1>6. ASSUME NEW s \in Submitters, NEW e \in Digests,
             Post(s, e) \/ PutBlob(s) \/ SubmitterCrash(s)
      PROVE  row'[d] = row[d]
  BY <1>6 DEF Post, PutBlob, SubmitterCrash, queue
<1>7. ASSUME NEW w \in Workers,
             LeaseRaises(w) \/ Analyze(w) \/ PutReport(w) \/ WorkerCrash(w)
               \/ WorkerRestart(w)
      PROVE  row'[d] = row[d]
  BY <1>7 DEF LeaseRaises, Analyze, PutReport, WorkerCrash, WorkerRestart, queue
<1>8. CASE UNCHANGED vars
  BY <1>8 DEF vars, queue
<1> QED
  BY <1>1, <1>2, <1>3, <1>4, <1>5, <1>6, <1>7, <1>8
     DEF Next, SubmitStep, WorkStep

\* A worker goes on with the job it has, claims one, or stops working.
LEMMA WorkersThatMove ==
  ASSUME StoreInv, [Next]_vars, ~Tick, NEW w \in Workers, Working(w)'
  PROVE  \/ Working(w) /\ UNCHANGED <<job[w], spent[w]>>
         \/ \E d \in Digests : Claim(w, d)
<1>0. /\ wpc \in [Workers -> {"idle", "analyze", "publish", "complete",
                              "fail", "dead", "down"}]
      /\ job \in [Workers -> Digests \cup {None}]
      /\ spent \in [Workers -> 0 .. MaxAnalysis]
  BY DEF StoreInv, TypeOK
<1>1. ASSUME NEW v \in Workers,
             \/ (\E d \in Digests : Claim(v, d))
             \/ LeaseRaises(v) \/ Analyze(v) \/ PutReport(v)
             \/ WorkerCrash(v) \/ WorkerRestart(v)
      PROVE  \/ Working(w) /\ UNCHANGED <<job[w], spent[w]>>
             \/ \E d \in Digests : Claim(w, d)
  BY <1>0, <1>1 DEF Claim, LeaseRaises, Analyze, PutReport, WorkerCrash,
                    WorkerRestart, Release, WGoto, Working
<1>2. ASSUME NEW v \in Workers, CompleteJob(v) \/ FailJob(v)
      PROVE  Working(w) /\ UNCHANGED <<job[w], spent[w]>>
  BY <1>0, <1>2 DEF CompleteJob, FailJob, Release, WGoto, Working
<1>3. ASSUME NEW s \in Submitters,
             \/ \E d \in Digests : Post(s, d)
             \/ SubmitStep(s) \/ SubmitterCrash(s)
      PROVE  Working(w) /\ UNCHANGED <<job[w], spent[w]>>
  BY <1>3 DEF Post, SubmitStep, PutBlob, Insert, Requeue, SubmitterCrash,
              workers, Working
<1>4. CASE UNCHANGED vars
  BY <1>4 DEF vars, workers, Working
<1> QED
  BY <1>1, <1>2, <1>3, <1>4 DEF Next, WorkStep

LEMMA LeaseStep ==
  ASSUME Timely, StoreInv, LeaseInv, [Next]_vars
  PROVE  LeaseInv'
<1> USE ServiceAssumption
<1>0. /\ row \in [Digests -> Row]
      /\ spent \in [Workers -> 0 .. MaxAnalysis]
      /\ \A w \in Workers : Working(w) => job[w] \in Digests
  BY DEF StoreInv, TypeOK, WorkerInv
<1>1. \A w \in Workers : Working(w) => ~Expired(job[w])
  <2> SUFFICES ASSUME NEW w \in Workers, Working(w), Expired(job[w])
               PROVE  FALSE
    OBVIOUS
  <2>1. row[job[w]].age <= spent[w] /\ spent[w] \in 0 .. MaxAnalysis
    BY <1>0 DEF LeaseInv
  <2>2. row[job[w]].age \in 0 .. LeaseTimeout + 1
    BY <1>0, RowType
  <2> QED BY <2>1, <2>2 DEF Expired, Timely
<1>2. CASE Tick
  <2> SUFFICES ASSUME NEW w \in Workers, Working(w)'
               PROVE  HeldBy(w)' /\ row'[job'[w]].age <= spent'[w]
    BY DEF LeaseInv
  <2>1. /\ Working(w) /\ job'[w] = job[w] /\ job[w] \in Digests
        /\ spent'[w] = spent[w] + 1
    BY <1>0, <1>2 DEF Tick, Working
  <2>2. /\ row[job[w]].state = "running" /\ row[job[w]].worker = w
        /\ row[job[w]].age <= spent[w]
    BY <2>1 DEF LeaseInv, HeldBy
  <2>3. row'[job[w]] = Entry("running", w, Older(row[job[w]].age))
    BY <1>2, <2>1, <2>2 DEF Tick
  <2>4. row[job[w]].age \in 0 .. LeaseTimeout + 1
    BY <1>0, <2>1, RowType
  <2>5. Older(row[job[w]].age) <= spent[w] + 1
    BY <1>0, <2>2, <2>4 DEF Older
  <2> QED BY <2>1, <2>3, <2>5 DEF HeldBy, Entry
<1>3. CASE ~Tick
  <2> SUFFICES ASSUME NEW w \in Workers, Working(w)'
               PROVE  HeldBy(w)' /\ row'[job'[w]].age <= spent'[w]
    BY DEF LeaseInv
  <2>1. CASE \E d \in Digests : Claim(w, d)
    <3>1. PICK d \in Digests : Claim(w, d)
      BY <2>1
    <3>2. /\ job'[w] = d /\ spent'[w] = 0
          /\ row'[d] = Entry("running", w, 0)
      BY <3>1 DEF Claim, StoreInv, TypeOK
    <3> QED BY <3>2 DEF HeldBy, Entry
  <2>2. CASE Working(w) /\ UNCHANGED <<job[w], spent[w]>>
    <3>1. /\ row[job[w]].state = "running" /\ row[job[w]].worker = w
          /\ row[job[w]].age <= spent[w] /\ job[w] \in Digests
      BY <1>0, <2>2 DEF LeaseInv, HeldBy
    <3>2. \/ row'[job[w]] = row[job[w]]
          \/ \E v \in Workers : /\ Working(v) /\ job[v] = job[w]
                                /\ ~Working(v)'
      BY <1>1, <1>3, <2>2, <3>1, RowsThatChange
    <3>3. \A v \in Workers : Working(v) /\ job[v] = job[w] => v = w
      BY <3>1 DEF LeaseInv, HeldBy
    <3>4. row'[job[w]] = row[job[w]]
      BY <3>2, <3>3
    <3> QED BY <2>2, <3>1, <3>4 DEF HeldBy
  <2> QED BY <1>3, <2>1, <2>2, WorkersThatMove
<1> QED BY <1>2, <1>3

LEMMA LeaseInvariant == Spec => [](Timely => LeaseInv)
<1>1. Init => (Timely => LeaseInv)
  BY DEF Init, LeaseInv, Working
<1>2. StoreInv /\ (Timely => LeaseInv) /\ [Next]_vars => (Timely => LeaseInv)'
  BY LeaseStep DEF Timely
<1> QED
  BY <1>1, <1>2, StoreInvariant, PTL DEF Spec

\* As long as no analysis outlives its lease, two workers never work on one
\* job, and the row names the worker that does (JobQueue.lease).
THEOREM ServiceExclusive == Spec => []ExclusiveUnlessOverlong
<1>1. (Timely => LeaseInv) => ExclusiveUnlessOverlong
  BY DEF Timely, LeaseInv, HeldBy, ExclusiveUnlessOverlong, Holds
<1> QED
  BY <1>1, LeaseInvariant, PTL

\* While leases are respected a completed job stays completed, and its report
\* is not written again (Resubmittable, MayFinish, put_report).
THEOREM ServiceReportFrozen == Spec => ReportFrozen
<1> USE ServiceAssumption
<1>1. ASSUME StoreInv, Timely => LeaseInv, [Next]_vars, Timely,
             NEW d \in Digests, row[d].state = "completed"
      PROVE  row'[d].state = "completed" /\ reports'[d] = reports[d]
  <2>0. /\ row \in [Digests -> Row]
        /\ reports \in [Digests -> Workers \cup {None}]
        /\ \A w \in Workers : Working(w) => job[w] \in Digests
        /\ \A s \in Submitters : spc[s] # "idle" => upload[s] \in Digests
    BY <1>1 DEF StoreInv, TypeOK, WorkerInv, SubmitterInv
  <2>1. \A w \in Workers : Working(w) => job[w] # d
    BY <1>1 DEF LeaseInv, HeldBy
  <2>2. ASSUME NEW s \in Submitters, Insert(s)
        PROVE  row'[d] = row[d] /\ reports' = reports
    BY <1>1, <2>0, <2>2, MarkType DEF Insert, RowStates, queue, store
  <2>3. ASSUME NEW s \in Submitters, Requeue(s)
        PROVE  row'[d] = row[d] /\ reports' = reports
    BY <1>1, <2>0, <2>3 DEF Requeue, Resubmittable, store
  <2>4. ASSUME NEW s \in Submitters, NEW e \in Digests,
               Post(s, e) \/ PutBlob(s) \/ SubmitterCrash(s)
        PROVE  row'[d] = row[d] /\ reports' = reports
    BY <2>4 DEF Post, PutBlob, SubmitterCrash, queue, store
  <2>5. ASSUME NEW w \in Workers, NEW e \in Digests, Claim(w, e)
        PROVE  row'[d] = row[d] /\ reports' = reports
    BY <1>1, <2>5 DEF Claim, IsOldest, Queued, Expired, store
  <2>6. ASSUME NEW w \in Workers, PutReport(w)
        PROVE  row'[d] = row[d] /\ reports'[d] = reports[d]
    BY <2>0, <2>1, <2>6 DEF PutReport, Working, queue
  <2>7. ASSUME NEW w \in Workers, CompleteJob(w) \/ FailJob(w)
        PROVE  row'[d] = row[d] /\ reports' = reports
    <3>1. Working(w) /\ job[w] \in Digests /\ job[w] # d
      BY <2>0, <2>1, <2>7 DEF CompleteJob, FailJob, Working
    <3>2. \/ row' = Mark(job[w], "completed")
          \/ row' = Mark(job[w], "failed")
          \/ row' = row
      BY <2>7 DEF CompleteJob, FailJob
    <3>3. reports' = reports
      BY <2>7 DEF CompleteJob, FailJob, store
    <3> QED BY <1>1, <2>0, <3>1, <3>2, <3>3, MarkType DEF RowStates
  <2>8. ASSUME NEW w \in Workers,
               LeaseRaises(w) \/ Analyze(w) \/ WorkerCrash(w) \/ WorkerRestart(w)
        PROVE  row'[d] = row[d] /\ reports' = reports
    BY <2>8 DEF LeaseRaises, Analyze, WorkerCrash, WorkerRestart, queue, store
  <2>9. CASE Tick
    BY <1>1, <2>9 DEF Tick, store
  <2>10. CASE UNCHANGED vars
    BY <1>1, <2>10 DEF vars, queue, store
  <2> QED
    BY <1>1, <2>2, <2>3, <2>4, <2>5, <2>6, <2>7, <2>8, <2>9, <2>10
       DEF Next, SubmitStep, WorkStep
<1>2. StoreInv /\ (Timely => LeaseInv) /\ [Next]_vars =>
        [Timely => \A d \in Digests : row[d].state = "completed" =>
           row'[d].state = "completed" /\ reports'[d] = reports[d]]_vars
  BY <1>1
<1> QED
  BY <1>2, StoreInvariant, LeaseInvariant, PTL DEF Spec, ReportFrozen, Timely

-----------------------------------------------------------------------------
(***************************************************************************)
(* The last worker.  When the database answers, a thread dies only of      *)
(* "job is not leased".  A worker that is idle, restarted, or named by the *)
(* running row of its job is safe from that, and a job leaves a safe       *)
(* worker only by a worker that becomes safe by taking it.                 *)
(***************************************************************************)
Safe(w) == Alive(w) /\ (Working(w) => HeldBy(w))

SurvivorInv == \E w \in Workers : Safe(w)

LEMMA SurvivorStep ==
  ASSUME "busy" \notin Faults, StoreInv, SurvivorInv, [Next]_vars
  PROVE  SurvivorInv'
<1>0. /\ row \in [Digests -> Row]
      /\ wpc \in [Workers -> {"idle", "analyze", "publish", "complete",
                              "fail", "dead", "down"}]
      /\ job \in [Workers -> Digests \cup {None}]
      /\ \A w \in Workers : Working(w) => job[w] \in Digests
  BY DEF StoreInv, TypeOK, WorkerInv
<1>1. PICK w \in Workers : Safe(w)
  BY DEF SurvivorInv
<1>2. CASE Tick
  <2>1. UNCHANGED <<wpc, job>>
    BY <1>2 DEF Tick
  <2>2. Working(w) => HeldBy(w)'
    BY <1>0, <1>1, <1>2, <2>1 DEF Tick, Safe, HeldBy, Entry
  <2> QED BY <1>1, <2>1, <2>2 DEF SurvivorInv, Safe, Alive, Working
<1>3. ASSUME NEW v \in Workers, NEW d \in Digests, Claim(v, d)
      PROVE  SurvivorInv'
  <2>1. row'[d] = Entry("running", v, 0) /\ job'[v] = d /\ wpc'[v] = "analyze"
    BY <1>0, <1>3 DEF Claim, WGoto
  <2> QED BY <2>1 DEF SurvivorInv, Safe, Alive, HeldBy, Entry
<1>4. ASSUME NEW v \in Workers, CompleteJob(v) \/ FailJob(v)
      PROVE  SurvivorInv'
  <2>0. Working(v) /\ job[v] \in Digests
    BY <1>0, <1>4 DEF CompleteJob, FailJob, Working
  <2>1. CASE MayFinish(v, job[v])
    <3>1. wpc'[v] = "idle"
      BY <1>0, <1>4, <2>1 DEF CompleteJob, FailJob, Release, WGoto
    <3> QED BY <3>1 DEF SurvivorInv, Safe, Alive, Working
  <2>2. CASE ~MayFinish(v, job[v])
    <3>1. row' = row /\ v # w
      BY <1>1, <1>4, <2>0, <2>2
         DEF CompleteJob, FailJob, Safe, HeldBy, MayFinish
    <3>2. wpc'[w] = wpc[w] /\ job'[w] = job[w]
      BY <1>0, <1>4, <3>1 DEF CompleteJob, FailJob, Release, WGoto
    <3> QED BY <1>1, <3>1, <3>2 DEF SurvivorInv, Safe, Alive, Working, HeldBy
  <2> QED BY <2>1, <2>2
<1>5. ASSUME NEW v \in Workers,
             Analyze(v) \/ PutReport(v) \/ WorkerCrash(v) \/ WorkerRestart(v)
      PROVE  SurvivorInv'
  <2>1. row' = row
    BY <1>5 DEF Analyze, PutReport, WorkerCrash, WorkerRestart, queue
  <2>2. \/ wpc'[w] \in {"idle", "down"}
        \/ /\ wpc'[w] = wpc[w] \/ (Working(w) /\ Working(w)')
           /\ job'[w] = job[w]
    BY <1>0, <1>5 DEF Analyze, PutReport, WorkerCrash, WorkerRestart, Release,
                      WGoto, Working
  <2> QED BY <1>1, <2>1, <2>2 DEF SurvivorInv, Safe, Alive, Working, HeldBy
<1>6. ASSUME NEW v \in Workers, LeaseRaises(v)
      PROVE  FALSE
  BY <1>6 DEF LeaseRaises
<1>7. ASSUME NEW s \in Submitters,
             \/ \E d \in Digests : Post(s, d)
             \/ SubmitStep(s) \/ SubmitterCrash(s)
      PROVE  SurvivorInv'
  <2>1. UNCHANGED <<wpc, job>>
    BY <1>7 DEF Post, SubmitStep, PutBlob, Insert, Requeue, SubmitterCrash,
                workers
  <2>2. CASE ~Working(w)
    BY <1>1, <2>1, <2>2 DEF SurvivorInv, Safe, Alive, Working
  <2>3. CASE Working(w)
    <3>1. job[w] \in Digests /\ row[job[w]].state = "running"
      BY <1>0, <1>1, <2>3 DEF Safe, HeldBy
    <3>2. row'[job[w]] = row[job[w]]
      <4>1. \A t \in Submitters : spc[t] # "idle" => upload[t] \in Digests
        BY DEF StoreInv, SubmitterInv
      <4>2. CASE Insert(s)
        BY <1>0, <3>1, <4>1, <4>2, MarkType DEF Insert, RowStates, queue
      <4>3. CASE Requeue(s)
        BY <1>0, <3>1, <4>1, <4>3 DEF Requeue, Resubmittable
      <4> QED BY <1>7, <4>2, <4>3 DEF Post, SubmitStep, PutBlob,
                                      SubmitterCrash, queue
    <3> QED BY <1>1, <2>1, <3>2 DEF SurvivorInv, Safe, Alive, Working, HeldBy
  <2> QED BY <2>2, <2>3
<1>8. CASE UNCHANGED vars
  BY <1>1, <1>8 DEF vars, queue, workers, SurvivorInv, Safe, Alive, Working,
                    HeldBy
<1> QED
  BY <1>2, <1>3, <1>4, <1>5, <1>6, <1>7, <1>8 DEF Next, WorkStep

\* A service that has a worker keeps one, through crashes and jobs that
\* outlive their leases, as long as the database answers (_worker_loop,
\* work_once).
THEOREM ServiceSurvives ==
  ASSUME Workers # {}, "busy" \notin Faults
  PROVE  Spec => []SomeWorkerSurvives
<1>1. Init => SurvivorInv
  BY DEF Init, SurvivorInv, Safe, Alive, Working
<1>2. StoreInv /\ SurvivorInv /\ [Next]_vars => SurvivorInv'
  BY SurvivorStep
<1>3. SurvivorInv => SomeWorkerSurvives
  BY DEF SurvivorInv, Safe, SomeWorkerSurvives
<1> QED
  BY <1>1, <1>2, <1>3, StoreInvariant, PTL DEF Spec

-----------------------------------------------------------------------------
(* Refinement. *)

\* Two tables with the same states are one state of the abstract jobs.
LEMMA SameJobState ==
  ASSUME \A d \in Digests : row'[d].state = row[d].state
  PROVE  JobState' = JobState
  BY DEF JobState

\* A row that changes its state is one that does in the abstract jobs.
LEMMA OtherJobState ==
  ASSUME NEW d \in Digests, NEW st,
         row'[d].state = st,
         \A e \in Digests : e # d => row'[e].state = row[e].state
  PROVE  JobState' = [JobState EXCEPT ![d] = st]
  BY DEF JobState

\* The service implements the abstract life of a job: every step of a request
\* thread, a worker or a crash is a step of JobLifecycle or a stutter.
THEOREM ServiceImplementsLifecycle == Spec => LifecycleSpec
<1> USE ServiceAssumption
<1>1. Init => Lifecycle!JobInit
  BY DEF Init, Lifecycle!JobInit, JobState, Published, Entry
<1>2. ASSUME StoreInv, [Next]_vars
      PROVE  [Lifecycle!JobNext]_<<JobState, Published>>
  <2>0. /\ row \in [Digests -> Row]
        /\ reports \in [Digests -> Workers \cup {None}]
        /\ \A w \in Workers : Working(w) => job[w] \in Digests
        /\ \A s \in Submitters : spc[s] # "idle" => upload[s] \in Digests
    BY <1>2 DEF StoreInv, TypeOK, WorkerInv, SubmitterInv
  <2>1. ASSUME NEW s \in Submitters, Insert(s)
        PROVE  Lifecycle!JobNext \/ UNCHANGED <<JobState, Published>>
    <3> DEFINE d == upload[s]
    <3>1. d \in Digests /\ Published' = Published
      BY <2>0, <2>1 DEF Insert, store, Published
    <3>2. CASE row[d].state = "absent"
      <4>1. row' = Mark(d, "queued")
        BY <2>1, <3>2 DEF Insert
      <4>2. JobState' = [JobState EXCEPT ![d] = "queued"]
        <5>1. /\ row'[d].state = "queued"
              /\ \A e \in Digests : e # d => row'[e].state = row[e].state
          BY <2>0, <3>1, <4>1, MarkType DEF RowStates
        <5> QED BY <3>1, <5>1, OtherJobState
      <4>3. Lifecycle!Submit(d)
        BY <3>1, <3>2, <4>2 DEF Lifecycle!Submit, JobState
      <4> QED BY <3>1, <4>3 DEF Lifecycle!JobNext
    <3>3. CASE row[d].state # "absent"
      BY <2>1, <3>1, <3>3, SameJobState DEF Insert, queue
    <3> QED BY <3>2, <3>3
  <2>2. ASSUME NEW s \in Submitters, Requeue(s)
        PROVE  Lifecycle!JobNext \/ UNCHANGED <<JobState, Published>>
    <3> DEFINE d == upload[s]
    <3>1. d \in Digests /\ Published' = Published
      BY <2>0, <2>2 DEF Requeue, store, Published
    <3>2. CASE row[d].state = "failed"
      <4>1. row' = [row EXCEPT ![d] = Entry("queued", None, 0)]
        BY <2>2, <3>2 DEF Requeue, Resubmittable
      <4>2. JobState' = [JobState EXCEPT ![d] = "queued"]
        BY <2>0, <3>1, <4>1, OtherJobState DEF Entry
      <4>3. Lifecycle!Submit(d)
        BY <3>1, <3>2, <4>2 DEF Lifecycle!Submit, JobState
      <4> QED BY <3>1, <4>3 DEF Lifecycle!JobNext
    <3>3. CASE row[d].state # "failed"
      BY <2>2, <3>1, <3>3, SameJobState DEF Requeue, Resubmittable
    <3> QED BY <3>2, <3>3
  <2>3. ASSUME NEW w \in Workers, NEW d \in Digests, Claim(w, d)
        PROVE  Lifecycle!JobNext
    <3> DEFINE expired == {e \in Digests : Expired(e)}
    <3>1. Published' = Published /\ Queued(d)
      BY <2>3 DEF Claim, IsOldest, store, Published
    <3>2. /\ expired \subseteq Lifecycle!InState("running")
          /\ {d} \subseteq Lifecycle!InState("queued") \cup expired
      BY <3>1 DEF Queued, Expired, Lifecycle!InState, JobState
    <3>3. JobState' = [e \in Digests |->
                         IF e \in {d} THEN "running"
                         ELSE IF e \in expired THEN "queued" ELSE JobState[e]]
      BY <2>3 DEF Claim, JobState, Entry
    <3>4. Lifecycle!Lease(expired, {d})
      BY <3>1, <3>2, <3>3 DEF Lifecycle!Lease
    <3>5. expired \in SUBSET Digests /\ {d} \in SUBSET Digests
      OBVIOUS
    <3> HIDE DEF expired
    <3> QED BY <3>4, <3>5 DEF Lifecycle!JobNext
  <2>4. ASSUME NEW w \in Workers, PutReport(w)
        PROVE  Lifecycle!JobNext \/ UNCHANGED <<JobState, Published>>
    <3>1. /\ job[w] \in Digests /\ row[job[w]].state # "absent"
          /\ JobState' = JobState
      BY <1>2, <2>4 DEF StoreInv, WorkerInv, Working, PutReport, queue, JobState
    <3>2. CASE reports' = reports
      BY <3>1, <3>2 DEF Published
    <3>3. CASE reports' = [reports EXCEPT ![job[w]] = w]
      <4>1. Published' = Published \cup {job[w]}
        BY <2>0, <3>1, <3>3 DEF Published
      <4>2. Lifecycle!Publish(job[w])
        BY <3>1, <4>1 DEF Lifecycle!Publish, JobState
      <4> QED BY <3>1, <4>2 DEF Lifecycle!JobNext
    <3> QED BY <2>4, <3>2, <3>3 DEF PutReport
  <2>5. ASSUME NEW w \in Workers, CompleteJob(w)
        PROVE  Lifecycle!JobNext \/ UNCHANGED <<JobState, Published>>
    <3>1. /\ job[w] \in Digests /\ reports[job[w]] # None
          /\ Published' = Published
      BY <1>2, <2>5 DEF StoreInv, WorkerInv, Working, CompleteJob, store,
                        Published
    <3>2. CASE UNCHANGED row
      BY <3>1, <3>2 DEF JobState
    <3>3. CASE row[job[w]].state = "running" /\ row' = Mark(job[w], "completed")
      <4>1. JobState' = [JobState EXCEPT ![job[w]] = "completed"]
        <5>1. /\ row'[job[w]].state = "completed"
              /\ \A e \in Digests : e # job[w] => row'[e].state = row[e].state
          BY <2>0, <3>1, <3>3, MarkType DEF RowStates
        <5> QED BY <3>1, <5>1, OtherJobState
      <4>2. Lifecycle!Succeed(job[w])
        BY <3>1, <3>3, <4>1 DEF Lifecycle!Succeed, JobState, Published
      <4> QED BY <3>1, <4>2 DEF Lifecycle!JobNext
    <3> QED BY <2>5, <3>2, <3>3 DEF CompleteJob, MayFinish
  <2>6. ASSUME NEW w \in Workers, FailJob(w)
        PROVE  Lifecycle!JobNext \/ UNCHANGED <<JobState, Published>>
    <3>1. job[w] \in Digests /\ Published' = Published
      BY <2>0, <2>6 DEF Working, FailJob, store, Published
    <3>2. CASE UNCHANGED row
      BY <3>1, <3>2 DEF JobState
    <3>3. CASE row[job[w]].state = "running" /\ row' = Mark(job[w], "failed")
      <4>1. JobState' = [JobState EXCEPT ![job[w]] = "failed"]
        <5>1. /\ row'[job[w]].state = "failed"
              /\ \A e \in Digests : e # job[w] => row'[e].state = row[e].state
          BY <2>0, <3>1, <3>3, MarkType DEF RowStates
        <5> QED BY <3>1, <5>1, OtherJobState
      <4>2. Lifecycle!GiveUp(job[w])
        BY <3>1, <3>3, <4>1 DEF Lifecycle!GiveUp, JobState
      <4> QED BY <3>1, <4>2 DEF Lifecycle!JobNext
    <3> QED BY <2>6, <3>2, <3>3 DEF FailJob, MayFinish
  <2>7. ASSUME NEW s \in Submitters,
               \/ \E d \in Digests : Post(s, d)
               \/ PutBlob(s) \/ SubmitterCrash(s)
        PROVE  UNCHANGED <<JobState, Published>>
    BY <2>7 DEF Post, PutBlob, SubmitterCrash, queue, store, JobState, Published
  <2>8. ASSUME NEW w \in Workers,
               LeaseRaises(w) \/ Analyze(w) \/ WorkerCrash(w) \/ WorkerRestart(w)
        PROVE  UNCHANGED <<JobState, Published>>
    BY <2>8 DEF LeaseRaises, Analyze, WorkerCrash, WorkerRestart, queue, store,
                JobState, Published
  <2>9. CASE Tick
    <3>1. \A d \in Digests : row'[d].state = row[d].state
      BY <2>9 DEF Tick, Entry
    <3> QED BY <2>9, <3>1, SameJobState DEF Tick, store, Published
  <2>10. CASE UNCHANGED vars
    BY <2>10 DEF vars, queue, store, JobState, Published
  <2> QED
    BY <1>2, <2>1, <2>2, <2>3, <2>4, <2>5, <2>6, <2>7, <2>8, <2>9, <2>10
       DEF Next, SubmitStep, WorkStep
<1>3. StoreInv /\ [Next]_vars => [Lifecycle!JobNext]_(Lifecycle!jobVars)
  BY <1>2 DEF Lifecycle!jobVars
<1> QED
  BY <1>1, <1>3, StoreInvariant, PTL DEF Spec, LifecycleSpec, Lifecycle!JobSpec

-----------------------------------------------------------------------------
(* The table and its order of arrival. *)

ArrivalInv ==
    /\ \A i, j \in DOMAIN arrivals : arrivals[i] = arrivals[j] => i = j
    /\ \A d \in Digests :
         row[d].state # "absent" <=> \E i \in DOMAIN arrivals : arrivals[i] = d
    /\ \A d \in Digests : row[d].state = "running" => row[d].worker # None

\* A row neither enters nor leaves the table, and only Claim makes it run.
LEMMA ArrivalsKept ==
  ASSUME StoreInv, ArrivalInv, UNCHANGED arrivals,
         \A d \in Digests :
           \/ row'[d].state = row[d].state /\ row'[d].worker = row[d].worker
           \/ /\ row[d].state # "absent" /\ row'[d].state # "absent"
              /\ row'[d].state = "running" => row'[d].worker # None
  PROVE  ArrivalInv'
  BY DEF ArrivalInv

LEMMA ArrivalStep ==
  ASSUME StoreInv, ArrivalInv, [Next]_vars
  PROVE  ArrivalInv'
<1> USE ServiceAssumption
<1>0. /\ row \in [Digests -> Row] /\ arrivals \in Seq(Digests)
      /\ \A w \in Workers : Working(w) => job[w] \in Digests
      /\ \A s \in Submitters : spc[s] # "idle" => upload[s] \in Digests
  BY DEF StoreInv, TypeOK, WorkerInv, SubmitterInv
<1>1. ASSUME NEW s \in Submitters, Insert(s)
      PROVE  ArrivalInv'
  <2> DEFINE d == upload[s]
  <2>1. CASE row[d].state = "absent"
    <3>1. /\ d \in Digests /\ row' = Mark(d, "queued")
          /\ arrivals' = Append(arrivals, d)
      BY <1>0, <1>1, <2>1 DEF Insert
    <3>2. /\ row'[d].state = "queued"
          /\ \A e \in Digests : e # d => row'[e] = row[e]
      BY <1>0, <3>1, MarkType DEF RowStates
    <3>3. \A i \in DOMAIN arrivals : arrivals[i] # d
      BY <2>1, <3>1 DEF ArrivalInv
    <3>4. /\ DOMAIN arrivals' = 1 .. Len(arrivals) + 1
          /\ DOMAIN arrivals = 1 .. Len(arrivals) /\ Len(arrivals) \in Nat
          /\ \A i \in 1 .. Len(arrivals) : arrivals'[i] = arrivals[i]
          /\ arrivals'[Len(arrivals) + 1] = d
      BY <1>0, <3>1
    <3> HIDE DEF d
    <3>5. \A i, j \in DOMAIN arrivals' : arrivals'[i] = arrivals'[j] => i = j
      BY <3>3, <3>4 DEF ArrivalInv
    <3>6. \A e \in Digests : row'[e].state # "absent" <=>
            \E i \in DOMAIN arrivals' : arrivals'[i] = e
      <4>1. ASSUME NEW e \in Digests, e # d
            PROVE  (\E i \in DOMAIN arrivals' : arrivals'[i] = e) <=>
                     \E i \in DOMAIN arrivals : arrivals[i] = e
        BY <3>4, <4>1
      <4>2. \E i \in DOMAIN arrivals' : arrivals'[i] = d
        BY <3>4
      <4> QED BY <3>2, <4>1, <4>2 DEF ArrivalInv
    <3>7. \A e \in Digests : row'[e].state = "running" => row'[e].worker # None
      BY <3>2 DEF ArrivalInv
    <3> QED BY <3>5, <3>6, <3>7 DEF ArrivalInv
  <2>2. CASE row[d].state # "absent"
    BY <1>1, <2>2, ArrivalsKept DEF Insert, queue
  <2> QED BY <2>1, <2>2
<1>2. ASSUME NEW s \in Submitters, Requeue(s)
      PROVE  ArrivalInv'
  BY <1>0, <1>2, ArrivalsKept DEF Requeue, Resubmittable, Entry
<1>3. ASSUME NEW w \in Workers, NEW e \in Digests, Claim(w, e)
      PROVE  ArrivalInv'
  BY <1>0, <1>3, ArrivalsKept DEF Claim, IsOldest, Queued, Expired, Entry
<1>4. ASSUME NEW w \in Workers, CompleteJob(w) \/ FailJob(w)
      PROVE  ArrivalInv'
  <2>1. /\ UNCHANGED arrivals /\ job[w] \in Digests
        /\ \/ row' = row
           \/ /\ row[job[w]].state = "running"
              /\ \/ row' = Mark(job[w], "completed")
                 \/ row' = Mark(job[w], "failed")
    BY <1>0, <1>4 DEF CompleteJob, FailJob, MayFinish, Working
  <2>2. CASE row' = row
    BY <2>1, <2>2, ArrivalsKept
  <2>3. ASSUME row[job[w]].state = "running",
               NEW st \in {"completed", "failed"}, row' = Mark(job[w], st)
        PROVE  ArrivalInv'
    <3>1. /\ row'[job[w]].state = st
          /\ \A d \in Digests : d # job[w] => row'[d] = row[d]
      BY <1>0, <2>1, <2>3, MarkType DEF RowStates
    <3> QED BY <2>1, <2>3, <3>1, ArrivalsKept
  <2> QED BY <2>1, <2>2, <2>3
<1>5. CASE Tick
  BY <1>0, <1>5, ArrivalsKept DEF Tick, Entry
<1>6. ASSUME UNCHANGED queue
      PROVE  ArrivalInv'
  BY <1>6, ArrivalsKept DEF queue
<1>7. ASSUME NEW s \in Submitters,
             \/ \E d \in Digests : Post(s, d)
             \/ PutBlob(s) \/ SubmitterCrash(s)
      PROVE  UNCHANGED queue
  BY <1>7 DEF Post, PutBlob, SubmitterCrash
<1>8. ASSUME NEW w \in Workers,
             \/ LeaseRaises(w) \/ Analyze(w) \/ PutReport(w)
             \/ WorkerCrash(w) \/ WorkerRestart(w)
      PROVE  UNCHANGED queue
  BY <1>8 DEF LeaseRaises, Analyze, PutReport, WorkerCrash, WorkerRestart
<1>9. CASE UNCHANGED vars
  BY <1>6, <1>9 DEF vars
<1> QED
  BY <1>1, <1>2, <1>3, <1>4, <1>5, <1>6, <1>7, <1>8, <1>9
     DEF Next, SubmitStep, WorkStep

\* Every row can be reached by the lease query exactly once, and one that is
\* running names who claimed it (enqueue, lease).
THEOREM ServiceQueueConsistent == Spec => []QueueConsistent
<1>1. Init => ArrivalInv
  BY DEF Init, ArrivalInv, Entry
<1>2. StoreInv /\ ArrivalInv /\ [Next]_vars => ArrivalInv'
  BY ArrivalStep
<1>3. StoreInv /\ ArrivalInv => QueueConsistent
  <2> SUFFICES ASSUME ArrivalInv, NEW d \in Digests
               PROVE  row[d].state # "absent" <=>
                        Cardinality({i \in DOMAIN arrivals : arrivals[i] = d}) = 1
    BY DEF QueueConsistent, ArrivalInv
  <2> DEFINE S == {i \in DOMAIN arrivals : arrivals[i] = d}
  <2>1. CASE row[d].state = "absent"
    <3>1. S = {}
      BY <2>1 DEF ArrivalInv
    <3> QED BY <2>1, <3>1, FS_EmptySet
  <2>2. CASE row[d].state # "absent"
    <3>1. PICK i \in DOMAIN arrivals : arrivals[i] = d
      BY <2>2 DEF ArrivalInv
    <3>2. S = {i}
      BY <3>1 DEF ArrivalInv
    <3> QED BY <2>2, <3>2, FS_Singleton
  <2> QED BY <2>1, <2>2
<1> QED
  BY <1>1, <1>2, <1>3, StoreInvariant, PTL DEF Spec
=============================================================================
