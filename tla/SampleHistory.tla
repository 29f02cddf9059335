---------------------------- MODULE SampleHistory ----------------------------
(***************************************************************************)
(* The evidence history of the desktop window: SampleArchive               *)
(* (titan_decoder/desktop_ui/sample_archive.py) under the handlers of the  *)
(* window that use it (desktop_ui/app.py).  The archive is three kinds of  *)
(* files, objects, snapshots and one index, and no operation writes more   *)
(* than one of them at a time: a kill can come between any two writes.  An *)
(* index that cannot be read, or is malformed, is read as an empty one,    *)
(* and the operation writes what it makes of that.  An analysis runs in a  *)
(* thread, and what it emits waits in the event queue of the window.       *)
(***************************************************************************)
EXTENDS Naturals, Sequences, FiniteSets

CONSTANTS
    Contents,          \* contents of evidence
    Nothing,            \* no evidence, no sample, no source
    Sources,            \* older reports that are imported once
    MaxSamples,         \* bound: samples ever recorded
    MaxRestarts,        \* bound: restarts of the process
    MaxOvertakings      \* bound: then the user loads nothing more

ASSUME HistoryAssumption ==
    /\ Nothing \notin Nat \cup Contents \cup Sources \cup {"directory", "report"}
    /\ {MaxSamples, MaxRestarts, MaxOvertakings} \subseteq Nat

VARIABLES
    archive,            \* [index, migrated, objects, snapshots]: the files
    todo,               \* writes left of the window's current operation
    after,              \* the analysis to start when they are done
    thread,             \* the running analysis: its evidence, or Nothing
    busy,               \* self.worker is set
    analysing,          \* analysis_sample_id
    signals,            \* queued signals of the thread
    nextSample, restarts,  \* counts
    dropped,            \* sources whose sample was deleted since the index
                        \* was last lost
    overtakings         \* threads started before the last one's signals were
                        \* handled (history variable)

historyVars == <<archive, todo, after, thread, busy, analysing, signals, nextSample, restarts, dropped, overtakings>>

Sample(evidence, source) ==
    [evidence |-> evidence, source |-> source, saved |-> FALSE]

NoStart == [sample |-> Nothing, evidence |-> Nothing]
Start(sample, evidence) == [sample |-> sample, evidence |-> evidence]

HistoryInit ==
    /\ archive = [index |-> <<>>, migrated |-> {}, objects |-> {}, snapshots |-> <<>>]
    /\ todo = <<>> /\ after = NoStart /\ thread = Nothing /\ busy = FALSE
    /\ analysing = Nothing /\ signals = <<>> /\ nextSample = 1 /\ restarts = 0 /\ dropped = {}
    /\ overtakings = 0

\* Writes, each of one file; an index write replaces the whole file.
Object(evidence) == [file |-> "object", evidence |-> evidence]
Index(payload) ==
    [file |-> "index", samples |-> payload.samples, migrated |-> payload.migrated, lost |-> payload.lost]
Snapshot(sample, evidence) == [file |-> "snapshot", sample |-> sample, evidence |-> evidence]
Unlink(file, key) == [file |-> file, key |-> key]

With(samples, id, sample) ==
    [i \in DOMAIN samples \cup {id} |-> IF i = id THEN sample ELSE samples[i]]
Without(samples, id) == [i \in DOMAIN samples \ {id} |-> samples[i]]

Free == todo = <<>> /\ after = NoStart
Samples == DOMAIN archive.index
\* Bound: no load after an overtaking, nor during an analysis after a restart.
MayLoad == overtakings < MaxOvertakings /\ (restarts = 0 \/ (~busy /\ signals = <<>>))

-----------------------------------------------------------------------------
(* SampleArchive *)

\* _read_payload: what is there, or nothing.
Payload(samples, migrated, lost) == [samples |-> samples, migrated |-> migrated, lost |-> lost]
IndexRead == Payload(archive.index, archive.migrated, FALSE)
NoPayload == Payload(<<>>, {}, TRUE)
Readings == {IndexRead, NoPayload}

ArchiveBytes(read, evidence) ==
    (IF evidence \in archive.objects THEN <<>> ELSE <<Object(evidence)>>)
    \o <<Index([read EXCEPT !.samples = With(@, nextSample, Sample(evidence, Nothing))])>>

SavedAs(samples, id) ==
    [i \in DOMAIN samples |-> IF i = id THEN [samples[i] EXCEPT !.saved = TRUE] ELSE samples[i]]

\* Variant: the record before the file it speaks of.
AttachIndexFirst(read, id, evidence) ==
    <<Index([read EXCEPT !.samples = SavedAs(@, id)]), Snapshot(id, evidence)>>

\* attach_snapshot: the snapshot's file first; an unknown id changes no record.
Attach(read, id, evidence) ==
    <<Snapshot(id, evidence), Index([read EXCEPT !.samples = SavedAs(@, id)])>>

\* attach_snapshot reads the index again, after the write.
ImportSnapshot(read, readable, evidence, source) ==
    LET samples == With(read.samples, nextSample, Sample(Nothing, source))
        migrated == read.migrated \cup ({source} \ {Nothing})
        again == IF readable THEN Payload(samples, migrated, FALSE) ELSE NoPayload IN
    <<Index(Payload(samples, migrated, read.lost))>> \o Attach(again, nextSample, evidence)

\* set_latest_visibility; which samples are shown is left out.
SetVisibility(read) == <<Index(read)>>

\* The object goes only when no record is left that shares it.  An index that
\* cannot be read has no such sample: nothing is written.
DeletePermanently(id) ==
    LET sample == archive.index[id]
        rest == Without(archive.index, id) IN
    <<Index(Payload(rest, archive.migrated, FALSE))>>
    \o (IF sample.saved THEN <<Unlink("unlink_snapshot", id)>> ELSE <<>>)
    \o (IF sample.evidence # Nothing /\ \A i \in DOMAIN rest : rest[i].evidence # sample.evidence
        THEN <<Unlink("unlink_object", sample.evidence)>> ELSE <<>>)

-----------------------------------------------------------------------------
(* Handlers of the window *)

\* Evidence pasted or opened is archived, then analyzed.
LoadEvidence ==
    /\ Free /\ MayLoad /\ nextSample <= MaxSamples
    /\ \E read \in Readings, e \in Contents :
         todo' = ArchiveBytes(read, e) /\ after' = Start(nextSample, e)
    /\ nextSample' = nextSample + 1
    /\ UNCHANGED <<archive, thread, busy, analysing, signals, restarts, dropped, overtakings>>

\* A directory has no evidence of its own; its snapshot becomes a new sample.
LoadDirectory ==
    /\ Free /\ MayLoad /\ nextSample <= MaxSamples
    /\ after' = Start(Nothing, "directory")
    /\ UNCHANGED <<archive, todo, thread, busy, analysing, signals, nextSample, restarts, dropped, overtakings>>

\* A sample without a saved analysis is analyzed again from its object; each
\* of the two is looked up in the index anew.
OpenArchived ==
    /\ Free /\ MayLoad
    /\ \E id \in Samples, read \in Readings, data, snapshot \in BOOLEAN :
         LET sample == archive.index[id] IN
         /\ todo' = SetVisibility(read)
         /\ after' = IF /\ data /\ ~read.lost /\ sample.evidence \in archive.objects
                        /\ ~(snapshot /\ sample.saved)
                     THEN Start(id, sample.evidence) ELSE NoStart
    /\ UNCHANGED <<archive, thread, busy, analysing, signals, nextSample, restarts, dropped, overtakings>>

RemoveFromLatest ==
    /\ Free /\ Samples # {} /\ \E read \in Readings : todo' = SetVisibility(read)
    /\ UNCHANGED <<archive, after, thread, busy, analysing, signals, nextSample, restarts, dropped, overtakings>>

\* Also while the sample is being analyzed.
DeleteSample ==
    /\ Free /\ \E id \in Samples : todo' = DeletePermanently(id)
    /\ UNCHANGED <<archive, after, thread, busy, analysing, signals, nextSample, restarts, dropped, overtakings>>

\* _migrate_existing_reports: a report of the reports directory, once.
MigrateReport ==
    /\ Free /\ nextSample <= MaxSamples
    /\ \E read \in Readings, readable \in BOOLEAN : \E s \in Sources \ read.migrated :
         todo' = ImportSnapshot(read, readable, "report", s)
    /\ nextSample' = nextSample + 1
    /\ UNCHANGED <<archive, after, thread, busy, analysing, signals, restarts, dropped, overtakings>>

\* Whether a thread runs is asked when the evidence is archived already; one
\* that has ended may have signals in the queue all the same.
StartThread ==
    /\ todo = <<>> /\ after # NoStart /\ after' = NoStart
    /\ IF busy /\ thread # Nothing THEN UNCHANGED <<thread, busy, analysing>>
       ELSE thread' = after.evidence /\ busy' = TRUE /\ analysing' = after.sample
    /\ overtakings' = overtakings + (IF signals = <<>> THEN 0 ELSE 1)
    /\ UNCHANGED <<archive, todo, signals, nextSample, restarts, dropped>>

\* AnalysisThread.run emits completed or failed; Qt emits finished after it.
ThreadEnds ==
    /\ thread # Nothing /\ thread' = Nothing
    /\ \E result \in {"completed", "failed"} :
         signals' = signals \o <<[signal |-> result, evidence |-> thread],
                                 [signal |-> "finished"]>>
    /\ UNCHANGED <<archive, todo, after, busy, analysing, nextSample, restarts, dropped, overtakings>>

\* _analysis_finished saves the snapshot under whatever sample is set now.
HandleResult ==
    /\ Free /\ signals # <<>> /\ Head(signals).signal # "finished" /\ signals' = Tail(signals)
    /\ IF Head(signals).signal = "failed" THEN UNCHANGED <<todo, nextSample>>
       ELSE IF analysing # Nothing
       THEN /\ \E read \in Readings : todo' = Attach(read, analysing, Head(signals).evidence)
            /\ UNCHANGED nextSample
       ELSE /\ \E read \in Readings, readable \in BOOLEAN :
                 todo' = ImportSnapshot(read, readable, Head(signals).evidence, Nothing)
            /\ nextSample' = nextSample + 1
    /\ UNCHANGED <<archive, after, thread, busy, analysing, restarts, dropped, overtakings>>

\* _worker_finished deletes the worker of now.  If that is another thread than
\* the one that finished, and runs, Qt aborts the process.
HandleFinished ==
    /\ Free /\ signals # <<>> /\ Head(signals).signal = "finished"
    /\ signals' = IF thread = Nothing THEN Tail(signals) ELSE <<>>
    /\ busy' = FALSE /\ analysing' = Nothing /\ thread' = Nothing
    /\ UNCHANGED <<archive, todo, after, nextSample, restarts, dropped, overtakings>>

-----------------------------------------------------------------------------
(* The disk *)

Written(files, w) ==
    CASE w.file = "object" -> [files EXCEPT !.objects = @ \cup {w.evidence}]
      [] w.file = "index" -> [files EXCEPT !.index = w.samples, !.migrated = w.migrated]
      [] w.file = "snapshot" -> [files EXCEPT !.snapshots = With(@, w.sample, w.evidence)]
      [] w.file = "unlink_snapshot" -> [files EXCEPT !.snapshots = Without(@, w.key)]
      [] w.file = "unlink_object" -> [files EXCEPT !.objects = @ \ {w.key}]

\* The sources of the records that are no longer in the index.
SourcesLost(old, new) ==
    {old.index[i].source : i \in DOMAIN old.index \ DOMAIN new.index} \ {Nothing}

\* The write of an index made from none: the list of migrated sources goes too.
Loses(w) == w.file = "index" /\ w.lost

WriteNext ==
    /\ todo # <<>> /\ archive' = Written(archive, Head(todo)) /\ todo' = Tail(todo)
    /\ dropped' = IF Loses(Head(todo)) THEN {} ELSE dropped \cup SourcesLost(archive, archive')
    /\ UNCHANGED <<after, thread, busy, analysing, signals, nextSample, restarts, overtakings>>

\* OSError: the operation is over; evidence that could not be archived is
\* analyzed without a sample.
WriteFails ==
    /\ todo # <<>> /\ todo' = <<>>
    /\ after' = IF after # NoStart /\ after.sample \notin Samples
                THEN [after EXCEPT !.sample = Nothing] ELSE NoStart
    /\ UNCHANGED <<archive, thread, busy, analysing, signals, nextSample, restarts, dropped, overtakings>>

RestartWindow ==
    /\ restarts < MaxRestarts /\ restarts' = restarts + 1
    /\ todo' = <<>> /\ after' = NoStart /\ thread' = Nothing /\ busy' = FALSE
    /\ analysing' = Nothing /\ signals' = <<>>
    /\ UNCHANGED <<archive, nextSample, dropped, overtakings>>

HistoryNext ==
    \/ LoadEvidence \/ LoadDirectory \/ OpenArchived \/ RemoveFromLatest \/ DeleteSample
    \/ MigrateReport \/ StartThread \/ ThreadEnds \/ HandleResult \/ HandleFinished
    \/ WriteNext \/ WriteFails \/ RestartWindow

HistorySpec == HistoryInit /\ [][HistoryNext]_historyVars

-----------------------------------------------------------------------------
(* Properties *)

\* Whatever is loaded, deleted, fails or is killed between two writes, while
\* an analysis runs or its signals wait, and whenever the index cannot be read:
\* a sample's evidence stays as long as a record names it, a saved analysis is
\* there, and an imported report that the user deleted does not come back,
\* unless an index read as empty was written since.  A saved analysis is the
\* one of that sample's evidence, unless a thread was ever started before the
\* signals of the one before it were handled: then it may be the other's.
HistoryKept ==
    \A id \in Samples :
      LET sample == archive.index[id] IN
      /\ sample.evidence # Nothing => sample.evidence \in archive.objects
      /\ sample.saved =>
           /\ id \in DOMAIN archive.snapshots
           /\ overtakings > 0 \/ sample.evidence \in {Nothing, archive.snapshots[id]}
      /\ sample.source \notin dropped
=============================================================================
