-------------------------- MODULE QuarantineVault --------------------------
(***************************************************************************)
(* The evidence vault, titan_decoder/core/quarantine.py, on a file system  *)
(* shared by several processes: the CLI, the workbench and deep scans      *)
(* quarantine files into the vault and restore them, each a sequence of    *)
(* file operations that interleaves with the others and may be killed      *)
(* (a crash, or a KeyboardInterrupt, which no handler of this code         *)
(* catches).  A digest is identified with the content it is the digest of. *)
(* A file is Absent, holds a content, or is incomplete: it then has as its *)
(* value the client that created it.  A failure before a copy is whole is  *)
(* a "copy" fault; fsync, the hash of a whole copy and its publication may *)
(* still raise, which is a "late" fault.                                   *)
(***************************************************************************)
EXTENDS Integers, FiniteSets

CONSTANTS
    Clients,        \* processes that use the vault
    Paths,          \* paths outside the vault
    Content,        \* file contents, and their digests
    InitialFiles,   \* InitialFiles[p]: the content of p at first, or Absent
    Absent,         \* no file
    MaxOps,         \* bound of the model: operations, less one for every kill or
                    \* write before the last one starts
    MaxKills,       \* bound of the model: killed clients
    MaxWrites,      \* bound of the model: writes by programs outside Titan
    Faults          \* what may fail: "copy", "late", "unlink", "record"

File == Content \cup Clients \cup {Absent}

ASSUME VaultAssumption ==
    /\ Content # {} /\ Paths # {}
    /\ Absent \notin Content \cup Clients
    /\ Content \cap Clients = {}
    /\ InitialFiles \in [Paths -> Content \cup {Absent}]
    /\ MaxOps \in Nat /\ MaxKills \in Nat /\ MaxWrites \in Nat
    /\ Faults \subseteq {"copy", "late", "unlink", "record"}

VARIABLES
    file,           \* file[p]: the file at p
    object,         \* object[d]: the file objects/d of the vault
    records,        \* the record files of the vault
    staged,         \* the temporary files beside destinations
    pc,             \* where each client is
    task,           \* the local variables of its operation
    ops, kills, writes,
    evidence,       \* history: every content a path has held
    replaced,       \* history: what restores that may overwrite replaced
    withdrawn,      \* history: whole objects removed by an error of the
                    \* client that made them, while others relied on them
    moves           \* history: the moves that unlinked their source, and
                    \* those that returned to their caller

disk == <<file, object, records, staged>>
bounds == <<ops, kills, writes>>
history == <<evidence, replaced, withdrawn, moves>>
vars == <<disk, pc, task, bounds, history>>

Record == [id : 1 .. MaxOps, sha256 : Content, path : Paths,
           source_removed : BOOLEAN]

\* A temporary file of operation "of"; failed: its copy did (history).
Staged == [of : 1 .. MaxOps, holds : Content \cup Clients, failed : BOOLEAN]

\* force: move for a quarantine, overwrite for a restore.
Task == [id : 0 .. MaxOps, sha256 : Content, path : Paths, force : BOOLEAN]

NoTask == [id |-> 0, sha256 |-> CHOOSE d \in Content : TRUE,
           path |-> CHOOSE p \in Paths : TRUE, force |-> FALSE]

Quarantining == {"lookup", "create", "copy", "verify", "size", "record",
                 "unlink", "update", "settle"}

Restoring == {"check", "open", "fill", "test", "stage", "fillStaged", "replace"}

\* A client that has seen the object whole, and goes on to use it.
Relying == {"size", "record", "unlink", "update", "settle", "open", "fill",
            "test", "stage", "fillStaged", "replace"}

Init ==
    /\ file = InitialFiles
    /\ object = [d \in Content |-> Absent] /\ records = {} /\ staged = {}
    /\ pc = [c \in Clients |-> "idle"]
    /\ task = [c \in Clients |-> NoTask]
    /\ ops = 0 /\ kills = 0 /\ writes = 0
    /\ evidence = {InitialFiles[p] : p \in Paths} \ {Absent}
    /\ replaced = {} /\ withdrawn = {}
    /\ moves = [unlinked |-> {}, returned |-> {}]

Goto(c, label) == pc' = [pc EXCEPT ![c] = label]

-----------------------------------------------------------------------------
(* quarantine *)

\* The source is a regular file; its digest is taken.
Quarantine(c, p, move) ==
    /\ pc[c] = "idle" /\ ops + kills + writes < MaxOps /\ file[p] \in Content
    /\ task' = [task EXCEPT ![c] = [id |-> ops + 1, sha256 |-> file[p],
                                    path |-> p, force |-> move]]
    /\ ops' = ops + 1
    /\ Goto(c, "lookup")
    /\ UNCHANGED <<disk, kills, writes, history>>

\* Variant: an existing object is not verified.
LookupTrusts(c) == LET d == task[c].sha256 IN
    /\ pc[c] = "lookup"
    /\ Goto(c, IF object[d] = Absent THEN "create" ELSE "size")
    /\ UNCHANGED <<disk, task, bounds, history>>

\* An existing object must have the digest; RuntimeError if it has not, and
\* reading it may fail.
Lookup(c) == LET d == task[c].sha256 IN
    /\ pc[c] = "lookup"
    /\ \/ object[d] = Absent /\ Goto(c, "create")
       \/ object[d] = d /\ Goto(c, "size")
       \/ object[d] # Absent /\ (object[d] # d \/ "late" \in Faults) /\ Goto(c, "idle")
    /\ UNCHANGED <<disk, task, bounds, history>>

\* os.open with O_EXCL.
CreateObject(c) == LET d == task[c].sha256 IN
    /\ pc[c] = "create"
    /\ IF object[d] = Absent
       THEN object' = [object EXCEPT ![d] = c] /\ Goto(c, "copy")
       ELSE Goto(c, "idle") /\ UNCHANGED object
    /\ UNCHANGED <<file, records, staged, task, bounds, history>>

\* The source is read again, and what was copied is visible once it is
\* flushed; a failure before that removes the object.
CopySource(c) == LET t == task[c] IN
    /\ pc[c] = "copy"
    /\ \/ /\ file[t.path] # Absent
          /\ object' = IF file[t.path] \in Content
                       THEN [object EXCEPT ![t.sha256] = file[t.path]]
                       ELSE object
          /\ Goto(c, "verify")
       \/ /\ file[t.path] = Absent \/ "copy" \in Faults
          /\ object' = [object EXCEPT ![t.sha256] = Absent] /\ Goto(c, "idle")
    /\ UNCHANGED <<file, records, staged, task, bounds, history>>

\* Variant: the copy is not verified.
VerifyObjectSkipped(c) ==
    /\ pc[c] = "verify" /\ Goto(c, "size")
    /\ UNCHANGED <<disk, task, bounds, history>>

\* Others rely on the object d of client c.
ReliedOn(d, c) ==
    \/ \E r \in records : r.sha256 = d
    \/ \E b \in Clients \ {c} : task[b].sha256 = d /\ pc[b] \in Relying

\* fsync, the hash, and the test of it; any exception removes the object, be
\* it whole and found by others meanwhile.
VerifyObject(c) == LET d == task[c].sha256 IN
    /\ pc[c] = "verify"
    /\ \/ object[d] = d /\ Goto(c, "size") /\ UNCHANGED <<object, withdrawn>>
       \/ /\ object[d] # d \/ "late" \in Faults
          /\ object' = [object EXCEPT ![d] = Absent] /\ Goto(c, "idle")
          /\ withdrawn' = withdrawn \cup
               IF object[d] = d /\ ReliedOn(d, c) THEN {d} ELSE {}
    /\ UNCHANGED <<file, records, staged, task, bounds, evidence, replaced, moves>>

\* object_path.stat() raises when the object is gone by now.
SizeObject(c) == LET d == task[c].sha256 IN
    /\ pc[c] = "size"
    /\ Goto(c, IF object[d] = Absent THEN "idle" ELSE "record")
    /\ UNCHANGED <<disk, task, bounds, history>>

RecordOf(t, removed) ==
    [id |-> t.id, sha256 |-> t.sha256, path |-> t.path,
     source_removed |-> removed]

\* _write_record replaces the record file atomically, or raises.
WriteRecord(c) == LET t == task[c] IN
    /\ pc[c] = "record"
    /\ \/ /\ records' = records \cup {RecordOf(t, FALSE)}
          /\ Goto(c, IF t.force THEN "unlink" ELSE "idle")
       \/ "record" \in Faults /\ Goto(c, "idle") /\ UNCHANGED records
    /\ UNCHANGED <<file, object, staged, task, bounds, history>>

\* source.unlink(): an OSError becomes the record's warning.
UnlinkSource(c) == LET t == task[c] IN
    /\ pc[c] = "unlink"
    /\ \/ /\ file[t.path] # Absent
          /\ file' = [file EXCEPT ![t.path] = Absent] /\ Goto(c, "update")
          /\ moves' = [moves EXCEPT !.unlinked = @ \cup {t.id}]
       \/ /\ file[t.path] = Absent \/ "unlink" \in Faults
          /\ Goto(c, "settle") /\ UNCHANGED <<file, moves>>
    /\ UNCHANGED <<object, records, staged, task, bounds, evidence, replaced, withdrawn>>

\* Variant: the record of a move says that the source was removed.
UpdateRecordBlindly(c) == LET t == task[c] IN
    /\ pc[c] \in {"update", "settle"}
    /\ \/ /\ records' = (records \ {r \in records : r.id = t.id}) \cup {RecordOf(t, TRUE)}
          /\ moves' = [moves EXCEPT !.returned = @ \cup {t.id}]
       \/ "record" \in Faults /\ UNCHANGED <<records, moves>>
    /\ Goto(c, "idle")
    /\ UNCHANGED <<file, object, staged, task, bounds, evidence, replaced, withdrawn>>

\* The record is written again with the outcome of the move.
UpdateRecord(c) == LET t == task[c] IN
    /\ pc[c] \in {"update", "settle"}
    /\ \/ /\ records' = (records \ {r \in records : r.id = t.id})
                          \cup {RecordOf(t, pc[c] = "update")}
          /\ moves' = [moves EXCEPT !.returned = @ \cup {t.id}]
       \/ "record" \in Faults /\ UNCHANGED <<records, moves>>
    /\ Goto(c, "idle")
    /\ UNCHANGED <<file, object, staged, task, bounds, evidence, replaced, withdrawn>>

-----------------------------------------------------------------------------
(* restore *)

Restore(c, r, p, overwrite) ==
    /\ pc[c] = "idle" /\ ops + kills + writes < MaxOps
    /\ task' = [task EXCEPT ![c] = [id |-> ops + 1, sha256 |-> r.sha256,
                                    path |-> p, force |-> overwrite]]
    /\ ops' = ops + 1
    /\ Goto(c, "check")
    /\ UNCHANGED <<disk, kills, writes, history>>

\* The object must be there and have the digest; RuntimeError otherwise.
CheckObject(c) == LET t == task[c] IN
    /\ pc[c] = "check"
    /\ \/ /\ object[t.sha256] = t.sha256
          /\ Goto(c, IF t.force THEN "stage" ELSE "open")
       \/ (object[t.sha256] # t.sha256 \/ "late" \in Faults) /\ Goto(c, "idle")
    /\ UNCHANGED <<disk, task, bounds, history>>

\* Variant: the destination is opened without O_EXCL.
CanCreateAnyway(p) == TRUE

\* destination.exists() and os.open with O_EXCL.
CanCreate(p) == file[p] = Absent

OpenDestination(c) == LET p == task[c].path IN
    /\ pc[c] = "open"
    /\ IF CanCreate(p)
       THEN file' = [file EXCEPT ![p] = c] /\ Goto(c, "fill")
       ELSE Goto(c, "idle") /\ UNCHANGED file
    /\ UNCHANGED <<object, records, staged, task, bounds, history>>

\* What a copy of the object d by c holds: no content while it is incomplete.
CopyOf(d, c) == IF object[d] \in Content THEN object[d] ELSE c

\* A copy into the open descriptor: it reaches the path as long as the file
\* at the path is the one that was opened.
FillDestination(c) == LET t == task[c] IN
    /\ pc[c] = "fill"
    /\ \/ /\ object[t.sha256] # Absent
          /\ file' = IF file[t.path] = c
                     THEN [file EXCEPT ![t.path] = CopyOf(t.sha256, c)] ELSE file
          /\ Goto(c, "test")
       \/ /\ object[t.sha256] = Absent \/ "copy" \in Faults
          /\ file' = [file EXCEPT ![t.path] = Absent] /\ Goto(c, "idle")
    /\ UNCHANGED <<object, records, staged, task, bounds, history>>

\* The destination is hashed by its path, and removed on a mismatch or any
\* other exception.
TestDestination(c) == LET t == task[c] IN
    /\ pc[c] = "test"
    /\ \/ file[t.path] = t.sha256 /\ UNCHANGED file
       \/ /\ file[t.path] # t.sha256 \/ "late" \in Faults
          /\ file' = [file EXCEPT ![t.path] = Absent]
    /\ Goto(c, "idle")
    /\ UNCHANGED <<object, records, staged, task, bounds, history>>

TempOf(t, holds, failed) == [of |-> t.id, holds |-> holds, failed |-> failed]
TempsOf(t) == {s \in staged : s.of = t.id}

\* --quarantine-overwrite: a temporary file beside the destination.
StageDestination(c) == LET t == task[c] IN
    /\ pc[c] = "stage"
    /\ staged' = staged \cup {TempOf(t, c, FALSE)} /\ Goto(c, "fillStaged")
    /\ UNCHANGED <<file, object, records, task, bounds, history>>

\* The copy is outside the try block: the file of a failed one stays, and
\* after a late failure it is whole.
FillStaged(c) == LET t == task[c] IN
    /\ pc[c] = "fillStaged"
    /\ \/ /\ object[t.sha256] # Absent
          /\ staged' = (staged \ TempsOf(t)) \cup {TempOf(t, CopyOf(t.sha256, c), FALSE)}
          /\ Goto(c, "replace")
       \/ /\ object[t.sha256] = Absent \/ "copy" \in Faults
          /\ staged' = (staged \ TempsOf(t)) \cup {TempOf(t, c, TRUE)}
          /\ Goto(c, "idle")
       \/ /\ object[t.sha256] # Absent /\ "late" \in Faults
          /\ staged' = (staged \ TempsOf(t)) \cup {TempOf(t, CopyOf(t.sha256, c), TRUE)}
          /\ Goto(c, "idle")
    /\ UNCHANGED <<file, object, records, task, bounds, history>>

\* Variant: a temporary file that was not moved into place stays.
ReplaceDestinationLeaves(c) == LET t == task[c] IN
    /\ pc[c] = "replace"
    /\ Goto(c, "idle")
    /\ \/ /\ \E s \in TempsOf(t) : s.holds = t.sha256
          /\ file' = [file EXCEPT ![t.path] = t.sha256]
          /\ replaced' = replaced \cup ({file[t.path]} \ {Absent})
          /\ staged' = staged \ TempsOf(t)
       \/ /\ (\A s \in TempsOf(t) : s.holds # t.sha256) \/ "late" \in Faults
          /\ UNCHANGED <<file, replaced, staged>>
    /\ UNCHANGED <<object, records, task, bounds, evidence, withdrawn, moves>>

\* The temporary file is hashed and replaces what is there, or is removed
\* (finally).
ReplaceDestination(c) == LET t == task[c] IN
    /\ pc[c] = "replace"
    /\ Goto(c, "idle")
    /\ staged' = staged \ TempsOf(t)
    /\ \/ /\ \E s \in TempsOf(t) : s.holds = t.sha256
          /\ file' = [file EXCEPT ![t.path] = t.sha256]
          /\ replaced' = replaced \cup ({file[t.path]} \ {Absent})
       \/ /\ (\A s \in TempsOf(t) : s.holds # t.sha256) \/ "late" \in Faults
          /\ UNCHANGED <<file, replaced>>
    /\ UNCHANGED <<object, records, task, bounds, evidence, withdrawn, moves>>

-----------------------------------------------------------------------------
(* The surroundings *)

\* A client is killed, or interrupted: nothing it did is undone.
Kill(c) ==
    /\ pc[c] # "idle" /\ kills < MaxKills
    /\ kills' = kills + 1 /\ Goto(c, "idle")
    /\ UNCHANGED <<disk, task, ops, writes, history>>

\* Another program rewrites a source file.
Write(p, content) ==
    /\ writes < MaxWrites /\ file[p] \in Content \ {content}
    /\ file' = [file EXCEPT ![p] = content]
    /\ writes' = writes + 1
    /\ evidence' = (evidence \ {file[p]}) \cup {content}
    /\ UNCHANGED <<object, records, staged, pc, task, ops, kills, replaced, withdrawn, moves>>

QuarantineStep(c) ==
    \/ Lookup(c) \/ CreateObject(c) \/ CopySource(c) \/ VerifyObject(c)
    \/ SizeObject(c) \/ WriteRecord(c) \/ UnlinkSource(c) \/ UpdateRecord(c)

RestoreStep(c) ==
    \/ CheckObject(c) \/ OpenDestination(c) \/ FillDestination(c)
    \/ TestDestination(c) \/ StageDestination(c) \/ FillStaged(c)
    \/ ReplaceDestination(c)

Next ==
    \/ \E c \in Clients :
         \/ \E p \in Paths, force \in BOOLEAN :
              \/ Quarantine(c, p, force)
              \/ \E r \in records : Restore(c, r, p, force)
         \/ QuarantineStep(c) \/ RestoreStep(c) \/ Kill(c)
    \/ \E p \in Paths, content \in Content : Write(p, content)

Spec == Init /\ [][Next]_vars

-----------------------------------------------------------------------------
(* Properties *)

TypeOK ==
    /\ file \in [Paths -> File] /\ object \in [Content -> File]
    /\ records \subseteq Record /\ staged \subseteq Staged
    /\ pc \in [Clients -> {"idle"} \cup Quarantining \cup Restoring]
    /\ task \in [Clients -> Task]
    /\ ops \in 0 .. MaxOps /\ kills \in 0 .. MaxKills
    /\ writes \in 0 .. MaxWrites
    /\ evidence \subseteq Content /\ replaced \subseteq Content \cup Clients
    /\ withdrawn \subseteq Content
    /\ moves \in [unlinked : SUBSET (1 .. MaxOps), returned : SUBSET (1 .. MaxOps)]

\* A content is in place, or whole in the vault.
Kept(e) == object[e] = e \/ \E p \in Paths : file[p] = e

\* No evidence is ever lost: whatever clients do at the same time and
\* wherever they are killed, a content that was on disk still is, in place or
\* whole in the vault, unless a restore was told to overwrite it ("move
\* removes the source only after the vault copy passes SHA-256
\* verification", docs/DEEP_SCAN_AND_QUARANTINE.md).
EvidenceKept == \A e \in evidence \ replaced : Kept(e)

\* The same while no other program rewrites a file that is being moved, and
\* but for what a client withdrew from the vault while others relied on it.
EvidenceKeptUnlessRewritten ==
    writes = 0 => \A e \in evidence \ (replaced \cup withdrawn) : Kept(e)

\* A record's object is whole whatever fails and whoever is killed ("A
\* recoverable record must exist before a requested move removes the
\* source", quarantine.py:108), unless the client that made it
\* met a late error while others relied on it already.  (No restore, failed
\* copy or other client's error removes it.)
RecordsRestorableUnlessWithdrawn ==
    \A r \in records : object[r.sha256] = r.sha256 \/ r.sha256 \in withdrawn

\* A record says that its source was removed only if the move did it, and the
\* record of a move that returned says so if it did.  (After a kill or a
\* failed second write the record still says that the source is in place.)
RemovalsTold ==
    \A r \in records :
      /\ r.source_removed => r.id \in moves.unlinked
      /\ r.id \in moves.returned \cap moves.unlinked => r.source_removed

\* A client is writing the object named d.
WritesObject(c, d) == pc[c] \in {"copy", "verify"} /\ task[c].sha256 = d

\* A client is writing the destination p.
WritesPath(c, p) == pc[c] \in {"fill", "test"} /\ task[c].path = p

\* An incomplete file has a client that is writing it, or is removed
\* (_copy_verified: "any interrupted or hash-mismatched destination is
\* removed below").
InterruptedCopyRemoved ==
    /\ \A d \in Content : object[d] \in {Absent, d}
                            \/ \E c \in Clients : WritesObject(c, d)
    /\ \A p \in Paths : file[p] \notin Clients
                          \/ \E c \in Clients : WritesPath(c, p)

\* An error, as opposed to a kill, leaves no incomplete object or destination
\* behind; and a temporary file stays only when its own copy failed, not when
\* it was hashed, refused or could not replace the destination.
FailedCopyRemoved ==
    kills = 0 =>
        /\ InterruptedCopyRemoved
        /\ \A s \in staged :
              \/ s.failed
              \/ \E c \in Clients : pc[c] \in {"fillStaged", "replace"} /\ task[c].id = s.of

\* "Restore refuses to replace an existing destination unless
\* --quarantine-overwrite is supplied": while nobody supplies it, and nobody
\* else writes to the destination of a running restore, no step of a restore
\* changes a file that has been written, but for a file whose content is whole
\* in the vault, or was withdrawn from it.  (That one a restore may remove: a
\* move that is still running can unlink the file the restore has open,
\* another restore puts its own file there, and the first one fails and
\* removes the destination by its path.)
RestoreKeepsExisting ==
    [][replaced' = {} /\ writes' = 0 =>
         \A p \in Paths : LET f == file[p] IN
           f \in Content \ withdrawn /\ file'[p] # f /\ object[f] # f =>
             \A c \in Clients : pc[c] \in Restoring => pc'[c] = pc[c]]_vars
=============================================================================
