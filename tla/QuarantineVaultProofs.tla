----------------------- MODULE QuarantineVaultProofs -----------------------
(***************************************************************************)
(* The vault, for any clients, paths, contents and operations.  Only the   *)
(* client that created an object with O_EXCL writes it or removes it; once *)
(* it is whole, that client removes it only after a late error.  What has  *)
(* a record is therefore whole or was withdrawn in that way, and whatever  *)
(* a move unlinks, or a restore removes after an error, has a record.      *)
(***************************************************************************)
EXTENDS QuarantineVault, TLAPS

Recorded(e) == \E r \in records : r.sha256 = e

\* The writer of an object is the only one, and the object is there.
WritersAlone ==
    /\ \A c \in Clients : pc[c] = "copy" => object[task[c].sha256] = c
    /\ \A c \in Clients : pc[c] \in {"copy", "verify"} => object[task[c].sha256] # Absent
    /\ \A b, c \in Clients :
         /\ pc[b] \in {"copy", "verify"} /\ pc[c] \in {"copy", "verify"}
         /\ task[b].sha256 = task[c].sha256
         => b = c

\* What a client relies on is whole, or was withdrawn.
ReliedOnIsWhole ==
    \A c \in Clients : pc[c] \in Relying =>
      object[task[c].sha256] = task[c].sha256 \/ task[c].sha256 \in withdrawn

\* Every operation has a number of its own, and the record with that number is
\* of its content.
Numbered ==
    /\ \A c \in Clients : task[c].id <= ops /\ (pc[c] # "idle" => task[c].id # 0)
    /\ \A b, c \in Clients : b # c => task[b].id # task[c].id \/ task[b].id = 0
    /\ \A r \in records : r.id <= ops
    /\ \A c \in Clients, r \in records : r.id = task[c].id => r.sha256 = task[c].sha256
    /\ \A i \in moves.unlinked \cup moves.returned : i <= ops

\* A move that goes on to unlink, and a restore, have a record.
HaveRecord ==
    \A c \in Clients :
      pc[c] \in Restoring \cup {"unlink", "update", "settle"} => Recorded(task[c].sha256)

\* A client that moves or restores a path finds there the content it expects,
\* or one that has a record; an object with another content than its own too.
ContentsAccounted ==
    /\ \A c \in Clients : LET f == file[task[c].path] IN
         f \in Content =>
           /\ pc[c] \in Quarantining => f = task[c].sha256 \/ Recorded(f)
           /\ pc[c] \in {"fill", "test"} => Recorded(f)
    /\ \A d \in Content : object[d] \in Content => object[d] = d \/ Recorded(object[d])

\* Evidence is recorded or in place.
EvidenceHeld ==
    \A e \in evidence \ replaced : Recorded(e) \/ \E p \in Paths : file[p] = e

\* Where a move is says whether it has unlinked its source.
MovesTold ==
    /\ \A c \in Clients : pc[c] \in Quarantining =>
         /\ task[c].id \in moves.unlinked <=> pc[c] = "update"
         /\ task[c].id \notin moves.returned
    /\ RemovalsTold

\* An incomplete file is the one its client has open.
IncompleteIsOpen ==
    /\ \A d \in Content : object[d] \in {Absent, d} \/ \E c \in Clients : WritesObject(c, d)
    /\ \A p \in Paths : file[p] \in Clients =>
         pc[file[p]] \in {"fill", "test"} /\ task[file[p]].path = p
    /\ \A s \in staged :
         \/ s.failed
         \/ \E c \in Clients : pc[c] \in {"fillStaged", "replace"} /\ task[c].id = s.of

VaultInv ==
    /\ TypeOK /\ Numbered /\ WritersAlone
    /\ ReliedOnIsWhole /\ RecordsRestorableUnlessWithdrawn /\ HaveRecord /\ MovesTold
    /\ writes = 0 => ContentsAccounted /\ EvidenceHeld
    /\ kills = 0 => IncompleteIsOpen

LEMMA VaultInvInit == Init => VaultInv
<1> SUFFICES ASSUME Init PROVE VaultInv
  OBVIOUS
<1>1. NoTask \in Task /\ NoTask.id = 0
  BY VaultAssumption DEF NoTask, Task
<1>2. TypeOK
  <2>1. file \in [Paths -> File]
    BY VaultAssumption DEF Init, File
  <2> QED
    BY <1>1, <2>1, VaultAssumption DEF Init, TypeOK, File
<1>3. \A c \in Clients : pc[c] = "idle" /\ task[c].id = 0
  BY <1>1 DEF Init
<1>4. WritersAlone /\ ReliedOnIsWhole /\ HaveRecord /\ MovesTold
  BY <1>3 DEF Init, WritersAlone, ReliedOnIsWhole, HaveRecord, MovesTold, RemovalsTold, Quarantining,
              Restoring, Relying
<1>5. RecordsRestorableUnlessWithdrawn /\ EvidenceHeld
  BY DEF Init, RecordsRestorableUnlessWithdrawn, EvidenceHeld
<1>6. IncompleteIsOpen
  BY VaultAssumption DEF Init, IncompleteIsOpen
<1>7. ContentsAccounted
  BY <1>3, VaultAssumption DEF Init, ContentsAccounted, Quarantining
<1>8. Numbered
  BY <1>3 DEF Init, Numbered
<1> QED
  BY <1>2, <1>4, <1>5, <1>6, <1>7, <1>8 DEF VaultInv

LEMMA TypesStep == TypeOK /\ Numbered /\ [Next]_vars => TypeOK'
<1> SUFFICES ASSUME TypeOK, Numbered, Next PROVE TypeOK'
  BY DEF vars, disk, bounds, history, TypeOK
<1> USE VaultAssumption DEF Goto, disk, bounds, history
<1>0. \A b \in Clients : task[b] \in Task /\ (pc[b] # "idle" => task[b].id \in 1 .. MaxOps)
  BY DEF TypeOK, Task, Numbered
<1>1. ASSUME NEW c \in Clients, NEW p \in Paths, NEW move \in BOOLEAN, Quarantine(c, p, move)
      PROVE  TypeOK'
  <2>1. [id |-> ops + 1, sha256 |-> file[p], path |-> p, force |-> move] \in Task
    BY <1>1 DEF Quarantine, TypeOK, Task
  <2> QED
    BY <1>1, <2>1 DEF Quarantine, TypeOK, Quarantining
<1>2. ASSUME NEW c \in Clients, NEW p \in Paths, NEW move \in BOOLEAN, NEW r \in records,
             Restore(c, r, p, move)
      PROVE  TypeOK'
  <2>1. [id |-> ops + 1, sha256 |-> r.sha256, path |-> p, force |-> move] \in Task
    BY <1>2 DEF Restore, TypeOK, Task, Record
  <2> QED
    BY <1>2, <2>1 DEF Restore, TypeOK, Restoring
<1>3. ASSUME NEW c \in Clients, QuarantineStep(c) PROVE TypeOK'
  <2>1. CASE Lookup(c)
    BY <2>1 DEF Lookup, TypeOK, Quarantining
  <2>2. CASE CreateObject(c)
    BY <2>2 DEF CreateObject, TypeOK, Quarantining, File
  <2>3. CASE CopySource(c)
    BY <2>3 DEF CopySource, TypeOK, Quarantining, File
  <2>4. CASE VerifyObject(c)
    <3>1. withdrawn' \subseteq Content
      BY <2>4, <1>0 DEF VerifyObject, TypeOK, Task
    <3>2. object' \in [Content -> File] /\ pc' \in [Clients -> {"idle"} \cup Quarantining \cup Restoring]
      BY <2>4 DEF VerifyObject, TypeOK, Quarantining, File
    <3> QED
      BY <2>4, <3>1, <3>2 DEF VerifyObject, TypeOK
  <2>5. CASE SizeObject(c)
    BY <2>5 DEF SizeObject, TypeOK, Quarantining
  <2>6. CASE WriteRecord(c)
    <3>1. RecordOf(task[c], FALSE) \in Record
      BY <2>6, <1>0 DEF WriteRecord, RecordOf, Record, Task
    <3>2. records' \subseteq Record
      BY <2>6, <3>1 DEF WriteRecord, TypeOK
    <3> QED
      BY <2>6, <3>2 DEF WriteRecord, TypeOK, Quarantining
  <2>7. CASE UnlinkSource(c)
    <3>1. moves' \in [unlinked : SUBSET (1 .. MaxOps), returned : SUBSET (1 .. MaxOps)]
      BY <2>7, <1>0 DEF UnlinkSource, TypeOK
    <3>2. file' \in [Paths -> File] /\ pc' \in [Clients -> {"idle"} \cup Quarantining \cup Restoring]
      BY <2>7 DEF UnlinkSource, TypeOK, Quarantining, File
    <3> QED
      BY <2>7, <3>1, <3>2 DEF UnlinkSource, TypeOK
  <2>8. CASE UpdateRecord(c)
    <3>1. \A b \in BOOLEAN : RecordOf(task[c], b) \in Record
      BY <2>8, <1>0 DEF UpdateRecord, RecordOf, Record, Task
    <3>2. records' \subseteq Record
      BY <2>8, <3>1 DEF UpdateRecord, TypeOK
    <3>3. moves' \in [unlinked : SUBSET (1 .. MaxOps), returned : SUBSET (1 .. MaxOps)]
      BY <2>8, <1>0 DEF UpdateRecord, TypeOK
    <3> QED
      BY <2>8, <3>2, <3>3 DEF UpdateRecord, TypeOK
  <2> QED
    BY <1>3, <2>1, <2>2, <2>3, <2>4, <2>5, <2>6, <2>7, <2>8 DEF QuarantineStep
<1>4. ASSUME NEW c \in Clients, RestoreStep(c) PROVE TypeOK'
  <2>0. \A d \in Content, failed \in BOOLEAN :
          /\ CopyOf(d, c) \in Content \cup Clients
          /\ pc[c] # "idle" => /\ TempOf(task[c], CopyOf(d, c), failed) \in Staged
                               /\ TempOf(task[c], c, failed) \in Staged
    BY <1>0 DEF CopyOf, TempOf, Staged
  <2>1. CASE CheckObject(c)
    BY <2>1 DEF CheckObject, TypeOK, Restoring
  <2>2. CASE OpenDestination(c)
    BY <2>2 DEF OpenDestination, TypeOK, Restoring, File
  <2>3. CASE FillDestination(c)
    <3>1. CopyOf(task[c].sha256, c) \in File
      BY <1>0, <2>0 DEF File, Task
    <3> QED
      BY <2>3, <3>1 DEF FillDestination, TypeOK, Restoring, File
  <2>4. CASE TestDestination(c)
    BY <2>4 DEF TestDestination, TypeOK, Restoring, File
  <2>5. CASE StageDestination(c)
    BY <2>5, <2>0, <1>0 DEF StageDestination, TypeOK, Restoring, Task
  <2>6. CASE FillStaged(c)
    <3>1. task[c].sha256 \in Content /\ pc[c] # "idle"
      BY <2>6, <1>0 DEF FillStaged, Task
    <3>2. \A failed \in BOOLEAN : /\ TempOf(task[c], CopyOf(task[c].sha256, c), failed) \in Staged
                                  /\ TempOf(task[c], c, failed) \in Staged
      BY <2>0, <3>1
    <3>3. staged' \subseteq Staged
      BY <2>6, <3>2 DEF FillStaged, TypeOK
    <3> QED
      BY <2>6, <3>3 DEF FillStaged, TypeOK, Restoring
  <2>7. CASE ReplaceDestination(c)
    <3>1. file' \in [Paths -> File] /\ replaced' \subseteq Content \cup Clients /\ staged' \subseteq Staged
      BY <2>7, <1>0 DEF ReplaceDestination, TypeOK, File, Task
    <3> QED
      BY <2>7, <3>1 DEF ReplaceDestination, TypeOK
  <2> QED
    BY <1>4, <2>1, <2>2, <2>3, <2>4, <2>5, <2>6, <2>7 DEF RestoreStep
<1>5. ASSUME NEW c \in Clients, Kill(c) PROVE TypeOK'
  BY <1>5 DEF Kill, TypeOK
<1>6. ASSUME NEW p \in Paths, NEW content \in Content, Write(p, content) PROVE TypeOK'
  BY <1>6 DEF Write, TypeOK, File
<1> QED
  BY <1>1, <1>2, <1>3, <1>4, <1>5, <1>6 DEF Next

\* What a step of a client leaves alone.
LEMMA OwnStep ==
  ASSUME TypeOK, NEW c \in Clients, QuarantineStep(c) \/ RestoreStep(c) \/ Kill(c)
  PROVE  /\ \A b \in Clients : b # c => pc'[b] = pc[b]
         /\ UNCHANGED <<task, ops, writes, evidence>> /\ pc[c] # "idle"
         /\ kills' = kills \/ kills' = kills + 1
         /\ replaced \subseteq replaced'
         /\ pc'[c] \in Quarantining => pc[c] \in Quarantining
         /\ pc'[c] \in Restoring => pc[c] \in Restoring
<1> USE DEF Goto, disk, bounds, history, Quarantining, Restoring, TypeOK
<1>1. CASE Lookup(c) \/ CreateObject(c) \/ CopySource(c) \/ VerifyObject(c)
  BY <1>1 DEF Lookup, CreateObject, CopySource, VerifyObject
<1>2. CASE SizeObject(c) \/ WriteRecord(c) \/ UnlinkSource(c) \/ UpdateRecord(c)
  BY <1>2 DEF SizeObject, WriteRecord, UnlinkSource, UpdateRecord
<1>3. CASE CheckObject(c) \/ OpenDestination(c) \/ FillDestination(c) \/ TestDestination(c)
  BY <1>3 DEF CheckObject, OpenDestination, FillDestination, TestDestination
<1>4. CASE StageDestination(c) \/ FillStaged(c) \/ ReplaceDestination(c) \/ Kill(c)
  BY <1>4 DEF StageDestination, FillStaged, ReplaceDestination, Kill
<1> QED
  BY <1>1, <1>2, <1>3, <1>4 DEF QuarantineStep, RestoreStep

\* Records of one number are of one content, and a content stays recorded.
LEMMA NumberedStep ==
  TypeOK /\ Numbered /\ [Next]_vars =>
    /\ Numbered'
    /\ \A e \in Content : Recorded(e) => Recorded(e)'
    /\ \A r \in records' : \/ r \in records
                           \/ \E c \in Clients : /\ pc[c] \in {"record", "update", "settle"}
                                                 /\ r.id = task[c].id /\ r.sha256 = task[c].sha256
<1> DEFINE Kept_ == \A e \in Content : Recorded(e) => Recorded(e)'
           From == \A r \in records' :
                     \/ r \in records
                     \/ \E c \in Clients : /\ pc[c] \in {"record", "update", "settle"}
                                           /\ r.id = task[c].id /\ r.sha256 = task[c].sha256
<1> SUFFICES ASSUME TypeOK, Numbered, Next PROVE Numbered' /\ Kept_ /\ From
  BY DEF vars, disk, bounds, history, TypeOK, Numbered, Recorded
<1> USE VaultAssumption DEF Goto, disk, bounds, history
<1>0. /\ ops \in Nat /\ \A b \in Clients : task[b].id \in Nat
      /\ \A r \in records : r.id \in Nat \ {0}
      /\ \A i \in moves.unlinked \cup moves.returned : i \in Nat
  BY DEF TypeOK, Task, Record
<1>1. ASSUME NEW c \in Clients, NEW p \in Paths, NEW move \in BOOLEAN, NEW r \in records \cup {0},
             Quarantine(c, p, move) \/ (r \in records /\ Restore(c, r, p, move))
      PROVE  Numbered' /\ Kept_ /\ From
  <2>1. /\ task'[c].id = ops + 1 /\ ops' = ops + 1 /\ UNCHANGED <<records, moves>>
        /\ \A b \in Clients : b # c => pc'[b] = pc[b] /\ task'[b] = task[b]
    BY <1>1 DEF Quarantine, Restore, TypeOK
  <2> QED
    BY <2>1, <1>0 DEF Numbered, Recorded
<1>3. ASSUME NEW c \in Clients, QuarantineStep(c) \/ RestoreStep(c) \/ Kill(c)
      PROVE  Numbered' /\ Kept_ /\ From
  <2>0. /\ \A b \in Clients : b # c => pc'[b] = pc[b]
        /\ UNCHANGED <<task, ops>> /\ pc[c] # "idle"
    BY <1>3, OwnStep
  <2>1. CASE WriteRecord(c)
    <3>1. RecordOf(task[c], FALSE).sha256 = task[c].sha256 /\ RecordOf(task[c], FALSE).id = task[c].id
      BY DEF RecordOf
    <3>2. /\ \A r \in records' :
              r \in records \/ (r.id = task[c].id /\ r.sha256 = task[c].sha256)
          /\ records \subseteq records' /\ UNCHANGED moves /\ pc[c] = "record"
      BY <2>1, <3>1 DEF WriteRecord
    <3>3. \A r \in records' : r.id <= ops' /\ \A b \in Clients : r.id = task'[b].id => r.sha256 = task'[b].sha256
      BY <3>2, <2>0, <1>0 DEF Numbered
    <3>4. Numbered'
      BY <3>2, <3>3, <2>0 DEF Numbered
    <3> QED
      BY <3>2, <3>4 DEF Recorded
  <2>2. CASE UpdateRecord(c)
    <3> DEFINE q == RecordOf(task[c], pc[c] = "update")
    <3>1. q.sha256 = task[c].sha256 /\ q.id = task[c].id
      BY DEF RecordOf
    <3>2. CASE UNCHANGED <<records, moves>>
      BY <3>2, <2>0 DEF Numbered, Recorded
    <3>3. CASE records' = (records \ {r \in records : r.id = task[c].id}) \cup {q}
               /\ moves' = [moves EXCEPT !.returned = @ \cup {task[c].id}]
      <4>1. moves'.unlinked = moves.unlinked /\ moves'.returned = moves.returned \cup {task[c].id}
        BY <3>3 DEF TypeOK
      <4>2. Numbered'
        BY <3>1, <3>3, <4>1, <2>0, <1>0 DEF Numbered
      <4>3. From
        BY <3>1, <3>3, <2>2 DEF UpdateRecord
      <4>4. Kept_
        <5> SUFFICES ASSUME NEW e \in Content, NEW r \in records, r.sha256 = e PROVE Recorded(e)'
          BY DEF Recorded
        <5>1. CASE r.id = task[c].id
          BY <5>1, <3>1, <3>3 DEF Numbered, Recorded
        <5>2. CASE r.id # task[c].id
          BY <5>2, <3>3 DEF Recorded
        <5> QED
          BY <5>1, <5>2
      <4> QED
        BY <4>2, <4>3, <4>4
    <3> QED
      BY <2>2, <3>2, <3>3 DEF UpdateRecord
  <2>3. CASE UnlinkSource(c)
    <3>1. /\ records' = records /\ moves'.returned = moves.returned
          /\ moves'.unlinked \subseteq moves.unlinked \cup {task[c].id}
      BY <2>3 DEF UnlinkSource, TypeOK
    <3> QED
      BY <3>1, <2>0, <1>0 DEF Numbered, Recorded
  <2>4. CASE ~WriteRecord(c) /\ ~UpdateRecord(c) /\ ~UnlinkSource(c)
    <3>1. UNCHANGED <<records, moves>>
      BY <1>3, <2>4 DEF QuarantineStep, RestoreStep, Lookup, CreateObject, CopySource, VerifyObject,
                        SizeObject, CheckObject, OpenDestination, FillDestination, TestDestination,
                        StageDestination, FillStaged, ReplaceDestination, Kill
    <3> QED
      BY <3>1, <2>0 DEF Numbered, Recorded
  <2> QED
    BY <2>1, <2>2, <2>3, <2>4
<1>4. ASSUME NEW p \in Paths, NEW content \in Content, Write(p, content)
      PROVE  Numbered' /\ Kept_ /\ From
  BY <1>4 DEF Write, Numbered, Recorded
<1> QED
  BY <1>1, <1>3, <1>4 DEF Next

\* Only the client that created an object writes or removes it; when it is
\* whole and others rely on it, removing it withdraws it.
LEMMA ObjectsStep ==
  TypeOK /\ WritersAlone /\ [Next]_vars =>
    /\ WritersAlone' /\ withdrawn \subseteq withdrawn'
    /\ \A d \in Content :
         /\ object[d] = d
         /\ Recorded(d) \/ \E b \in Clients : pc[b] \in Relying /\ task[b].sha256 = d
         => object'[d] = d \/ d \in withdrawn'
<1> DEFINE Relied_(d) == Recorded(d) \/ \E b \in Clients : pc[b] \in Relying /\ task[b].sha256 = d
           Goal == /\ WritersAlone' /\ withdrawn \subseteq withdrawn'
                   /\ \A d \in Content : object[d] = d /\ Relied_(d) => object'[d] = d \/ d \in withdrawn'
<1> SUFFICES ASSUME TypeOK, WritersAlone, Next PROVE Goal
  BY DEF vars, disk, bounds, history, TypeOK, WritersAlone
<1> USE VaultAssumption DEF Goto, disk, bounds, history
<1>1. ASSUME NEW c \in Clients, NEW p \in Paths, NEW move \in BOOLEAN, Quarantine(c, p, move)
      PROVE  Goal
  BY <1>1 DEF Quarantine, TypeOK, WritersAlone
<1>2. ASSUME NEW c \in Clients, NEW p \in Paths, NEW move \in BOOLEAN, NEW r \in records,
             Restore(c, r, p, move)
      PROVE  Goal
  BY <1>2 DEF Restore, TypeOK, WritersAlone
<1>3. ASSUME NEW c \in Clients, QuarantineStep(c) PROVE Goal
  <2>1. CASE Lookup(c)
    BY <2>1 DEF Lookup, TypeOK, WritersAlone
  <2>2. CASE CreateObject(c)
    BY <2>2 DEF CreateObject, TypeOK, WritersAlone, Task
  <2>3. CASE CopySource(c)
    BY <2>3 DEF CopySource, TypeOK, WritersAlone, Task
  <2>4. CASE VerifyObject(c)
    <3> DEFINE d == task[c].sha256
    <3>1. CASE UNCHANGED <<object, withdrawn>> /\ pc'[c] = "size"
      BY <2>4, <3>1 DEF VerifyObject, TypeOK, WritersAlone
    <3>2. CASE /\ object' = [object EXCEPT ![d] = Absent]
               /\ pc' = [pc EXCEPT ![c] = "idle"]
               /\ withdrawn' = withdrawn \cup IF object[d] = d /\ ReliedOn(d, c) THEN {d} ELSE {}
      <4>1. WritersAlone'
        BY <2>4, <3>2 DEF VerifyObject, TypeOK, WritersAlone, Task
      <4>2. Relied_(d) => ReliedOn(d, c)
        BY <2>4 DEF VerifyObject, ReliedOn, Recorded, Relying
      <4> QED
        BY <3>2, <4>1, <4>2 DEF TypeOK
    <3> QED
      BY <2>4, <3>1, <3>2 DEF VerifyObject, TypeOK
  <2>5. CASE SizeObject(c) \/ WriteRecord(c) \/ UnlinkSource(c) \/ UpdateRecord(c)
    <3>1. UNCHANGED <<object, task, withdrawn>> /\ pc'[c] \notin {"copy", "verify"}
          /\ \A b \in Clients : b # c => pc'[b] = pc[b]
      BY <2>5 DEF SizeObject, WriteRecord, UnlinkSource, UpdateRecord, TypeOK
    <3> QED
      BY <3>1 DEF WritersAlone
  <2> QED
    BY <1>3, <2>1, <2>2, <2>3, <2>4, <2>5 DEF QuarantineStep
<1>4. ASSUME NEW c \in Clients, RestoreStep(c) \/ Kill(c) PROVE Goal
  <2>1. UNCHANGED <<object, withdrawn>>
    BY <1>4 DEF RestoreStep, CheckObject, OpenDestination, FillDestination, TestDestination,
                StageDestination, FillStaged, ReplaceDestination, Kill
  <2>2. UNCHANGED task /\ \A b \in Clients : pc'[b] \in {"copy", "verify"} => pc'[b] = pc[b]
    <3>1. CASE Kill(c)
      BY <3>1 DEF Kill, TypeOK
    <3>2. CASE RestoreStep(c)
      <4>1. pc'[c] \notin {"copy", "verify"}
        BY <3>2 DEF RestoreStep, CheckObject, OpenDestination, FillDestination, TestDestination,
                    StageDestination, FillStaged, ReplaceDestination, TypeOK
      <4> QED
        BY <1>4, <4>1, OwnStep
    <3> QED
      BY <1>4, <3>1, <3>2
  <2> QED
    BY <2>1, <2>2 DEF WritersAlone
<1>5. ASSUME NEW p \in Paths, NEW content \in Content, Write(p, content) PROVE Goal
  BY <1>5 DEF Write, WritersAlone
<1> QED
  BY <1>1, <1>2, <1>3, <1>4, <1>5 DEF Next

\* What a client relies on, and what a record names, is whole or withdrawn.
LEMMA ReliedStep ==
  TypeOK /\ Numbered /\ WritersAlone /\ ReliedOnIsWhole /\ RecordsRestorableUnlessWithdrawn /\ [Next]_vars =>
    ReliedOnIsWhole' /\ RecordsRestorableUnlessWithdrawn'
<1> SUFFICES ASSUME TypeOK, Numbered, WritersAlone, ReliedOnIsWhole, RecordsRestorableUnlessWithdrawn, Next
             PROVE  ReliedOnIsWhole' /\ RecordsRestorableUnlessWithdrawn'
  BY DEF vars, disk, bounds, history, ReliedOnIsWhole, RecordsRestorableUnlessWithdrawn
<1> USE VaultAssumption DEF Goto, disk, bounds, history
<1>0. /\ \A b \in Clients : task[b].sha256 \in Content
      /\ \A r \in records : r.sha256 \in Content
      /\ withdrawn \subseteq withdrawn'
  BY ObjectsStep DEF TypeOK, Task, Record
<1>1. \A b \in Clients : pc[b] \in Relying =>
        object'[task[b].sha256] = task[b].sha256 \/ task[b].sha256 \in withdrawn'
  BY <1>0, ObjectsStep DEF ReliedOnIsWhole
<1>2. \A r \in records : object'[r.sha256] = r.sha256 \/ r.sha256 \in withdrawn'
  BY <1>0, ObjectsStep DEF RecordsRestorableUnlessWithdrawn, Recorded
<1>3. RecordsRestorableUnlessWithdrawn'
  <2> SUFFICES ASSUME NEW r \in records' PROVE object'[r.sha256] = r.sha256 \/ r.sha256 \in withdrawn'
    BY DEF RecordsRestorableUnlessWithdrawn
  <2>1. r \in records \/ \E c \in Clients : /\ pc[c] \in {"record", "update", "settle"}
                                            /\ r.sha256 = task[c].sha256
    BY NumberedStep
  <2> QED
    BY <2>1, <1>1, <1>2 DEF Relying
<1>4. ReliedOnIsWhole'
  <2> SUFFICES ASSUME NEW b \in Clients, pc'[b] \in Relying
               PROVE  object'[task'[b].sha256] = task'[b].sha256 \/ task'[b].sha256 \in withdrawn'
    BY DEF ReliedOnIsWhole
  <2>1. ASSUME NEW c \in Clients, NEW p \in Paths, NEW move \in BOOLEAN, NEW r \in records \cup {0},
               Quarantine(c, p, move) \/ (r \in records /\ Restore(c, r, p, move))
        PROVE  pc[b] \in Relying /\ task'[b] = task[b]
    BY <2>1 DEF Quarantine, Restore, TypeOK, Relying
  <2>2. ASSUME NEW c \in Clients, QuarantineStep(c) \/ RestoreStep(c) \/ Kill(c)
        PROVE  /\ task'[b] = task[b]
               /\ pc[b] \in Relying \/ object'[task[b].sha256] = task[b].sha256
    <3>1. task'[b] = task[b] /\ (b # c => pc'[b] = pc[b])
      BY <2>2, OwnStep
    <3>2. CASE b = c
      <4>1. CASE Lookup(c) \/ CreateObject(c) \/ CopySource(c) \/ VerifyObject(c)
        BY <4>1, <3>2 DEF Lookup, CreateObject, CopySource, VerifyObject, TypeOK, Relying
      <4>2. CASE SizeObject(c) \/ WriteRecord(c) \/ UnlinkSource(c) \/ UpdateRecord(c)
        BY <4>2, <3>2 DEF SizeObject, WriteRecord, UnlinkSource, UpdateRecord, TypeOK, Relying
      <4>3. CASE CheckObject(c) \/ OpenDestination(c) \/ FillDestination(c) \/ TestDestination(c)
        BY <4>3, <3>2 DEF CheckObject, OpenDestination, FillDestination, TestDestination, TypeOK, Relying
      <4>4. CASE StageDestination(c) \/ FillStaged(c) \/ ReplaceDestination(c) \/ Kill(c)
        BY <4>4, <3>2 DEF StageDestination, FillStaged, ReplaceDestination, Kill, TypeOK, Relying
      <4> QED
        BY <2>2, <3>1, <4>1, <4>2, <4>3, <4>4 DEF QuarantineStep, RestoreStep
    <3> QED
      BY <3>1, <3>2
  <2>3. ASSUME NEW p \in Paths, NEW content \in Content, Write(p, content)
        PROVE  pc[b] \in Relying /\ task'[b] = task[b]
    BY <2>3 DEF Write
  <2>4. /\ task'[b] = task[b]
        /\ pc[b] \in Relying \/ object'[task[b].sha256] = task[b].sha256
    BY <2>1, <2>2, <2>3 DEF Next
  <2> QED
    BY <2>4, <1>1
<1> QED
  BY <1>3, <1>4

\* A move that goes on to unlink its source has written its record, and a
\* restore starts from one.
LEMMA HaveRecordStep ==
  TypeOK /\ Numbered /\ HaveRecord /\ [Next]_vars => HaveRecord'
<1> SUFFICES ASSUME TypeOK, Numbered, HaveRecord, Next PROVE HaveRecord'
  BY DEF vars, disk, bounds, history, HaveRecord, Recorded
<1> USE VaultAssumption DEF Goto, disk, bounds, history
<1> DEFINE Having == Restoring \cup {"unlink", "update", "settle"}
<1> SUFFICES ASSUME NEW b \in Clients, pc'[b] \in Having
             PROVE  \E r \in records' : r.sha256 = task'[b].sha256
  BY DEF HaveRecord, Recorded
<1> DEFINE Held_ == \E r \in records' : r.sha256 = task'[b].sha256
<1>0. /\ task[b].sha256 \in Content
      /\ \A e \in Content : Recorded(e) => Recorded(e)'
  BY NumberedStep DEF TypeOK, Task
<1>1. ASSUME pc[b] \in Having, task'[b] = task[b] PROVE Held_
  BY <1>0, <1>1 DEF HaveRecord, Recorded
<1>2. ASSUME NEW c \in Clients, NEW p \in Paths, NEW move \in BOOLEAN, Quarantine(c, p, move)
      PROVE  Held_
  <2>1. pc[b] \in Having /\ task'[b] = task[b]
    BY <1>2 DEF Quarantine, TypeOK, Restoring
  <2> QED
    BY <2>1, <1>1
<1>3. ASSUME NEW c \in Clients, NEW p \in Paths, NEW move \in BOOLEAN, NEW r \in records,
             Restore(c, r, p, move)
      PROVE  Held_
  <2>1. CASE b = c
    BY <2>1, <1>3 DEF Restore, TypeOK, Recorded
  <2>2. CASE b # c
    BY <2>2, <1>3, <1>1 DEF Restore, TypeOK
  <2> QED
    BY <2>1, <2>2
<1>4. ASSUME NEW c \in Clients, QuarantineStep(c) \/ RestoreStep(c) \/ Kill(c)
      PROVE  Held_
  <2>1. /\ task'[b] = task[b] /\ (b # c => pc'[b] = pc[b])
        /\ (b = c /\ pc'[b] \in Restoring => pc[b] \in Restoring)
    BY <1>4, OwnStep
  <2>2. CASE b # c \/ pc[b] \in Having
    BY <2>1, <2>2, <1>1
  <2>3. CASE b = c /\ pc[b] \notin Having
    <3>1. pc'[c] \in {"unlink", "update", "settle"}
      BY <2>1, <2>3
    <3>2. ~RestoreStep(c) /\ ~Kill(c)
      BY <2>3, <3>1 DEF RestoreStep, CheckObject, OpenDestination, FillDestination, TestDestination,
                StageDestination, FillStaged, ReplaceDestination, Kill, TypeOK, Restoring
    <3>3. WriteRecord(c) /\ RecordOf(task[c], FALSE) \in records'
      BY <1>4, <2>3, <3>1, <3>2 DEF QuarantineStep, Lookup, CreateObject, CopySource, VerifyObject,
               SizeObject, WriteRecord, UnlinkSource, UpdateRecord, TypeOK
    <3> QED
      BY <2>1, <2>3, <3>3 DEF Recorded, RecordOf
  <2> QED
    BY <2>2, <2>3
<1>5. ASSUME NEW p \in Paths, NEW content \in Content, Write(p, content)
      PROVE  Held_
  BY <1>5, <1>1 DEF Write
<1> QED
  BY <1>2, <1>3, <1>4, <1>5 DEF Next

\* What a step of a client does to the files outside the vault: a move unlinks
\* its source, and a restore writes its destination.
LEMMA FilesStep ==
  ASSUME TypeOK, NEW c \in Clients, QuarantineStep(c) \/ RestoreStep(c) \/ Kill(c)
  PROVE  /\ \A p \in Paths : file'[p] # file[p] =>
              p = task[c].path /\ pc[c] \in {"unlink", "open", "fill", "test", "replace"}
         /\ pc[c] = "unlink" => file'[task[c].path] \in {file[task[c].path], Absent}
         /\ pc[c] = "open" /\ file'[task[c].path] # file[task[c].path] =>
              file[task[c].path] = Absent /\ file'[task[c].path] = c
         /\ pc[c] \in {"fill", "test"} =>
              file'[task[c].path] \in {file[task[c].path], Absent, CopyOf(task[c].sha256, c)}
         /\ pc[c] = "replace" /\ file'[task[c].path] # file[task[c].path] =>
              /\ file'[task[c].path] = task[c].sha256
              /\ file[task[c].path] # Absent => file[task[c].path] \in replaced'
<1> USE DEF Goto, disk, bounds, history
<1>0. file \in [Paths -> File] /\ task[c].path \in Paths
  BY DEF TypeOK, Task
<1>1. CASE Lookup(c) \/ CreateObject(c) \/ CopySource(c) \/ VerifyObject(c)
  BY <1>1 DEF Lookup, CreateObject, CopySource, VerifyObject
<1>2. CASE SizeObject(c) \/ WriteRecord(c) \/ UpdateRecord(c)
  BY <1>2 DEF SizeObject, WriteRecord, UpdateRecord
<1>3. CASE UnlinkSource(c)
  BY <1>0, <1>3 DEF UnlinkSource
<1>4. CASE OpenDestination(c)
  BY <1>0, <1>4 DEF OpenDestination, CanCreate
<1>5. CASE FillDestination(c)
  BY <1>0, <1>5 DEF FillDestination
<1>6. CASE TestDestination(c)
  BY <1>0, <1>6 DEF TestDestination
<1>7. CASE ReplaceDestination(c)
  BY <1>0, <1>7 DEF ReplaceDestination
<1>8. CASE CheckObject(c) \/ StageDestination(c) \/ FillStaged(c) \/ Kill(c)
  BY <1>8 DEF CheckObject, StageDestination, FillStaged, Kill
<1> QED
  BY <1>1, <1>2, <1>3, <1>4, <1>5, <1>6, <1>7, <1>8 DEF QuarantineStep, RestoreStep

\* While no other program writes, the file at a path that is being moved or
\* restored is the expected one or one that has a record, and no evidence is
\* lost.
LEMMA ContentsStep ==
  TypeOK /\ Numbered /\ HaveRecord /\ ContentsAccounted /\ EvidenceHeld /\ writes' = 0 /\ [Next]_vars =>
    ContentsAccounted' /\ EvidenceHeld'
<1> DEFINE Has(e) == \E r \in records' : r.sha256 = e
           Paths_ == \A b \in Clients : LET f == file'[task'[b].path] IN
                       f \in Content =>
                         /\ pc'[b] \in Quarantining => f = task'[b].sha256 \/ Has(f)
                         /\ pc'[b] \in {"fill", "test"} => Has(f)
           Objects_ == \A d \in Content : object'[d] \in Content => object'[d] = d \/ Has(object'[d])
           Evidence_ == \A e \in evidence' \ replaced' : Has(e) \/ \E p \in Paths : file'[p] = e
           Goal == Paths_ /\ Objects_ /\ Evidence_
<1> SUFFICES ASSUME TypeOK, Numbered, HaveRecord, ContentsAccounted, EvidenceHeld, writes' = 0, Next
             PROVE  Goal
  BY DEF vars, disk, bounds, history, ContentsAccounted, EvidenceHeld, Recorded
<1> USE VaultAssumption DEF Goto, disk, bounds, history
<1>0. /\ \A e \in Content : Recorded(e) => Has(e)
      /\ \A b \in Clients : task[b].sha256 \in Content /\ task[b].path \in Paths
      /\ evidence \subseteq Content
  BY NumberedStep DEF TypeOK, Task, Recorded
<1>1. ASSUME NEW c \in Clients, NEW p \in Paths, NEW move \in BOOLEAN, Quarantine(c, p, move)
      PROVE  Goal
  <2>1. /\ UNCHANGED <<file, object, records, evidence, replaced>>
        /\ task'[c].path = p /\ task'[c].sha256 = file[p] /\ pc'[c] = "lookup"
        /\ \A b \in Clients : b # c => pc'[b] = pc[b] /\ task'[b] = task[b]
    BY <1>1 DEF Quarantine, TypeOK
  <2> QED
    BY <2>1 DEF ContentsAccounted, EvidenceHeld, Recorded
<1>2. ASSUME NEW c \in Clients, NEW p \in Paths, NEW move \in BOOLEAN, NEW r \in records,
             Restore(c, r, p, move)
      PROVE  Goal
  <2>1. /\ UNCHANGED <<file, object, records, evidence, replaced>> /\ pc'[c] = "check"
        /\ \A b \in Clients : b # c => pc'[b] = pc[b] /\ task'[b] = task[b]
    BY <1>2 DEF Restore, TypeOK
  <2> QED
    BY <2>1 DEF ContentsAccounted, EvidenceHeld, Recorded, Quarantining
<1>3. ASSUME NEW c \in Clients, QuarantineStep(c) \/ RestoreStep(c) \/ Kill(c) PROVE Goal
  <2>0. /\ \A b \in Clients : b # c => pc'[b] = pc[b]
        /\ UNCHANGED <<task, evidence>> /\ replaced \subseteq replaced'
        /\ pc'[c] \in Quarantining => pc[c] \in Quarantining
    BY <1>3, OwnStep
  \* The object that a client copies is its content or has a record.
  <2>1. Objects_
    <3>1. CASE CopySource(c)
      <4>1. /\ pc[c] \in Quarantining /\ UNCHANGED <<file, records>>
            /\ \A d \in Content : object'[d] # object[d] =>
                 d = task[c].sha256 /\ object'[d] \in {Absent, file[task[c].path]}
        BY <3>1, <1>0 DEF CopySource, TypeOK, Quarantining
      <4> QED
        BY <4>1, <1>0 DEF ContentsAccounted
    <3>2. CASE ~CopySource(c)
      <4>1. \A d \in Content : object'[d] # object[d] => object'[d] \in {Absent, c}
        <5>1. CASE CreateObject(c)
          BY <5>1 DEF CreateObject, TypeOK
        <5>2. CASE VerifyObject(c)
          BY <5>2, <1>0 DEF VerifyObject, TypeOK
        <5>3. CASE ~CreateObject(c) /\ ~VerifyObject(c)
          BY <1>3, <3>2, <5>3 DEF QuarantineStep, RestoreStep, Lookup, SizeObject, WriteRecord,
                   UnlinkSource, UpdateRecord, CheckObject, OpenDestination, FillDestination,
                   TestDestination, StageDestination, FillStaged, ReplaceDestination, Kill
        <5> QED
          BY <5>1, <5>2, <5>3
      <4> QED
        BY <4>1, <1>0 DEF ContentsAccounted
    <3> QED
      BY <3>1, <3>2
  \* A file that a step takes away has a record or is replaced as asked, and
  \* one that it puts there has a record.
  <2>2. \A p \in Paths : file'[p] # file[p] =>
          /\ file[p] \in Content => Has(file[p]) \/ file[p] \in replaced'
          /\ file'[p] \in Content => Has(file'[p])
    <3> SUFFICES ASSUME NEW p \in Paths, file'[p] # file[p]
                 PROVE  /\ file[p] \in Content => Has(file[p]) \/ file[p] \in replaced'
                        /\ file'[p] \in Content => Has(file'[p])
      OBVIOUS
    <3>0. p = task[c].path /\ pc[c] \in {"unlink", "open", "fill", "test", "replace"}
      BY <1>3, FilesStep
    <3>1. Has(task[c].sha256)
      <4>1. CASE pc[c] \in {"unlink", "open", "fill", "test", "replace"}
        BY <4>1, <1>0 DEF HaveRecord, Restoring
      <4> QED
        BY <3>0, <4>1
    <3>2. CASE pc[c] = "unlink"
      BY <3>0, <3>1, <3>2, <1>0, <1>3, FilesStep DEF ContentsAccounted, Quarantining
    <3>3. CASE pc[c] = "open"
      BY <3>0, <3>3, <1>3, FilesStep
    <3>4. CASE pc[c] \in {"fill", "test"}
      <4>1. file[p] \in Content => Has(file[p])
        BY <3>0, <3>4, <1>0 DEF ContentsAccounted
      <4>2. CopyOf(task[c].sha256, c) \in Content => Has(CopyOf(task[c].sha256, c))
        BY <3>1, <1>0 DEF CopyOf, ContentsAccounted
      <4>3. file'[p] \in {file[p], Absent, CopyOf(task[c].sha256, c)}
        BY <3>0, <3>4, <1>3, FilesStep
      <4> QED
        BY <4>1, <4>2, <4>3
    <3>5. CASE pc[c] = "replace"
      BY <3>0, <3>1, <3>5, <1>3, FilesStep
    <3> QED
      BY <3>0, <3>2, <3>3, <3>4, <3>5
  <2>3. Evidence_
    <3> SUFFICES ASSUME NEW e \in evidence \ replaced' PROVE Has(e) \/ \E p \in Paths : file'[p] = e
      BY <2>0
    <3>1. Has(e) \/ \E p \in Paths : file[p] = e
      BY <1>0, <2>0 DEF EvidenceHeld
    <3> QED
      BY <3>1, <2>2, <1>0
  <2>4. Paths_
    <3> SUFFICES ASSUME NEW b \in Clients, file'[task[b].path] \in Content
                 PROVE  LET f == file'[task[b].path] IN
                          /\ pc'[b] \in Quarantining => f = task[b].sha256 \/ Has(f)
                          /\ pc'[b] \in {"fill", "test"} => Has(f)
      BY <2>0
    <3>1. CASE file'[task[b].path] # file[task[b].path]
      BY <3>1, <2>2, <1>0
    <3>2. CASE file'[task[b].path] = file[task[b].path] /\ b # c
      BY <3>2, <2>0, <1>0 DEF ContentsAccounted
    <3>3. CASE file'[task[b].path] = file[task[b].path] /\ b = c
      <4>1. pc'[c] \in Quarantining =>
              file[task[c].path] = task[c].sha256 \/ Has(file[task[c].path])
        BY <3>3, <2>0, <1>0 DEF ContentsAccounted
      <4>2. CASE pc[c] \in {"fill", "test"}
        BY <3>3, <4>1, <4>2, <1>0 DEF ContentsAccounted
      <4>3. CASE pc[c] \notin {"fill", "test"}
        <5>1. CASE OpenDestination(c)
          <6>1. file'[task[c].path] = c \/ pc'[c] = "idle"
            BY <5>1, <1>0 DEF OpenDestination, TypeOK
          <6> QED
            BY <6>1, <3>3, <4>1
        <5>2. CASE ~OpenDestination(c)
          <6>1. pc'[c] \notin {"fill", "test"}
            BY <1>3, <4>3, <5>2 DEF QuarantineStep, RestoreStep, Lookup, CreateObject, CopySource,
                   VerifyObject, SizeObject, WriteRecord, UnlinkSource, UpdateRecord, CheckObject,
                   FillDestination, TestDestination, StageDestination, FillStaged,
                   ReplaceDestination, Kill, TypeOK
          <6> QED
            BY <6>1, <3>3, <4>1
        <5> QED
          BY <5>1, <5>2
      <4> QED
        BY <4>2, <4>3
    <3> QED
      BY <3>1, <3>2, <3>3
  <2> QED
    BY <2>1, <2>3, <2>4
<1>4. ASSUME NEW p \in Paths, NEW content \in Content, Write(p, content) PROVE Goal
  BY <1>4 DEF Write, TypeOK
<1> QED
  BY <1>1, <1>2, <1>3, <1>4 DEF Next

\* What a record says of its source is what its move did.
LEMMA MovesStep ==
  TypeOK /\ Numbered /\ MovesTold /\ [Next]_vars => MovesTold'
<1> SUFFICES ASSUME TypeOK, Numbered, MovesTold, Next PROVE MovesTold'
  BY DEF vars, disk, bounds, history, MovesTold, RemovalsTold
<1> USE VaultAssumption DEF Goto, disk, bounds, history
<1>0. /\ ops \in Nat /\ \A b \in Clients : task[b].id \in Nat /\ (pc[b] # "idle" => task[b].id # 0)
      /\ \A i \in moves.unlinked \cup moves.returned : i \in Nat /\ i <= ops
      /\ \A b, c \in Clients : b # c => task[b].id # task[c].id \/ task[b].id = 0
  BY DEF TypeOK, Task, Numbered
<1>1. ASSUME NEW c \in Clients, NEW p \in Paths, NEW move \in BOOLEAN, NEW r \in records \cup {0},
             Quarantine(c, p, move) \/ (r \in records /\ Restore(c, r, p, move))
      PROVE  MovesTold'
  <2>1. /\ task'[c].id = ops + 1 /\ UNCHANGED <<records, moves>>
        /\ \A b \in Clients : b # c => pc'[b] = pc[b] /\ task'[b] = task[b]
        /\ pc'[c] # "update"
    BY <1>1 DEF Quarantine, Restore, TypeOK
  <2> QED
    BY <2>1, <1>0 DEF MovesTold, RemovalsTold
<1>2. ASSUME NEW c \in Clients, QuarantineStep(c) \/ RestoreStep(c) \/ Kill(c) PROVE MovesTold'
  <2>0. /\ \A b \in Clients : b # c => pc'[b] = pc[b]
        /\ UNCHANGED <<task, ops>> /\ pc[c] # "idle"
        /\ pc'[c] \in Quarantining => pc[c] \in Quarantining
    BY <1>2, OwnStep
  <2>1. CASE WriteRecord(c)
    <3>1. RecordOf(task[c], FALSE).source_removed = FALSE /\ RecordOf(task[c], FALSE).id = task[c].id
      BY DEF RecordOf
    <3>2. /\ \A r \in records' : r \in records \/ (~r.source_removed /\ r.id = task[c].id)
          /\ UNCHANGED moves /\ pc[c] = "record" /\ pc'[c] # "update"
      BY <2>1, <3>1 DEF WriteRecord, TypeOK
    <3>3. task[c].id \notin moves.unlinked
      BY <3>2 DEF MovesTold, Quarantining
    <3>4. RemovalsTold'
      BY <3>2, <3>3 DEF MovesTold, RemovalsTold
    <3>5. \A b \in Clients : pc'[b] \in Quarantining =>
            (task[b].id \in moves.unlinked <=> pc'[b] = "update") /\ task[b].id \notin moves.returned
      BY <3>2, <2>0 DEF MovesTold, Quarantining
    <3> QED
      BY <3>2, <3>4, <3>5, <2>0 DEF MovesTold
  <2>2. CASE UpdateRecord(c)
    <3>0. pc'[c] = "idle" /\ pc[c] \in {"update", "settle"}
      BY <2>2 DEF UpdateRecord, TypeOK
    <3>1. CASE UNCHANGED <<records, moves>>
      BY <3>0, <3>1, <2>0 DEF MovesTold, RemovalsTold, Quarantining
    <3>2. CASE /\ records' = (records \ {r \in records : r.id = task[c].id})
                               \cup {RecordOf(task[c], pc[c] = "update")}
               /\ moves' = [moves EXCEPT !.returned = @ \cup {task[c].id}]
      <4>1. /\ RecordOf(task[c], pc[c] = "update").source_removed = (pc[c] = "update")
            /\ RecordOf(task[c], pc[c] = "update").id = task[c].id
        BY DEF RecordOf
      <4>2. /\ \A r \in records' : \/ r \in records /\ r.id # task[c].id
                                   \/ r.source_removed = (pc[c] = "update") /\ r.id = task[c].id
        BY <3>2, <4>1
      <4>3. moves'.unlinked = moves.unlinked /\ moves'.returned = moves.returned \cup {task[c].id}
        BY <3>2 DEF TypeOK
      <4>4. task[c].id \in moves.unlinked <=> pc[c] = "update"
        BY <3>0 DEF MovesTold, Quarantining
      <4>5. RemovalsTold'
        BY <4>2, <4>3, <4>4 DEF MovesTold, RemovalsTold
      <4>6. \A b \in Clients : pc'[b] \in Quarantining =>
              (task[b].id \in moves.unlinked <=> pc'[b] = "update") /\ task[b].id \notin moves'.returned
        <5> SUFFICES ASSUME NEW b \in Clients, pc'[b] \in Quarantining
                     PROVE  /\ task[b].id \in moves.unlinked <=> pc'[b] = "update"
                            /\ task[b].id \notin moves'.returned
          OBVIOUS
        <5>1. b # c /\ pc'[b] = pc[b]
          BY <3>0, <2>0 DEF Quarantining
        <5>2. task[b].id # task[c].id
          BY <5>1, <1>0 DEF Quarantining
        <5> QED
          BY <5>1, <5>2, <4>3 DEF MovesTold
      <4> QED
        BY <4>3, <4>5, <4>6, <2>0 DEF MovesTold
    <3> QED
      BY <2>2, <3>1, <3>2 DEF UpdateRecord
  <2>3. CASE UnlinkSource(c)
    <3>1. /\ records' = records /\ moves'.returned = moves.returned /\ pc[c] = "unlink"
          /\ \/ pc'[c] = "update" /\ moves'.unlinked = moves.unlinked \cup {task[c].id}
             \/ pc'[c] = "settle" /\ moves'.unlinked = moves.unlinked
      BY <2>3 DEF UnlinkSource, TypeOK
    <3>2. task[c].id \notin moves.unlinked /\ task[c].id \notin moves.returned
      BY <3>1 DEF MovesTold, Quarantining
    <3>3. RemovalsTold'
      BY <3>1, <3>2 DEF MovesTold, RemovalsTold
    <3>4. \A b \in Clients : pc'[b] \in Quarantining =>
            (task[b].id \in moves'.unlinked <=> pc'[b] = "update") /\ task[b].id \notin moves.returned
      <4> SUFFICES ASSUME NEW b \in Clients, pc'[b] \in Quarantining
                   PROVE  /\ task[b].id \in moves'.unlinked <=> pc'[b] = "update"
                          /\ task[b].id \notin moves.returned
        OBVIOUS
      <4>1. CASE b = c
        BY <4>1, <3>1, <3>2
      <4>2. CASE b # c
        <5>1. pc'[b] = pc[b] /\ task[b].id # task[c].id
          BY <4>2, <2>0, <1>0 DEF Quarantining
        <5> QED
          BY <5>1, <3>1 DEF MovesTold
      <4> QED
        BY <4>1, <4>2
    <3> QED
      BY <3>1, <3>3, <3>4, <2>0 DEF MovesTold
  <2>4. CASE ~WriteRecord(c) /\ ~UpdateRecord(c) /\ ~UnlinkSource(c)
    <3>1. /\ UNCHANGED <<records, moves>>
          /\ pc'[c] \in Quarantining => pc'[c] # "update" /\ pc[c] # "update"
      BY <1>2, <2>4 DEF QuarantineStep, RestoreStep, Lookup, CreateObject, CopySource, VerifyObject,
                        SizeObject, CheckObject, OpenDestination, FillDestination, TestDestination,
                        StageDestination, FillStaged, ReplaceDestination, Kill, TypeOK, Quarantining
    <3> QED
      BY <3>1, <2>0 DEF MovesTold, RemovalsTold
  <2> QED
    BY <2>1, <2>2, <2>3, <2>4
<1>3. ASSUME NEW p \in Paths, NEW content \in Content, Write(p, content) PROVE MovesTold'
  BY <1>3 DEF Write, MovesTold, RemovalsTold
<1> QED
  BY <1>1, <1>2, <1>3 DEF Next

\* Without a kill, an incomplete file has its client, and so has a temporary
\* file whose copy did not fail.
LEMMA IncompleteStep ==
  TypeOK /\ Numbered /\ WritersAlone /\ IncompleteIsOpen /\ kills' = 0 /\ [Next]_vars
    => IncompleteIsOpen'
<1> DEFINE Objects == \A d \in Content :
                        \/ object[d] \in {Absent, d}
                        \/ \E c \in Clients : pc[c] \in {"copy", "verify"} /\ task[c].sha256 = d
           Files == \A p \in Paths : file[p] \in Clients =>
                      pc[file[p]] \in {"fill", "test"} /\ task[file[p]].path = p
           Temps == \A s \in staged :
                      \/ s.failed
                      \/ \E c \in Clients : pc[c] \in {"fillStaged", "replace"} /\ task[c].id = s.of
<1>a. (IncompleteIsOpen <=> Objects /\ Files /\ Temps) /\ (IncompleteIsOpen' <=> Objects' /\ Files' /\ Temps')
  BY DEF IncompleteIsOpen, WritesObject
<1> SUFFICES ASSUME TypeOK, Numbered, WritersAlone, Objects, Files, Temps, kills' = 0, Next
             PROVE  Objects' /\ Files' /\ Temps'
  BY <1>a DEF vars, disk, bounds, history
<1> USE VaultAssumption DEF Goto, disk, bounds, history
<1>0. \A b \in Clients : task[b].sha256 \in Content /\ task[b].path \in Paths
  BY DEF TypeOK, Task
<1>1. ASSUME NEW c \in Clients, NEW p \in Paths, NEW move \in BOOLEAN, NEW r \in records \cup {0},
             Quarantine(c, p, move) \/ (r \in records /\ Restore(c, r, p, move))
      PROVE  Objects' /\ Files' /\ Temps'
  <2>1. /\ pc[c] = "idle" /\ UNCHANGED <<file, object, staged>>
        /\ \A b \in Clients : b # c => pc'[b] = pc[b] /\ task'[b] = task[b]
    BY <1>1 DEF Quarantine, Restore, TypeOK
  <2>2. Objects'
    BY <2>1
  <2>3. Files'
    BY <2>1
  <2>4. Temps'
    BY <2>1
  <2> QED
    BY <2>2, <2>3, <2>4
<1>2. ASSUME NEW c \in Clients, NEW p \in Paths, NEW move \in BOOLEAN,
             Quarantine(c, p, move) \/ \E r \in records : Restore(c, r, p, move)
      PROVE  Objects' /\ Files' /\ Temps'
  BY <1>1, <1>2
<1>3. ASSUME NEW c \in Clients, QuarantineStep(c) PROVE Objects' /\ Files' /\ Temps'
  <2>0. /\ \A b \in Clients : b # c => pc'[b] = pc[b]
        /\ UNCHANGED <<task, staged>> /\ pc[c] \in Quarantining
        /\ \A p \in Paths : file'[p] \in {file[p], Absent}
    <3>1. CASE UnlinkSource(c)
      BY <3>1, <1>0 DEF UnlinkSource, TypeOK, Quarantining
    <3>2. CASE ~UnlinkSource(c)
      <4>1. UNCHANGED <<file, task, staged>> /\ pc[c] \in Quarantining
        BY <1>3, <3>2 DEF QuarantineStep, Lookup, CreateObject, CopySource, VerifyObject,
                          SizeObject, WriteRecord, UpdateRecord, Quarantining
      <4> QED
        BY <4>1, <1>3, OwnStep
    <3> QED
      BY <3>1, <3>2
  <2>1. Files' /\ Temps'
    BY <2>0 DEF Quarantining
  <2>2. CASE Lookup(c)
    BY <2>1, <2>2 DEF Lookup, TypeOK
  <2>3. CASE CreateObject(c)
    BY <2>0, <2>1, <2>3, <1>0 DEF CreateObject, TypeOK
  <2>4. CASE CopySource(c)
    BY <2>0, <2>1, <2>4, <1>0 DEF CopySource, TypeOK
  <2>5. CASE VerifyObject(c)
    BY <2>0, <2>1, <2>5, <1>0 DEF VerifyObject, TypeOK
  <2>6. CASE SizeObject(c) \/ WriteRecord(c) \/ UnlinkSource(c) \/ UpdateRecord(c)
    <3>1. UNCHANGED object /\ pc[c] \notin {"copy", "verify"}
      BY <2>6 DEF SizeObject, WriteRecord, UnlinkSource, UpdateRecord
    <3> QED
      BY <2>0, <2>1, <3>1
  <2> QED
    BY <1>3, <2>2, <2>3, <2>4, <2>5, <2>6 DEF QuarantineStep
<1>4. ASSUME NEW c \in Clients, RestoreStep(c) PROVE Objects' /\ Files' /\ Temps'
  <2>0. /\ \A b \in Clients : b # c => pc'[b] = pc[b]
        /\ UNCHANGED task
    BY <1>4, OwnStep
  <2>a. UNCHANGED object /\ pc[c] \notin {"copy", "verify"}
    BY <1>4 DEF RestoreStep, CheckObject, OpenDestination, FillDestination, TestDestination,
                StageDestination, FillStaged, ReplaceDestination
  <2>1. Objects'
    BY <2>0, <2>a
  <2>2. \A p \in Paths : file[p] = c => pc[c] \in {"fill", "test"} /\ task[c].path = p
    OBVIOUS
  <2>3. CASE CheckObject(c)
    BY <2>0, <2>1, <2>3 DEF CheckObject, TypeOK
  <2>4. CASE OpenDestination(c)
    BY <2>0, <2>1, <2>4, <1>0 DEF OpenDestination, TypeOK
  <2>5. CASE FillDestination(c)
    <3>1. CopyOf(task[c].sha256, c) \in Content \cup {c}
      BY DEF CopyOf
    <3>2. \/ pc'[c] = "test" /\ \A p \in Paths : file'[p] # file[p] =>
                                   p = task[c].path /\ file'[p] \in Content \cup {c}
          \/ pc'[c] = "idle" /\ file' = [file EXCEPT ![task[c].path] = Absent]
      BY <2>5, <3>1, <1>0 DEF FillDestination, TypeOK
    <3>3. Files'
      BY <2>0, <2>2, <2>5, <3>2, <1>0 DEF FillDestination, TypeOK
    <3> QED
      BY <2>0, <2>1, <2>5, <3>3 DEF FillDestination
  <2>6. CASE TestDestination(c)
    <3>1. pc'[c] = "idle" /\ (file' = [file EXCEPT ![task[c].path] = Absent]
                                \/ (UNCHANGED file /\ file[task[c].path] = task[c].sha256))
      BY <2>6 DEF TestDestination, TypeOK
    <3>2. Files'
      BY <2>0, <2>2, <3>1, <1>0 DEF TypeOK
    <3> QED
      BY <2>0, <2>1, <2>6, <3>2 DEF TestDestination
  <2>7. CASE StageDestination(c)
    <3>1. TempOf(task[c], c, FALSE).of = task[c].id
      BY DEF TempOf
    <3>2. pc'[c] = "fillStaged" /\ pc[c] = "stage" /\ UNCHANGED file
      BY <2>7 DEF StageDestination, TypeOK
    <3>3. staged' = staged \cup {TempOf(task[c], c, FALSE)}
      BY <2>7 DEF StageDestination
    <3>4. \A s \in staged' : s \in staged \/ s.of = task[c].id
      BY <3>1, <3>3
    <3>5. Files' /\ Temps'
      BY <2>0, <2>2, <3>2, <3>4
    <3> QED
      BY <2>1, <3>5
  <2>8. CASE FillStaged(c)
    <3>1. /\ pc[c] = "fillStaged" /\ UNCHANGED file
          /\ \/ /\ pc'[c] = "replace"
                /\ \E holds : staged' = (staged \ TempsOf(task[c])) \cup {TempOf(task[c], holds, FALSE)}
             \/ /\ pc'[c] = "idle"
                /\ \E holds : staged' = (staged \ TempsOf(task[c])) \cup {TempOf(task[c], holds, TRUE)}
      <4>1. \A label : pc' = [pc EXCEPT ![c] = label] => pc'[c] = label
        BY DEF TypeOK
      <4> QED
        BY <2>8, <4>1, Zenon DEF FillStaged
    <3>2. \A s \in staged : s \notin TempsOf(task[c]) => s.of # task[c].id
      BY DEF TempsOf
    <3>3. \A s \in staged' : (s \in staged /\ s.of # task[c].id) \/ s.failed
                               \/ (s.of = task[c].id /\ pc'[c] = "replace")
      <4>1. CASE pc'[c] = "replace"
        <5>1. PICK holds : staged' = (staged \ TempsOf(task[c])) \cup {TempOf(task[c], holds, FALSE)}
          BY <3>1, <4>1
        <5>2. TempOf(task[c], holds, FALSE).of = task[c].id
          BY DEF TempOf
        <5> QED
          BY <5>1, <5>2, <3>2, <4>1
      <4>2. CASE pc'[c] = "idle"
        <5>1. PICK holds : staged' = (staged \ TempsOf(task[c])) \cup {TempOf(task[c], holds, TRUE)}
          BY <3>1, <4>2
        <5>2. TempOf(task[c], holds, TRUE).failed
          BY DEF TempOf
        <5> QED
          BY <5>1, <5>2, <3>2
      <4> QED
        BY <3>1, <4>1, <4>2
    <3>4. Files' /\ Temps'
      BY <2>0, <2>2, <3>1, <3>3
    <3> QED
      BY <2>1, <3>4
  <2>9. CASE ReplaceDestination(c)
    <3>1. Temps'
      BY <2>0, <2>9 DEF ReplaceDestination, TempsOf
    <3>2. Files'
      BY <2>0, <2>2, <2>9, <1>0 DEF ReplaceDestination, TypeOK
    <3> QED
      BY <2>1, <3>1, <3>2
  <2> QED
    BY <1>4, <2>3, <2>4, <2>5, <2>6, <2>7, <2>8, <2>9 DEF RestoreStep
<1>5. ASSUME NEW c \in Clients, Kill(c) PROVE Objects' /\ Files' /\ Temps'
  BY <1>5 DEF Kill, TypeOK
<1>6. ASSUME NEW p \in Paths, NEW content \in Content, Write(p, content) PROVE Objects' /\ Files' /\ Temps'
  BY <1>6 DEF Write, TypeOK
<1> QED
  BY <1>2, <1>3, <1>4, <1>5, <1>6 DEF Next

\* writes and kills only grow, so what holds while they are zero held before.
LEMMA VaultInvStep == VaultInv /\ [Next]_vars => VaultInv'
<1> SUFFICES ASSUME VaultInv, [Next]_vars PROVE VaultInv'
  OBVIOUS
<1>1. writes \in Nat /\ kills \in Nat /\ TypeOK
  BY VaultAssumption DEF VaultInv, TypeOK
<1>2. (writes' = writes \/ writes' = writes + 1) /\ (kills' = kills \/ kills' = kills + 1)
  <2>1. ASSUME NEW c \in Clients, QuarantineStep(c) \/ RestoreStep(c) \/ Kill(c)
        PROVE  writes' = writes /\ (kills' = kills \/ kills' = kills + 1)
    BY <1>1, <2>1, OwnStep
  <2> QED
    BY <2>1 DEF Next, Quarantine, Restore, Write, vars, bounds
<1>3. (writes' = 0 => writes = 0) /\ (kills' = 0 => kills = 0)
  BY <1>1, <1>2
<1> QED
  BY <1>3, TypesStep, NumberedStep, ObjectsStep, ReliedStep, HaveRecordStep, ContentsStep, MovesStep,
     IncompleteStep DEF VaultInv

LEMMA VaultInvariant == Spec => []VaultInv
  BY VaultInvInit, VaultInvStep, PTL DEF Spec

\* Every variable has its type.
THEOREM VaultTypes == Spec => []TypeOK
  BY VaultInvariant, PTL DEF VaultInv

\* The object of every record is whole, whichever clients were killed,
\* whatever failed and whatever was written to the sources, unless the client
\* that made it removed it after a late error while others relied on it.
THEOREM RecordsStayRestorable == Spec => []RecordsRestorableUnlessWithdrawn
  BY VaultInvariant, PTL DEF VaultInv

\* A record tells of a removal that its move made, and of every one if
\* the move returned.
THEOREM RemovalsAreTold == Spec => []RemovalsTold
  BY VaultInvariant, PTL DEF VaultInv, MovesTold

\* While no other program writes to the paths, no evidence is lost by
\* any interleaving of quarantines and restores that do not overwrite it, but
\* for what was withdrawn.
THEOREM EvidenceIsKept == Spec => []EvidenceKeptUnlessRewritten
<1>1. VaultInv => EvidenceKeptUnlessRewritten
  BY DEF VaultInv, EvidenceKeptUnlessRewritten, EvidenceHeld, Recorded, Kept,
         RecordsRestorableUnlessWithdrawn
<1> QED
  BY <1>1, VaultInvariant, PTL

\* An operation that fails, and is not killed, leaves no incomplete
\* object or destination behind, and a temporary file only of a failed copy.
THEOREM FailuresCleanUp == Spec => []FailedCopyRemoved
<1>1. VaultInv => FailedCopyRemoved
  BY DEF VaultInv, IncompleteIsOpen, FailedCopyRemoved, InterruptedCopyRemoved, WritesPath, WritesObject
<1> QED
  BY <1>1, VaultInvariant, PTL

\* A restore that was not told to overwrite changes no written file,
\* but one whose content is whole in the vault or was withdrawn from it.
THEOREM RestoresKeepFiles == Spec => RestoreKeepsExisting
<1> DEFINE Keeps == replaced' = {} /\ writes' = 0 =>
                      \A p \in Paths : LET f == file[p] IN
                        f \in Content \ withdrawn /\ file'[p] # f /\ object[f] # f =>
                          \A c \in Clients : pc[c] \in Restoring => pc'[c] = pc[c]
<1>1. VaultInv /\ [Next]_vars => [Keeps]_vars
  <2> SUFFICES ASSUME VaultInv, Next, replaced' = {}, writes' = 0, NEW p \in Paths,
                      file[p] \in Content \ withdrawn, file'[p] # file[p], object[file[p]] # file[p],
                      NEW c \in Clients, pc[c] \in Restoring
               PROVE  pc'[c] = pc[c]
    BY DEF vars, disk, bounds, history
  <2> USE VaultAssumption DEF Goto, disk, bounds, history
  <2>0. /\ TypeOK /\ RecordsRestorableUnlessWithdrawn
        /\ writes = 0 => ContentsAccounted
    BY DEF VaultInv
  <2>a. ~Recorded(file[p])
    BY <2>0 DEF RecordsRestorableUnlessWithdrawn, Recorded
  <2>1. ASSUME NEW b \in Clients, QuarantineStep(b) \/ RestoreStep(b) \/ Kill(b) PROVE pc'[c] = pc[c]
    <3>1. p = task[b].path /\ pc[b] \in {"unlink", "open", "fill", "test", "replace"}
      BY <2>0, <2>1, FilesStep
    <3>2. pc[b] \notin {"open", "replace"}
      BY <2>0, <2>1, <3>1, FilesStep
    <3>3. writes = 0 /\ \A a \in Clients : a # b => pc'[a] = pc[a]
      BY <2>0, <2>1, OwnStep
    <3>4. pc[b] \notin {"fill", "test"}
      BY <2>0, <2>a, <3>1, <3>3 DEF ContentsAccounted
    <3>5. b # c
      BY <3>1, <3>2, <3>4 DEF Restoring
    <3> QED
      BY <3>3, <3>5
  <2>2. ASSUME NEW q \in Paths, NEW content \in Content, Write(q, content) PROVE FALSE
    BY <2>2, <2>0 DEF Write, TypeOK
  <2>3. ASSUME NEW b \in Clients, NEW q \in Paths, NEW force \in BOOLEAN,
               Quarantine(b, q, force) \/ (\E r \in records : Restore(b, r, q, force))
        PROVE  FALSE
    BY <2>3 DEF Quarantine, Restore
  <2> QED
    BY <2>1, <2>2, <2>3 DEF Next
<1> QED
  BY <1>1, VaultInvariant, PTL DEF Spec, RestoreKeepsExisting
=============================================================================
