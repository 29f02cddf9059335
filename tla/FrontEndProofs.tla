--------------------------- MODULE FrontEndProofs --------------------------
(***************************************************************************)
(* Theorems about what the user meets, for any number of requests, cancels,*)
(* samples, sources, panels, options, files and runs: the Debian bridge    *)
(* shows what the process of the request said; the evidence history keeps  *)
(* every saved sample through kills and damaged files; the workbench's     *)
(* panels come to agree with the snapshot they show; the correlation       *)
(* database shows the later of two runs the other; the enrichment cache is *)
(* kept and asked no more than the cooldown allows; the exit code of the   *)
(* command line tells what the run wrote; and the assistant's answers      *)
(* rest on the evidence they cite.                                         *)
(***************************************************************************)
EXTENDS DebianBridge, SampleHistory, Screens, CaseStores, Enrichment, CommandLine,
        Assistant, FiniteSetTheorems, TLAPS

-----------------------------------------------------------------------------
(* The Debian bridge *)

Exchange == {"spawn", "write", "loop", "wait", "check"}

BridgeTypes ==
    /\ bridgePc \in {"idle", "ensure"} \cup Exchange
    /\ operation \in {"capabilities", "analyze"}
    /\ process \in {"none", "running", "ended"} /\ returnCode \in {0, 1}
    /\ response \in {"none", "capabilities", "analyze"}
    /\ cancelEvent \in BOOLEAN /\ cancelledDuring \in BOOLEAN
    /\ inventory \in {"none", "compatible", "other"}
    /\ outcome \in {"none", "snapshot", "error"}

\* The exchange of an analysis sees every cancel since it began, because the
\* event is cleared only before; while the capabilities are asked for there
\* is no such cancel to see.
CancelSeen ==
    /\ bridgePc = "ensure" => ~cancelledDuring
    /\ bridgePc \in Exchange =>
         /\ operation = "capabilities" => ~cancelledDuring
         /\ operation = "analyze" =>
              /\ cancelledDuring => cancelEvent
              /\ inventory = "compatible"
         /\ response \in {"none", operation}

BridgeInv ==
    /\ BridgeTypes
    /\ CancelSeen
    /\ outcome = "snapshot" => bridgePc = "idle"
    /\ SnapshotIsAsked

LEMMA BridgeInvInit == BridgeInit => BridgeInv
  BY DEF BridgeInit, BridgeInv, BridgeTypes, CancelSeen, SnapshotIsAsked, Exchange

LEMMA LeaveKeeps ==
  ASSUME BridgeInv, NEW result \in {"snapshot", "error"}, Leave(result),
         result = "snapshot" => /\ ~cancelledDuring /\ returnCode = 0
                                /\ response = "analyze" /\ inventory = "compatible"
  PROVE  BridgeInv'
  BY DEF BridgeInv, BridgeTypes, CancelSeen, SnapshotIsAsked, Exchange, Leave, userVars

LEMMA BridgeInvStep == BridgeInv /\ [BridgeNext]_bridgeVars => BridgeInv'
<1> SUFFICES ASSUME BridgeInv, [BridgeNext]_bridgeVars PROVE BridgeInv'
  OBVIOUS
<1>1. CASE RequestAnalysis
  BY <1>1 DEF RequestAnalysis, BridgeInv, BridgeTypes, CancelSeen, SnapshotIsAsked, Exchange,
              processVars
<1>2. CASE EnsureCompatible
  BY <1>2 DEF EnsureCompatible, Begin, BridgeInv, BridgeTypes, CancelSeen, SnapshotIsAsked,
              Exchange, processVars, userVars
<1>3. CASE Spawn
  BY <1>3 DEF Spawn, BridgeInv, BridgeTypes, CancelSeen, SnapshotIsAsked, Exchange,
              processVars, userVars
<1>4. CASE Write
  <2>1. CASE Leave("error")
    BY <2>1, LeaveKeeps
  <2>2. CASE ~Leave("error")
    BY <1>4, <2>2 DEF Write, BridgeInv, BridgeTypes, CancelSeen, SnapshotIsAsked, Exchange,
                      processVars, userVars
  <2> QED
    BY <2>1, <2>2
<1>5. CASE Loop
  <2>1. CASE cancelEvent \/ overdue
    BY <1>5, <2>1, LeaveKeeps DEF Loop
  <2>2. CASE ~(cancelEvent \/ overdue) /\ lines # <<>>
    <3>1. bridgePc = "loop" /\ TakeLine(Head(lines))
      BY <1>5, <2>2 DEF Loop
    <3> QED
      BY <3>1 DEF TakeLine, BridgeInv, BridgeTypes, CancelSeen, SnapshotIsAsked, Exchange, userVars
  <2>3. CASE ~(cancelEvent \/ overdue) /\ lines = <<>>
    BY <1>5, <2>3 DEF Loop, BridgeInv, BridgeTypes, CancelSeen, SnapshotIsAsked, Exchange,
                      processVars, userVars
  <2> QED
    BY <2>1, <2>2, <2>3
<1>6. CASE Wait
  <2>1. CASE Leave("error")
    BY <2>1, LeaveKeeps
  <2>2. CASE ~Leave("error")
    BY <1>6, <2>2 DEF Wait, BridgeInv, BridgeTypes, CancelSeen, SnapshotIsAsked, Exchange,
                      processVars, userVars
  <2> QED
    BY <2>1, <2>2
<1>7. CASE Check
  <2>1. CASE cancelEvent \/ returnCode # 0 \/ response = "none"
    BY <1>7, <2>1, LeaveKeeps DEF Check
  <2>2. CASE ~(cancelEvent \/ returnCode # 0 \/ response = "none") /\ operation = "analyze"
    <3>1. /\ ~cancelledDuring /\ returnCode = 0 /\ response = "analyze"
          /\ inventory = "compatible"
      BY <1>7, <2>2 DEF Check, BridgeInv, BridgeTypes, CancelSeen, Exchange
    <3> QED
      BY <1>7, <2>2, <3>1, LeaveKeeps DEF Check
  <2>3. CASE ~(cancelEvent \/ returnCode # 0 \/ response = "none") /\ operation # "analyze"
    BY <1>7, <2>3 DEF Check, BridgeInv, BridgeTypes, CancelSeen, SnapshotIsAsked, Exchange,
                      userVars
  <2> QED
    BY <2>1, <2>2, <2>3
<1>8. CASE Say \/ CloseOutput \/ Exit
  BY <1>8 DEF Say, CloseOutput, Exit, BridgeInv, BridgeTypes, CancelSeen, SnapshotIsAsked,
              Exchange, userVars
<1>9. CASE UserCancels
  BY <1>9 DEF UserCancels, BridgeInv, BridgeTypes, CancelSeen, SnapshotIsAsked, Exchange
<1>10. CASE BridgeDeadline
  BY <1>10 DEF BridgeDeadline, BridgeInv, BridgeTypes, CancelSeen, SnapshotIsAsked, Exchange,
               processVars, userVars
<1>11. CASE UNCHANGED bridgeVars
  BY <1>11 DEF bridgeVars, BridgeInv, BridgeTypes, CancelSeen, SnapshotIsAsked, Exchange
<1> QED
  BY <1>1, <1>2, <1>3, <1>4, <1>5, <1>6, <1>7, <1>8, <1>9, <1>10, <1>11 DEF BridgeNext

\* debian_services.py: a snapshot is shown only if the process of this very
\* request said it and ended well, and the user did not cancel it, and no
\* process outlives its request.
THEOREM BridgeAnswersWhatIsAsked == BridgeSpec => []SnapshotIsAsked
<1>1. BridgeInv => SnapshotIsAsked
  BY DEF BridgeInv
<1> QED
  BY <1>1, BridgeInvInit, BridgeInvStep, PTL DEF BridgeSpec

-----------------------------------------------------------------------------
(* The evidence history.  An operation is a few writes; what has to hold    *)
(* now has to hold after each of them, because a kill may be next.          *)

Record == [evidence : Contents \cup {Nothing}, source : Sources \cup {Nothing}, saved : BOOLEAN]

\* Files that keep the history when the sources in gone were deleted by the
\* user, sample ids below next are taken, and each claim <<id, evidence>> is of
\* an analysis that will be saved under that id; loose says that a saved
\* analysis may be another sample's.
Sound(f, gone, next, loose, claims) ==
    /\ f = [index |-> f.index, migrated |-> f.migrated, objects |-> f.objects,
            snapshots |-> f.snapshots]
    /\ f.objects \subseteq Contents
    /\ gone \subseteq f.migrated /\ f.migrated \subseteq Sources
    /\ \A id \in DOMAIN f.index :
         /\ id \in 1 .. next - 1 /\ f.index[id] \in Record
         /\ f.index[id].evidence # Nothing => f.index[id].evidence \in f.objects
         /\ f.index[id].saved =>
              /\ id \in DOMAIN f.snapshots
              /\ loose \/ f.index[id].evidence \in {Nothing, f.snapshots[id]}
         /\ f.index[id].source # Nothing =>
              /\ f.index[id].source \in f.migrated \ gone
              /\ \A other \in DOMAIN f.index :
                   other # id => f.index[other].source # f.index[id].source
    /\ \A c \in claims : c[1] \in DOMAIN f.index => f.index[c[1]].evidence \in {Nothing, c[2]}

\* The deleted sources that the list of migrated ones still has after w.
Lost(f, gone, w) == IF Loses(w) THEN {} ELSE gone \cup SourcesLost(f, Written(f, w))

Sound1(f, gone, v, next, loose, claims) ==
    /\ Sound(f, gone, next, loose, claims)
    /\ Sound(Written(f, v), Lost(f, gone, v), next, loose, claims)
Sound2(f, gone, v, w, next, loose, claims) ==
    /\ Sound(f, gone, next, loose, claims)
    /\ Sound1(Written(f, v), Lost(f, gone, v), w, next, loose, claims)
Sound3(f, gone, v, w, x, next, loose, claims) ==
    /\ Sound(f, gone, next, loose, claims)
    /\ Sound2(Written(f, v), Lost(f, gone, v), w, x, next, loose, claims)

\* Sound now, and after each of the writes to come.
SoundAhead(f, gone, writes, next, loose, claims) ==
    /\ writes = [k \in 1 .. Len(writes) |-> writes[k]] /\ Len(writes) \in 0 .. 3
    /\ Len(writes) = 0 => Sound(f, gone, next, loose, claims)
    /\ Len(writes) = 1 => Sound1(f, gone, writes[1], next, loose, claims)
    /\ Len(writes) = 2 => Sound2(f, gone, writes[1], writes[2], next, loose, claims)
    /\ Len(writes) = 3 => Sound3(f, gone, writes[1], writes[2], writes[3], next, loose, claims)

Finished == [signal |-> "finished"]
Evidence == Contents \cup {"directory"}
Taken == 1 .. nextSample - 1

HistoryTypes ==
    /\ nextSample \in Nat \ {0} /\ overtakings \in Nat
    /\ analysing \in Taken \cup {Nothing}
    /\ thread \in Evidence \cup {Nothing}
    /\ after \in [sample : Taken \cup {Nothing}, evidence : Evidence \cup {Nothing}]
    \* As long as no thread overtook, what waits is what the last one emitted.
    /\ overtakings = 0 =>
         \/ signals = <<>>
         \/ thread = Nothing /\ signals = <<Finished>>
         \/ /\ thread = Nothing
            /\ \E r \in {"completed", "failed"}, e \in Evidence :
                 signals = <<[signal |-> r, evidence |-> e], Finished>>

\* Whose analysis is to be saved under which sample.
Claims ==
    {<<after.sample, after.evidence>>}
    \cup (IF overtakings = 0 /\ thread # Nothing THEN {<<analysing, thread>>} ELSE {})
    \cup (IF overtakings = 0 /\ signals # <<>> /\ Head(signals).signal # "finished"
          THEN {<<analysing, Head(signals).evidence>>} ELSE {})

Loose == overtakings > 0

HistoryInv ==
    /\ HistoryTypes
    /\ SoundAhead(archive, dropped, todo, nextSample, Loose, Claims)

LEMMA Pairs == ASSUME NEW a, NEW b PROVE <<a>> \o <<b>> = <<a, b>>
<1> DEFINE S == {a, b}
           s == <<a>> \o <<b>>
<1>1. <<a>> \in Seq(S) /\ <<b>> \in Seq(S) /\ <<a, b>> \in Seq(S)
  OBVIOUS
<1>2. s \in Seq(S) /\ Len(s) = 2 /\ \A k \in 1 .. 2 : s[k] = <<a, b>>[k]
  BY <1>1
<1>3. s \in [1 .. 2 -> S] /\ <<a, b>> \in [1 .. 2 -> S]
  <2> HIDE DEF s
  <2> QED BY <1>2
<1> HIDE DEF s
<1>4. s = <<a, b>>
  BY <1>2, <1>3
<1> QED
  BY <1>4 DEF s

LEMMA Triples ==
  ASSUME NEW a, NEW b, NEW c
  PROVE  <<a>> \o <<b, c>> = <<a, b, c>> /\ <<a, b>> \o <<c>> = <<a, b, c>>
<1> DEFINE S == {a, b, c}
           s == <<a>> \o <<b, c>>
           t == <<a, b>> \o <<c>>
<1>1. /\ <<a>> \in Seq(S) /\ <<b, c>> \in Seq(S) /\ <<a, b, c>> \in Seq(S)
      /\ <<a, b>> \in Seq(S) /\ <<c>> \in Seq(S)
  OBVIOUS
<1>2. s \in Seq(S) /\ Len(s) = 3 /\ \A k \in 1 .. 3 : s[k] = <<a, b, c>>[k]
  BY <1>1
<1>3. t \in Seq(S) /\ Len(t) = 3 /\ \A k \in 1 .. 3 : t[k] = <<a, b, c>>[k]
  BY <1>1
<1>4. s \in [1 .. 3 -> S] /\ t \in [1 .. 3 -> S] /\ <<a, b, c>> \in [1 .. 3 -> S]
  <2> HIDE DEF s, t
  <2> QED BY <1>2, <1>3
<1> HIDE DEF s, t
<1>5. s = <<a, b, c>> /\ t = <<a, b, c>>
  BY <1>2, <1>3, <1>4
<1> QED
  BY <1>5 DEF s, t

LEMMA Shapes ==
  ASSUME NEW a, NEW b, NEW c
  PROVE  /\ Len(<<>>) = 0 /\ <<>> = [k \in 1 .. 0 |-> <<>>[k]]
         /\ Len(<<a>>) = 1 /\ <<a>> = [k \in 1 .. 1 |-> <<a>>[k]]
         /\ Len(<<a, b>>) = 2 /\ <<a, b>> = [k \in 1 .. 2 |-> <<a, b>>[k]]
         /\ Len(<<a, b, c>>) = 3 /\ <<a, b, c>> = [k \in 1 .. 3 |-> <<a, b, c>>[k]]
  OBVIOUS

LEMMA AheadTuples ==
  ASSUME NEW f, NEW gone, NEW n, NEW loose, NEW claims, NEW a, NEW b, NEW c
  PROVE  /\ Sound(f, gone, n, loose, claims) => SoundAhead(f, gone, <<>>, n, loose, claims)
         /\ Sound1(f, gone, a, n, loose, claims) => SoundAhead(f, gone, <<a>>, n, loose, claims)
         /\ Sound2(f, gone, a, b, n, loose, claims) =>
              SoundAhead(f, gone, <<a, b>>, n, loose, claims)
         /\ Sound3(f, gone, a, b, c, n, loose, claims) =>
              SoundAhead(f, gone, <<a, b, c>>, n, loose, claims)
<1>1. /\ <<a>>[1] = a /\ <<a, b>>[1] = a /\ <<a, b>>[2] = b
      /\ <<a, b, c>>[1] = a /\ <<a, b, c>>[2] = b /\ <<a, b, c>>[3] = c
  OBVIOUS
<1>2. Sound(f, gone, n, loose, claims) => SoundAhead(f, gone, <<>>, n, loose, claims)
  BY Shapes DEF SoundAhead
<1>3. Sound1(f, gone, a, n, loose, claims) => SoundAhead(f, gone, <<a>>, n, loose, claims)
  BY <1>1, Shapes DEF SoundAhead
<1>4. Sound2(f, gone, a, b, n, loose, claims) => SoundAhead(f, gone, <<a, b>>, n, loose, claims)
  BY <1>1, Shapes DEF SoundAhead
<1>5. Sound3(f, gone, a, b, c, n, loose, claims) => SoundAhead(f, gone, <<a, b, c>>, n, loose, claims)
  BY <1>1, Shapes DEF SoundAhead
<1> QED
  BY <1>2, <1>3, <1>4, <1>5

\* The remaining writes are the tail: what is ahead after one write was ahead
\* before it.
LEMMA AheadOfTail ==
  ASSUME NEW f, NEW gone, NEW writes, NEW n, NEW loose, NEW claims,
         SoundAhead(f, gone, writes, n, loose, claims), writes # <<>>
  PROVE  SoundAhead(Written(f, Head(writes)), Lost(f, gone, Head(writes)), Tail(writes),
                    n, loose, claims)
<1>1. \E a, b, c : writes = <<a>> \/ writes = <<a, b>> \/ writes = <<a, b, c>>
  <2>1. writes = <<writes[1]>> \/ writes = <<writes[1], writes[2]>>
        \/ writes = <<writes[1], writes[2], writes[3]>>
    BY DEF SoundAhead
  <2> QED
    BY <2>1
<1>2. PICK a, b, c : writes = <<a>> \/ writes = <<a, b>> \/ writes = <<a, b, c>>
  BY <1>1
<1>3. CASE writes = <<a>>
  <2>1. Len(writes) = 1 /\ writes[1] = a /\ Head(writes) = a /\ Tail(writes) = <<>>
    BY <1>3
  <2>2. Sound1(f, gone, a, n, loose, claims)
    BY <2>1 DEF SoundAhead
  <2> QED
    BY <2>1, <2>2, AheadTuples DEF Sound1
<1>4. CASE writes = <<a, b>>
  <2>1. Len(writes) = 2 /\ writes[1] = a /\ writes[2] = b /\ Head(writes) = a /\ Tail(writes) = <<b>>
    BY <1>4
  <2>2. Sound2(f, gone, a, b, n, loose, claims)
    BY <2>1 DEF SoundAhead
  <2> QED
    BY <2>1, <2>2, AheadTuples DEF Sound2
<1>5. CASE writes = <<a, b, c>>
  <2>1. /\ Len(writes) = 3 /\ writes[1] = a /\ writes[2] = b /\ writes[3] = c
        /\ Head(writes) = a /\ Tail(writes) = <<b, c>>
    BY <1>5
  <2>2. Sound3(f, gone, a, b, c, n, loose, claims)
    BY <2>1 DEF SoundAhead
  <2> QED
    BY <2>1, <2>2, AheadTuples DEF Sound3
<1> QED
  BY <1>2, <1>3, <1>4, <1>5

LEMMA SoundNow ==
  ASSUME NEW f, NEW gone, NEW writes, NEW n, NEW loose, NEW claims,
         SoundAhead(f, gone, writes, n, loose, claims)
  PROVE  Sound(f, gone, n, loose, claims)
<1>1. Len(writes) \in 0 .. 3
  BY DEF SoundAhead
<1> QED
  BY <1>1 DEF SoundAhead, Sound1, Sound2, Sound3

\* Later ids may be taken, and claims may be given up or be new ones that the
\* index agrees with.
LEMMA SoundLess ==
  ASSUME NEW f, NEW gone, NEW n \in Nat, NEW m \in Nat, NEW loose, NEW laxer,
         NEW claims, NEW others,
         Sound(f, gone, n, loose, claims), n <= m, loose => laxer,
         \A c \in others : \/ c \in claims \/ c[1] = Nothing
                           \/ c[1] \in DOMAIN f.index => f.index[c[1]].evidence \in {Nothing, c[2]}
  PROVE  Sound(f, gone, m, laxer, others)
  BY HistoryAssumption DEF Sound

LEMMA AheadLess ==
  ASSUME NEW f, NEW gone, NEW writes, NEW n \in Nat, NEW m \in Nat, NEW loose, NEW laxer,
         NEW claims, NEW others,
         SoundAhead(f, gone, writes, n, loose, claims), n <= m, loose => laxer,
         \A c \in others : c \in claims \/ c[1] = Nothing
  PROVE  SoundAhead(f, gone, writes, m, laxer, others)
<1>1. ASSUME NEW x, NEW y, Sound(x, y, n, loose, claims) PROVE Sound(x, y, m, laxer, others)
  BY <1>1, SoundLess
<1> QED
  BY <1>1 DEF SoundAhead, Sound1, Sound2, Sound3

-----------------------------------------------------------------------------
(* The writes *)

Shaped(f) == f = [index |-> f.index, migrated |-> f.migrated, objects |-> f.objects,
                  snapshots |-> f.snapshots]

\* The write of an index made from one that was read.
Entire(samples, migrated) == Index(Payload(samples, migrated, FALSE))

LEMMA NothingLost ==
  ASSUME NEW f, NEW gone, NEW w, ~Loses(w), DOMAIN f.index \subseteq DOMAIN Written(f, w).index
  PROVE  Lost(f, gone, w) = gone
<1>1. {f.index[i].source : i \in DOMAIN f.index \ DOMAIN Written(f, w).index} = {}
  OBVIOUS
<1> QED
  BY <1>1 DEF Lost, SourcesLost

LEMMA WriteObject ==
  ASSUME NEW f, Shaped(f), NEW e
  PROVE  /\ Written(f, Object(e)) =
              [index |-> f.index, migrated |-> f.migrated, objects |-> f.objects \cup {e},
               snapshots |-> f.snapshots]
         /\ \A gone : Lost(f, gone, Object(e)) = gone
<1>1. Written(f, Object(e)) =
        [index |-> f.index, migrated |-> f.migrated, objects |-> f.objects \cup {e},
         snapshots |-> f.snapshots]
  BY DEF Written, Object, Shaped
<1> QED
  BY <1>1, NothingLost DEF Loses, Object

LEMMA WriteIndex ==
  ASSUME NEW f, Shaped(f), NEW samples, NEW migrated
  PROVE  /\ Written(f, Entire(samples, migrated)) =
              [index |-> samples, migrated |-> migrated, objects |-> f.objects,
               snapshots |-> f.snapshots]
         /\ \A gone : Lost(f, gone, Entire(samples, migrated)) =
              gone \cup ({f.index[i].source : i \in DOMAIN f.index \ DOMAIN samples} \ {Nothing})
         /\ DOMAIN f.index \subseteq DOMAIN samples =>
              \A gone : Lost(f, gone, Entire(samples, migrated)) = gone
<1>1. Written(f, Entire(samples, migrated)) =
        [index |-> samples, migrated |-> migrated, objects |-> f.objects,
         snapshots |-> f.snapshots]
  BY DEF Written, Index, Entire, Payload, Shaped
<1>2. \A gone : Lost(f, gone, Entire(samples, migrated)) =
        gone \cup ({f.index[i].source : i \in DOMAIN f.index \ DOMAIN samples} \ {Nothing})
  BY <1>1 DEF Lost, SourcesLost, Loses, Index, Entire, Payload
<1>3. DOMAIN f.index \subseteq DOMAIN samples =>
        \A gone : Lost(f, gone, Entire(samples, migrated)) = gone
  BY <1>1, NothingLost DEF Loses, Index, Entire, Payload
<1> QED
  BY <1>1, <1>2, <1>3

LEMMA WriteSnapshot ==
  ASSUME NEW f, Shaped(f), NEW id, NEW e
  PROVE  /\ Written(f, Snapshot(id, e)) =
              [index |-> f.index, migrated |-> f.migrated, objects |-> f.objects,
               snapshots |-> With(f.snapshots, id, e)]
         /\ \A gone : Lost(f, gone, Snapshot(id, e)) = gone
<1>1. Written(f, Snapshot(id, e)) =
        [index |-> f.index, migrated |-> f.migrated, objects |-> f.objects,
         snapshots |-> With(f.snapshots, id, e)]
  BY DEF Written, Snapshot, Shaped
<1> QED
  BY <1>1, NothingLost DEF Loses, Snapshot

LEMMA WriteUnlink ==
  ASSUME NEW f, Shaped(f), NEW key
  PROVE  /\ Written(f, Unlink("unlink_snapshot", key)) =
              [index |-> f.index, migrated |-> f.migrated, objects |-> f.objects,
               snapshots |-> Without(f.snapshots, key)]
         /\ Written(f, Unlink("unlink_object", key)) =
              [index |-> f.index, migrated |-> f.migrated, objects |-> f.objects \ {key},
               snapshots |-> f.snapshots]
         /\ \A gone : /\ Lost(f, gone, Unlink("unlink_snapshot", key)) = gone
                      /\ Lost(f, gone, Unlink("unlink_object", key)) = gone
<1>1. Written(f, Unlink("unlink_snapshot", key)) =
        [index |-> f.index, migrated |-> f.migrated, objects |-> f.objects,
         snapshots |-> Without(f.snapshots, key)]
  BY DEF Written, Unlink, Shaped
<1>2. Written(f, Unlink("unlink_object", key)) =
        [index |-> f.index, migrated |-> f.migrated, objects |-> f.objects \ {key},
         snapshots |-> f.snapshots]
  BY DEF Written, Unlink, Shaped
<1>3. ASSUME NEW gone PROVE Lost(f, gone, Unlink("unlink_snapshot", key)) = gone
  BY <1>1, NothingLost DEF Loses, Unlink
<1>4. ASSUME NEW gone PROVE Lost(f, gone, Unlink("unlink_object", key)) = gone
  BY <1>2, NothingLost DEF Loses, Unlink
<1> QED
  BY <1>1, <1>2, <1>3, <1>4

\* What each of them keeps.
LEMMA ObjectSound ==
  ASSUME NEW f, NEW gone, NEW n \in Nat, NEW loose, NEW claims, Sound(f, gone, n, loose, claims),
         NEW e \in Contents
  PROVE  Sound(Written(f, Object(e)), Lost(f, gone, Object(e)), n, loose, claims)
<1>1. Shaped(f)
  BY DEF Sound, Shaped
<1> QED
  BY <1>1, WriteObject DEF Sound

LEMMA SameIndexSound ==
  ASSUME NEW f, NEW gone, NEW n \in Nat, NEW loose, NEW claims, Sound(f, gone, n, loose, claims)
  PROVE  LET w == Entire(f.index, f.migrated) IN
         Sound(Written(f, w), Lost(f, gone, w), n, loose, claims)
<1>1. Shaped(f)
  BY DEF Sound, Shaped
<1>2. Lost(f, gone, Entire(f.index, f.migrated)) = gone
  BY <1>1, WriteIndex
<1> QED
  BY <1>1, <1>2, WriteIndex DEF Sound

LEMMA NewSampleSound ==
  ASSUME NEW f, NEW gone, NEW n \in Nat, NEW loose, NEW claims, Sound(f, gone, n, loose, claims),
         NEW id \in 1 .. n - 1, id \notin DOMAIN f.index,
         NEW e \in f.objects \cup {Nothing},
         NEW source \in Sources \cup {Nothing}, source \notin f.migrated,
         \A c \in claims : c[1] = id => e \in {Nothing, c[2]}
  PROVE  LET w == Entire(With(f.index, id, Sample(e, source)), f.migrated \cup ({source} \ {Nothing}))
         IN  Sound(Written(f, w), Lost(f, gone, w), n, loose, claims)
<1> DEFINE samples == With(f.index, id, Sample(e, source))
           migrated == f.migrated \cup ({source} \ {Nothing})
           w == Entire(samples, migrated)
<1>1. Shaped(f)
  BY DEF Sound, Shaped
<1>2. /\ DOMAIN samples = DOMAIN f.index \cup {id} /\ samples[id] = Sample(e, source)
      /\ \A i \in DOMAIN f.index : samples[i] = f.index[i]
  BY DEF With
<1>3. Sample(e, source) \in Record /\ ~Sample(e, source).saved
      /\ Sample(e, source).evidence = e /\ Sample(e, source).source = source
  BY DEF Sample, Record, Sound
<1> HIDE DEF samples, migrated
<1>4. Lost(f, gone, w) = gone
  BY <1>1, <1>2, WriteIndex
<1>5. Written(f, w) = [index |-> samples, migrated |-> migrated, objects |-> f.objects,
                       snapshots |-> f.snapshots]
  BY <1>1, WriteIndex
<1>6. f.migrated \subseteq migrated /\ migrated \subseteq Sources /\ gone \subseteq f.migrated
      /\ (source # Nothing => source \in migrated \ gone)
  BY DEF migrated, Sound
<1>7. ASSUME NEW i \in DOMAIN samples
      PROVE  /\ i \in 1 .. n - 1 /\ samples[i] \in Record
             /\ samples[i].evidence # Nothing => samples[i].evidence \in f.objects
             /\ samples[i].saved =>
                  /\ i \in DOMAIN f.snapshots
                  /\ loose \/ samples[i].evidence \in {Nothing, f.snapshots[i]}
             /\ samples[i].source # Nothing =>
                  /\ samples[i].source \in migrated \ gone
                  /\ \A other \in DOMAIN samples :
                       other # i => samples[other].source # samples[i].source
  BY <1>2, <1>3, <1>6, <1>7 DEF Sound
<1>8. \A c \in claims : c[1] \in DOMAIN samples => samples[c[1]].evidence \in {Nothing, c[2]}
  BY <1>2, <1>3 DEF Sound
<1>9. f.objects \subseteq Contents
  BY DEF Sound
<1>10. Sound(Written(f, w), gone, n, loose, claims)
  BY <1>5, <1>6, <1>7, <1>8, <1>9 DEF Sound
<1> QED
  BY <1>4, <1>10 DEF samples, migrated

LEMMA SnapshotSound ==
  ASSUME NEW f, NEW gone, NEW n \in Nat, NEW loose, NEW claims, Sound(f, gone, n, loose, claims),
         NEW id, NEW e,
         id \in DOMAIN f.index => loose \/ f.index[id].evidence \in {Nothing, e}
  PROVE  Sound(Written(f, Snapshot(id, e)), Lost(f, gone, Snapshot(id, e)), n, loose, claims)
<1>1. Shaped(f)
  BY DEF Sound, Shaped
<1>2. /\ DOMAIN With(f.snapshots, id, e) = DOMAIN f.snapshots \cup {id}
      /\ With(f.snapshots, id, e)[id] = e
      /\ \A i \in DOMAIN f.snapshots : i # id => With(f.snapshots, id, e)[i] = f.snapshots[i]
  BY DEF With
<1> QED
  BY <1>1, <1>2, WriteSnapshot DEF Sound

LEMMA SavedSound ==
  ASSUME NEW f, NEW gone, NEW n \in Nat, NEW loose, NEW claims, Sound(f, gone, n, loose, claims),
         NEW id,
         id \in DOMAIN f.index =>
           id \in DOMAIN f.snapshots /\ (loose \/ f.index[id].evidence \in {Nothing, f.snapshots[id]})
  PROVE  LET w == Entire(SavedAs(f.index, id), f.migrated) IN
         Sound(Written(f, w), Lost(f, gone, w), n, loose, claims)
<1> DEFINE samples == SavedAs(f.index, id)
           w == Entire(samples, f.migrated)
<1>1. Shaped(f)
  BY DEF Sound, Shaped
<1>2. /\ DOMAIN samples = DOMAIN f.index
      /\ \A i \in DOMAIN f.index :
           /\ samples[i].evidence = f.index[i].evidence /\ samples[i].source = f.index[i].source
           /\ samples[i] \in Record
           /\ i # id => samples[i].saved = f.index[i].saved
  BY DEF SavedAs, Sound, Record
<1> HIDE DEF samples
<1>3. Lost(f, gone, w) = gone
  BY <1>1, <1>2, WriteIndex
<1>4. Written(f, w) = [index |-> samples, migrated |-> f.migrated, objects |-> f.objects,
                       snapshots |-> f.snapshots]
  BY <1>1, WriteIndex
<1>5. Sound(Written(f, w), gone, n, loose, claims)
  BY <1>2, <1>4 DEF Sound
<1> QED
  BY <1>3, <1>5 DEF samples

LEMMA RemovalSound ==
  ASSUME NEW f, NEW gone, NEW n \in Nat, NEW loose, NEW claims, Sound(f, gone, n, loose, claims),
         NEW id \in DOMAIN f.index
  PROVE  LET w == Entire(Without(f.index, id), f.migrated) IN
         Sound(Written(f, w), Lost(f, gone, w), n, loose, claims)
<1> DEFINE samples == Without(f.index, id)
           w == Entire(samples, f.migrated)
           source == f.index[id].source
<1>1. Shaped(f)
  BY DEF Sound, Shaped
<1>2. /\ DOMAIN samples = DOMAIN f.index \ {id}
      /\ \A i \in DOMAIN samples : samples[i] = f.index[i]
  BY DEF Without
<1> HIDE DEF samples
<1>3. Lost(f, gone, w) = gone \cup ({source} \ {Nothing})
  <2>1. {f.index[i].source : i \in DOMAIN f.index \ DOMAIN samples} = {source}
    BY <1>2
  <2> QED
    BY <1>1, <2>1, WriteIndex
<1>4. Written(f, w) = [index |-> samples, migrated |-> f.migrated, objects |-> f.objects,
                       snapshots |-> f.snapshots]
  BY <1>1, WriteIndex
<1>5. source # Nothing => source \in f.migrated /\ \A i \in DOMAIN samples : samples[i].source # source
  BY <1>2 DEF Sound
<1>6. Sound(Written(f, w), gone \cup ({source} \ {Nothing}), n, loose, claims)
  BY <1>2, <1>4, <1>5 DEF Sound
<1> QED
  BY <1>3, <1>6 DEF samples

LEMMA UnlinkSnapshotSound ==
  ASSUME NEW f, NEW gone, NEW n \in Nat, NEW loose, NEW claims, Sound(f, gone, n, loose, claims),
         NEW id, id \notin DOMAIN f.index
  PROVE  LET w == Unlink("unlink_snapshot", id) IN
         Sound(Written(f, w), Lost(f, gone, w), n, loose, claims)
<1>1. Shaped(f)
  BY DEF Sound, Shaped
<1>2. /\ DOMAIN Without(f.snapshots, id) = DOMAIN f.snapshots \ {id}
      /\ \A i \in DOMAIN f.snapshots : i # id => Without(f.snapshots, id)[i] = f.snapshots[i]
  BY DEF Without
<1> QED
  BY <1>1, <1>2, WriteUnlink DEF Sound

LEMMA UnlinkObjectSound ==
  ASSUME NEW f, NEW gone, NEW n \in Nat, NEW loose, NEW claims, Sound(f, gone, n, loose, claims),
         NEW e, \A i \in DOMAIN f.index : f.index[i].evidence # e
  PROVE  LET w == Unlink("unlink_object", e) IN
         Sound(Written(f, w), Lost(f, gone, w), n, loose, claims)
<1>1. Shaped(f)
  BY DEF Sound, Shaped
<1> QED
  BY <1>1, WriteUnlink DEF Sound

-----------------------------------------------------------------------------
(* An index that is not read is as good as an empty one that is. *)

Emptied(f) == [index |-> <<>>, migrated |-> {}, objects |-> f.objects, snapshots |-> f.snapshots]
ReadAs(f, lost) == IF lost THEN Emptied(f) ELSE f
GoneAs(gone, lost) == IF lost THEN {} ELSE gone
Read(f, lost) == Payload(ReadAs(f, lost).index, ReadAs(f, lost).migrated, lost)

LEMMA ReadingSound ==
  ASSUME NEW f, NEW gone, NEW n \in Nat, NEW loose, NEW claims, Sound(f, gone, n, loose, claims),
         NEW lost \in BOOLEAN
  PROVE  /\ Sound(ReadAs(f, lost), GoneAs(gone, lost), n, loose, claims)
         /\ ReadAs(f, lost).objects = f.objects /\ ReadAs(f, lost).snapshots = f.snapshots
         /\ DOMAIN ReadAs(f, lost).index \subseteq DOMAIN f.index
         /\ \A id \in DOMAIN ReadAs(f, lost).index : ReadAs(f, lost).index[id] = f.index[id]
<1>1. CASE lost
  <2>1. DOMAIN Emptied(f).index = {} /\ Emptied(f).migrated = {} /\ Emptied(f).objects = f.objects
        /\ Emptied(f).snapshots = f.snapshots
    BY DEF Emptied
  <2>2. Emptied(f) = [index |-> Emptied(f).index, migrated |-> Emptied(f).migrated,
                      objects |-> Emptied(f).objects, snapshots |-> Emptied(f).snapshots]
    BY DEF Emptied
  <2>3. Sound(Emptied(f), {}, n, loose, claims)
    BY <2>1, <2>2 DEF Sound
  <2> QED
    BY <1>1, <2>1, <2>3 DEF ReadAs, GoneAs
<1>2. CASE ~lost
  BY <1>2 DEF ReadAs, GoneAs
<1> QED
  BY <1>1, <1>2

LEMMA ReadingWritten ==
  ASSUME NEW f, NEW gone, Shaped(f), NEW lost \in BOOLEAN, NEW samples, NEW migrated
  PROVE  LET w == Index(Payload(samples, migrated, lost))
             v == Entire(samples, migrated) IN
         /\ Written(f, w) = Written(ReadAs(f, lost), v)
         /\ Lost(f, gone, w) = Lost(ReadAs(f, lost), GoneAs(gone, lost), v)
<1>1. CASE lost
  <2> DEFINE w == Index(Payload(samples, migrated, lost))
             v == Entire(samples, migrated)
  <2>1. Shaped(Emptied(f)) /\ DOMAIN Emptied(f).index = {}
    BY DEF Emptied, Shaped
  <2>2. Lost(Emptied(f), {}, v) = {}
    BY <2>1, WriteIndex
  <2>3. Lost(f, gone, w) = {}
    BY <1>1 DEF Lost, Loses, Index, Payload
  <2>4. Written(f, w) = [index |-> samples, migrated |-> migrated, objects |-> f.objects,
                         snapshots |-> f.snapshots]
    BY DEF Written, Index, Payload, Shaped
  <2>5. Written(Emptied(f), v) = [index |-> samples, migrated |-> migrated, objects |-> f.objects,
                                  snapshots |-> f.snapshots]
    BY <2>1, WriteIndex DEF Emptied
  <2> QED
    BY <1>1, <2>2, <2>3, <2>4, <2>5 DEF ReadAs, GoneAs
<1>2. CASE ~lost
  <2>1. lost = FALSE
    BY <1>2
  <2> QED
    BY <2>1 DEF ReadAs, GoneAs, Entire
<1> QED
  BY <1>1, <1>2

\* The three index writes that a reading of f can end in.
LEMMA NewSampleRead ==
  ASSUME NEW f, NEW gone, NEW n \in Nat, NEW loose, NEW claims, Sound(f, gone, n, loose, claims),
         NEW lost \in BOOLEAN,
         NEW id \in 1 .. n - 1, id \notin DOMAIN f.index,
         NEW e \in f.objects \cup {Nothing},
         NEW source \in Sources \cup {Nothing}, source \notin Read(f, lost).migrated,
         \A c \in claims : c[1] = id => e \in {Nothing, c[2]}
  PROVE  LET read == Read(f, lost)
             w == Index(Payload(With(read.samples, id, Sample(e, source)),
                                read.migrated \cup ({source} \ {Nothing}), lost))
         IN  Sound(Written(f, w), Lost(f, gone, w), n, loose, claims)
<1> DEFINE g == ReadAs(f, lost)
           left == GoneAs(gone, lost)
           samples == With(g.index, id, Sample(e, source))
           migrated == g.migrated \cup ({source} \ {Nothing})
           v == Entire(samples, migrated)
           w == Index(Payload(samples, migrated, lost))
<1>1. Sound(g, left, n, loose, claims) /\ id \notin DOMAIN g.index /\ e \in g.objects \cup {Nothing}
  BY ReadingSound
<1>2. Read(f, lost).samples = g.index /\ Read(f, lost).migrated = g.migrated
  BY DEF Read, Payload
<1>3. source \notin g.migrated
  BY <1>2
<1> HIDE DEF g, left
<1>4. Sound(Written(g, v), Lost(g, left, v), n, loose, claims)
  BY <1>1, <1>3, NewSampleSound
<1>5. Shaped(f)
  BY DEF Sound, Shaped
<1> HIDE DEF samples, migrated
<1>6. Written(f, w) = Written(g, v) /\ Lost(f, gone, w) = Lost(g, left, v)
  BY <1>5, ReadingWritten DEF g, left
<1>7. Sound(Written(f, w), Lost(f, gone, w), n, loose, claims)
  BY <1>4, <1>6
<1> QED
  BY <1>2, <1>7 DEF samples, migrated

LEMMA SavedRead ==
  ASSUME NEW f, NEW gone, NEW n \in Nat, NEW loose, NEW claims, Sound(f, gone, n, loose, claims),
         NEW lost \in BOOLEAN, NEW id,
         id \in DOMAIN f.index =>
           id \in DOMAIN f.snapshots /\ (loose \/ f.index[id].evidence \in {Nothing, f.snapshots[id]})
  PROVE  LET w == Index(Payload(SavedAs(Read(f, lost).samples, id), Read(f, lost).migrated, lost)) IN
         Sound(Written(f, w), Lost(f, gone, w), n, loose, claims)
<1> DEFINE g == ReadAs(f, lost)
           left == GoneAs(gone, lost)
           samples == SavedAs(g.index, id)
           v == Entire(samples, g.migrated)
           w == Index(Payload(samples, g.migrated, lost))
<1>1. /\ Sound(g, left, n, loose, claims)
      /\ id \in DOMAIN g.index =>
           id \in DOMAIN g.snapshots /\ (loose \/ g.index[id].evidence \in {Nothing, g.snapshots[id]})
  BY ReadingSound
<1>2. Read(f, lost).samples = g.index /\ Read(f, lost).migrated = g.migrated
  BY DEF Read, Payload
<1> HIDE DEF g, left
<1>4. Sound(Written(g, v), Lost(g, left, v), n, loose, claims)
  BY <1>1, SavedSound
<1>5. Shaped(f)
  BY DEF Sound, Shaped
<1> HIDE DEF samples
<1>6. Written(f, w) = Written(g, v) /\ Lost(f, gone, w) = Lost(g, left, v)
  BY <1>5, ReadingWritten DEF g, left
<1>7. Sound(Written(f, w), Lost(f, gone, w), n, loose, claims)
  BY <1>4, <1>6
<1> QED
  BY <1>2, <1>7 DEF samples

LEMMA SameRead ==
  ASSUME NEW f, NEW gone, NEW n \in Nat, NEW loose, NEW claims, Sound(f, gone, n, loose, claims),
         NEW lost \in BOOLEAN
  PROVE  Sound(Written(f, Index(Read(f, lost))), Lost(f, gone, Index(Read(f, lost))), n, loose, claims)
<1> DEFINE g == ReadAs(f, lost)
           left == GoneAs(gone, lost)
           v == Entire(g.index, g.migrated)
           w == Index(Payload(g.index, g.migrated, lost))
<1>1. Sound(g, left, n, loose, claims)
  BY ReadingSound
<1> HIDE DEF g, left
<1>2. Sound(Written(g, v), Lost(g, left, v), n, loose, claims)
  BY <1>1, SameIndexSound
<1>3. Shaped(f)
  BY DEF Sound, Shaped
<1>4. Written(f, w) = Written(g, v) /\ Lost(f, gone, w) = Lost(g, left, v)
  BY <1>3, ReadingWritten DEF g, left
<1>5. Read(f, lost) = Payload(g.index, g.migrated, lost)
  BY DEF Read, g
<1> QED
  BY <1>2, <1>4, <1>5

\* What the window reads.
LEMMA ReadingIs ==
  ASSUME NEW read \in Readings
  PROVE  read.lost \in BOOLEAN /\ read = Read(archive, read.lost)
<1>1. CASE read = IndexRead
  BY <1>1 DEF IndexRead, Payload, Read, ReadAs
<1>2. CASE read = NoPayload
  BY <1>2 DEF NoPayload, Payload, Read, ReadAs, Emptied
<1> QED
  BY <1>1, <1>2 DEF Readings

-----------------------------------------------------------------------------
(* The operations of SampleArchive, started on sound files *)

LEMMA ArchiveAhead ==
  ASSUME NEW n \in Nat, NEW loose, NEW claims, Sound(archive, dropped, n, loose, claims),
         NEW read \in Readings,
         NEW e \in Contents, nextSample \in 1 .. n - 1, nextSample \notin DOMAIN archive.index,
         \A c \in claims : c[1] = nextSample => e \in {Nothing, c[2]}
  PROVE  SoundAhead(archive, dropped, ArchiveBytes(read, e), n, loose, claims)
<1> DEFINE w == Index([read EXCEPT !.samples = With(@, nextSample, Sample(e, Nothing))])
<1>0. read.lost \in BOOLEAN /\ read = Read(archive, read.lost)
  BY ReadingIs
<1>1. /\ w = Index(Payload(With(read.samples, nextSample, Sample(e, Nothing)),
                           read.migrated \cup ({Nothing} \ {Nothing}), read.lost))
      /\ Nothing \notin read.migrated
  <2>1. read = Payload(read.samples, read.migrated, read.lost) /\ read.migrated \subseteq archive.migrated
    BY DEF Readings, IndexRead, NoPayload, Payload
  <2>2. [read EXCEPT !.samples = With(@, nextSample, Sample(e, Nothing))]
          = Payload(With(read.samples, nextSample, Sample(e, Nothing)), read.migrated, read.lost)
    BY <2>1 DEF Payload
  <2>3. read.migrated \cup ({Nothing} \ {Nothing}) = read.migrated /\ Nothing \notin read.migrated
    BY <2>1, HistoryAssumption DEF Sound
  <2> QED
    BY <2>2, <2>3
<1> HIDE DEF w
<1>2. CASE e \in archive.objects
  <2>1. ArchiveBytes(read, e) = <<w>>
    BY <1>2 DEF ArchiveBytes, w
  <2>2. Sound(Written(archive, w), Lost(archive, dropped, w), n, loose, claims)
    BY <1>0, <1>1, <1>2, HistoryAssumption, NewSampleRead
  <2> QED
    BY <2>1, <2>2, AheadTuples DEF Sound1
<1>3. CASE e \notin archive.objects
  <2> DEFINE f == Written(archive, Object(e))
             gone == Lost(archive, dropped, Object(e))
  <2>1. ArchiveBytes(read, e) = <<Object(e), w>>
    BY <1>3, Pairs DEF ArchiveBytes, w
  <2>2. Sound(f, gone, n, loose, claims)
    BY ObjectSound
  <2>3. f.index = archive.index /\ f.migrated = archive.migrated /\ e \in f.objects
    <3>1. Shaped(archive)
      BY DEF Sound, Shaped
    <3> QED
      BY <3>1, WriteObject
  <2> HIDE DEF f, gone
  <2>4. read = Read(f, read.lost)
    <3>1. Read(f, read.lost) = Read(archive, read.lost)
      BY <1>0, <2>3 DEF Read, ReadAs, Emptied
    <3> QED
      BY <1>0, <3>1
  <2>5. Sound(Written(f, w), Lost(f, gone, w), n, loose, claims)
    BY <1>0, <1>1, <2>2, <2>3, <2>4, NewSampleRead
  <2> QED
    BY <2>1, <2>2, <2>5, AheadTuples DEF Sound1, Sound2, f, gone
<1> QED
  BY <1>2, <1>3

LEMMA AttachSound ==
  ASSUME NEW f, NEW gone, NEW n \in Nat, NEW loose, NEW claims, Sound(f, gone, n, loose, claims),
         NEW lost \in BOOLEAN, NEW id, NEW e,
         id \in DOMAIN f.index => loose \/ f.index[id].evidence \in {Nothing, e}
  PROVE  Sound2(f, gone, Snapshot(id, e),
                Index(Payload(SavedAs(Read(f, lost).samples, id), Read(f, lost).migrated, lost)),
                n, loose, claims)
<1> DEFINE g == Written(f, Snapshot(id, e))
           left == Lost(f, gone, Snapshot(id, e))
           w == Index(Payload(SavedAs(Read(f, lost).samples, id), Read(f, lost).migrated, lost))
<1>1. Sound(g, left, n, loose, claims)
  BY SnapshotSound
<1>2. g.index = f.index /\ g.migrated = f.migrated /\ id \in DOMAIN g.snapshots /\ g.snapshots[id] = e
  <2>1. Shaped(f)
    BY DEF Sound, Shaped
  <2>2. g.index = f.index /\ g.migrated = f.migrated /\ g.snapshots = With(f.snapshots, id, e)
    BY <2>1, WriteSnapshot
  <2>3. id \in DOMAIN With(f.snapshots, id, e) /\ With(f.snapshots, id, e)[id] = e
    BY DEF With
  <2> QED
    BY <2>2, <2>3
<1> HIDE DEF g, left
<1>3. Read(g, lost) = Read(f, lost)
  BY <1>2 DEF Read, ReadAs, Emptied
<1>4. Sound(Written(g, w), Lost(g, left, w), n, loose, claims)
  BY <1>1, <1>2, <1>3, SavedRead
<1> QED
  BY <1>1, <1>4 DEF Sound1, Sound2, g, left

LEMMA AttachIs ==
  ASSUME NEW samples, NEW migrated, NEW lost, NEW id, NEW e
  PROVE  Attach(Payload(samples, migrated, lost), id, e) =
           <<Snapshot(id, e), Index(Payload(SavedAs(samples, id), migrated, lost))>>
  BY DEF Attach, Payload

LEMMA AttachAhead ==
  ASSUME NEW n \in Nat, NEW loose, NEW claims, Sound(archive, dropped, n, loose, claims),
         NEW read \in Readings, NEW id, NEW e,
         id \in DOMAIN archive.index => loose \/ archive.index[id].evidence \in {Nothing, e}
  PROVE  SoundAhead(archive, dropped, Attach(read, id, e), n, loose, claims)
<1> DEFINE w == Index(Payload(SavedAs(read.samples, id), read.migrated, read.lost))
<1>1. read.lost \in BOOLEAN /\ read = Read(archive, read.lost)
  BY ReadingIs
<1>2. read = Payload(read.samples, read.migrated, read.lost)
  BY DEF Readings, IndexRead, NoPayload, Payload
<1>3. Attach(read, id, e) = <<Snapshot(id, e), w>>
  BY <1>2, AttachIs
<1>4. Sound2(archive, dropped, Snapshot(id, e), w, n, loose, claims)
  BY <1>1, AttachSound
<1> HIDE DEF w
<1> QED
  BY <1>3, <1>4, AheadTuples

LEMMA ImportAhead ==
  ASSUME NEW n \in Nat, NEW loose, NEW claims, Sound(archive, dropped, n, loose, claims),
         NEW read \in Readings, NEW readable \in BOOLEAN,
         NEW e, NEW source \in Sources \cup {Nothing}, source \notin read.migrated,
         nextSample \in 1 .. n - 1, nextSample \notin DOMAIN archive.index
  PROVE  SoundAhead(archive, dropped, ImportSnapshot(read, readable, e, source), n, loose, claims)
<1> DEFINE samples == With(read.samples, nextSample, Sample(Nothing, source))
           migrated == read.migrated \cup ({source} \ {Nothing})
           u == Index(Payload(samples, migrated, read.lost))
           v == Snapshot(nextSample, e)
           f == Written(archive, u)
           gone == Lost(archive, dropped, u)
           misread == IF readable THEN FALSE ELSE TRUE
           again == Read(f, misread)
           w == Index(Payload(SavedAs(again.samples, nextSample), again.migrated, again.lost))
<1>0. read.lost \in BOOLEAN /\ read = Read(archive, read.lost)
  BY ReadingIs
<1>1. Sound(f, gone, n, loose, claims)
  BY <1>0, NewSampleRead
<1>2. f.index = samples /\ f.migrated = migrated
  <2>1. Shaped(archive)
    BY DEF Sound, Shaped
  <2> QED
    BY <2>1 DEF Written, Index, Payload, Shaped
<1>3. samples[nextSample].evidence = Nothing
  BY DEF With, Sample
<1>4. /\ again = IF readable THEN Payload(samples, migrated, FALSE) ELSE NoPayload
      /\ again = Payload(again.samples, again.migrated, again.lost) /\ again.lost = misread
  <2> HIDE DEF f
  <2>1. CASE readable
    BY <1>2, <2>1 DEF Read, ReadAs, Payload
  <2>2. CASE ~readable
    BY <2>2 DEF Read, ReadAs, Payload, Emptied, NoPayload
  <2> QED
    BY <2>1, <2>2
<1> HIDE DEF f, gone, again
<1>5. ImportSnapshot(read, readable, e, source) = <<u, v, w>>
  <2>1. Attach(again, nextSample, e) = <<v, w>>
    <3>1. Attach(Payload(again.samples, again.migrated, again.lost), nextSample, e) = <<v, w>>
      BY AttachIs
    <3> HIDE DEF v, w
    <3> QED
      BY <1>4, <3>1
  <2>2. ImportSnapshot(read, readable, e, source) = <<u>> \o Attach(again, nextSample, e)
    BY <1>4 DEF ImportSnapshot
  <2> HIDE DEF u, v, w
  <2> QED
    BY <2>1, <2>2, Triples
<1> HIDE DEF samples, migrated
<1>6. Sound2(f, gone, v, w, n, loose, claims)
  <2>1. misread \in BOOLEAN
    OBVIOUS
  <2> QED
    BY <1>1, <1>2, <1>3, <1>4, <2>1, AttachSound DEF again
<1>7. Sound3(archive, dropped, u, v, w, n, loose, claims)
  BY <1>6 DEF Sound3, f, gone
<1> HIDE DEF u, v, w
<1> QED
  BY <1>5, <1>7, AheadTuples

LEMMA VisibilityAhead ==
  ASSUME NEW n \in Nat, NEW loose, NEW claims, Sound(archive, dropped, n, loose, claims),
         NEW read \in Readings
  PROVE  SoundAhead(archive, dropped, SetVisibility(read), n, loose, claims)
<1> DEFINE w == Index(read)
<1>1. read.lost \in BOOLEAN /\ read = Read(archive, read.lost)
  BY ReadingIs
<1>2. Sound1(archive, dropped, w, n, loose, claims)
  BY <1>1, SameRead DEF Sound1
<1>3. SetVisibility(read) = <<w>>
  BY DEF SetVisibility
<1> HIDE DEF w
<1> QED
  BY <1>2, <1>3, AheadTuples

LEMMA DeleteAhead ==
  ASSUME NEW n \in Nat, NEW loose, NEW claims, Sound(archive, dropped, n, loose, claims),
         NEW id \in DOMAIN archive.index
  PROVE  SoundAhead(archive, dropped, DeletePermanently(id), n, loose, claims)
<1> DEFINE sample == archive.index[id]
           rest == Without(archive.index, id)
           u == Entire(rest, archive.migrated)
           v == Unlink("unlink_snapshot", id)
           w == Unlink("unlink_object", sample.evidence)
           f == Written(archive, u)
           gone == Lost(archive, dropped, u)
           g == Written(f, v)
           left == Lost(f, gone, v)
           last == sample.evidence # Nothing /\ \A i \in DOMAIN rest : rest[i].evidence # sample.evidence
<1>1. Sound(f, gone, n, loose, claims)
  BY RemovalSound
<1>2. f.index = rest /\ id \notin DOMAIN rest
  <2>1. Shaped(archive)
    BY DEF Sound, Shaped
  <2> QED
    BY <2>1, WriteIndex DEF Without
<1>3. DeletePermanently(id) =
        CASE ~sample.saved /\ ~last -> <<u>>
          [] ~sample.saved /\ last -> <<u, w>>
          [] sample.saved /\ ~last -> <<u, v>>
          [] sample.saved /\ last -> <<u, v, w>>
  <2>1. /\ (<<u>> \o <<>>) \o <<>> = <<u>> /\ (<<u>> \o <<>>) \o <<w>> = <<u, w>>
        /\ (<<u>> \o <<v>>) \o <<>> = <<u, v>> /\ (<<u>> \o <<v>>) \o <<w>> = <<u, v, w>>
    <3> HIDE DEF u, v, w
    <3>1. <<u>> \o <<>> = <<u>> /\ <<u, v>> \o <<>> = <<u, v>>
      OBVIOUS
    <3> QED
      BY <3>1, Pairs, Triples
  <2>2. DeletePermanently(id) = (<<u>> \o (IF sample.saved THEN <<v>> ELSE <<>>))
                                \o (IF last THEN <<w>> ELSE <<>>)
    BY DEF DeletePermanently, Entire
  <2> HIDE DEF u, v, w, last, sample
  <2>3. CASE sample.saved
    BY <2>1, <2>2, <2>3
  <2>4. CASE ~sample.saved
    BY <2>1, <2>2, <2>4
  <2> QED
    BY <2>3, <2>4
<1> HIDE DEF f, gone
<1>4. Sound(g, left, n, loose, claims) /\ g.index = rest
  <2>1. Shaped(f)
    BY <1>1 DEF Sound, Shaped
  <2> QED
    BY <1>1, <1>2, <2>1, UnlinkSnapshotSound, WriteUnlink
<1> HIDE DEF g, left
<1>5. last => /\ Sound(Written(f, w), Lost(f, gone, w), n, loose, claims)
              /\ Sound(Written(g, w), Lost(g, left, w), n, loose, claims)
  BY <1>1, <1>2, <1>4, UnlinkObjectSound
<1>6. /\ Sound1(archive, dropped, u, n, loose, claims)
      /\ Sound2(archive, dropped, u, v, n, loose, claims)
      /\ last => Sound2(archive, dropped, u, w, n, loose, claims)
      /\ last => Sound3(archive, dropped, u, v, w, n, loose, claims)
  BY <1>1, <1>4, <1>5 DEF Sound1, Sound2, Sound3, f, gone, g, left
<1> HIDE DEF u, v, w, last, sample
<1> QED
  BY <1>3, <1>6, AheadTuples

-----------------------------------------------------------------------------
(* The steps *)

LEMMA Signals ==
  ASSUME NEW a, NEW b
  PROVE  /\ <<>> \o <<a, b>> = <<a, b>>
         /\ <<a, b>> # <<>> /\ Head(<<a, b>>) = a /\ Tail(<<a, b>>) = <<b>>
         /\ <<a>> # <<>> /\ Head(<<a>>) = a /\ Tail(<<a>>) = <<>>
  OBVIOUS

\* Without an overtaking, the result at the head is followed by finished alone.
LEMMA ResultAhead ==
  ASSUME HistoryTypes, overtakings = 0, signals # <<>>, Head(signals).signal # "finished"
  PROVE  thread = Nothing /\ Tail(signals) = <<Finished>>
<1>1. signals # <<Finished>>
  BY Signals DEF Finished
<1>2. PICK r \in {"completed", "failed"}, e \in Evidence :
        thread = Nothing /\ signals = <<[signal |-> r, evidence |-> e], Finished>>
  BY <1>1 DEF HistoryTypes
<1> QED
  BY <1>2, Signals

LEMMA BelowGrows ==
  ASSUME NEW n \in Nat \ {0}, NEW m \in {n, n + 1}
  PROVE  m \in Nat \ {0} /\ (1 .. n - 1) \subseteq (1 .. m - 1)
OBVIOUS

LEMMA HistoryTypesStep ==
  ASSUME HistoryTypes, archive.objects \subseteq Contents, Samples \subseteq Taken,
         [HistoryNext]_historyVars
  PROVE  HistoryTypes'
<1> USE HistoryAssumption DEF HistoryTypes, Taken, Evidence, Free, NoStart, Start, Samples
<1>1. CASE LoadEvidence \/ LoadDirectory
  BY <1>1 DEF LoadEvidence, LoadDirectory
<1>2. CASE OpenArchived
  BY <1>2 DEF OpenArchived
<1>3. CASE RemoveFromLatest \/ DeleteSample \/ MigrateReport \/ WriteNext
  BY <1>3 DEF RemoveFromLatest, DeleteSample, MigrateReport, WriteNext
<1>4. CASE StartThread
  BY <1>4 DEF StartThread
<1>5. CASE ThreadEnds
  <2>1. PICK r \in {"completed", "failed"} :
          signals' = signals \o <<[signal |-> r, evidence |-> thread], Finished>>
    BY <1>5 DEF ThreadEnds, Finished
  <2>2. /\ thread \in Evidence /\ thread' = Nothing
        /\ UNCHANGED <<nextSample, overtakings, analysing, after>>
    BY <1>5 DEF ThreadEnds
  <2>3. overtakings = 0 => signals = <<>>
    BY <2>2
  <2>4. overtakings = 0 => signals' = <<[signal |-> r, evidence |-> thread], Finished>>
    BY <2>1, <2>3, Signals
  <2> QED
    BY <2>2, <2>4
<1>6. CASE HandleResult
  <2>1. /\ UNCHANGED <<overtakings, analysing, after, thread>>
        /\ nextSample' \in {nextSample, nextSample + 1}
        /\ Head(signals).signal # "finished" /\ signals # <<>> /\ signals' = Tail(signals)
    BY <1>6 DEF HandleResult
  <2>2. ASSUME overtakings = 0 PROVE thread = Nothing /\ signals' = <<Finished>>
    BY <2>1, <2>2, ResultAhead
  <2>3. Taken \subseteq Taken' /\ nextSample' \in Nat \ {0}
    <3>1. nextSample \in Nat \ {0}
      OBVIOUS
    <3> QED
      BY <2>1, <3>1, BelowGrows DEF Taken
  <2>4. overtakings' = 0 => thread' = Nothing /\ signals' = <<Finished>>
    BY <2>1, <2>2
  <2> QED
    BY <2>1, <2>3, <2>4
<1>7. CASE HandleFinished
  <2>1. /\ UNCHANGED <<overtakings, after, nextSample>> /\ analysing' = Nothing /\ thread' = Nothing
        /\ signals # <<>> /\ Head(signals).signal = "finished"
        /\ signals' = IF thread = Nothing THEN Tail(signals) ELSE <<>>
    BY <1>7 DEF HandleFinished
  <2>2. ASSUME overtakings = 0 PROVE signals' = <<>>
    <3>1. CASE signals = <<Finished>>
      BY <2>1, <2>2, <3>1, Signals DEF HistoryTypes
    <3>2. ASSUME NEW r \in {"completed", "failed"}, NEW e,
                 signals = <<[signal |-> r, evidence |-> e], Finished>>
          PROVE  FALSE
      BY <2>1, <3>2, Signals
    <3> QED
      BY <2>1, <2>2, <3>1, <3>2
  <2> QED
    BY <2>1, <2>2
<1>8. CASE WriteFails
  BY <1>8 DEF WriteFails
<1>9. CASE RestartWindow
  BY <1>9 DEF RestartWindow
<1>10. CASE UNCHANGED historyVars
  BY <1>10 DEF historyVars
<1> QED
  BY <1>1, <1>2, <1>3, <1>4, <1>5, <1>6, <1>7, <1>8, <1>9, <1>10 DEF HistoryNext

\* Where no write comes and goes, less is claimed than before.
ClaimsKept == \A c \in Claims' : c \in Claims \/ c[1] = Nothing

LEMMA QuietStep ==
  ASSUME HistoryTypes, ThreadEnds \/ StartThread \/ HandleFinished \/ UNCHANGED historyVars
  PROVE  ClaimsKept /\ UNCHANGED <<archive, dropped, todo, nextSample>>
         /\ (Loose => Loose')
<1> USE DEF ClaimsKept, Claims, Loose
<1>1. CASE ThreadEnds
  <2>1. PICK r \in {"completed", "failed"} :
          signals' = signals \o <<[signal |-> r, evidence |-> thread], Finished>>
    BY <1>1 DEF ThreadEnds, Finished
  <2>2. /\ thread # Nothing /\ thread' = Nothing
        /\ UNCHANGED <<archive, dropped, todo, nextSample, overtakings, analysing, after>>
    BY <1>1 DEF ThreadEnds
  <2>3. overtakings = 0 => Head(signals').evidence = thread
    <3>1. ASSUME overtakings = 0 PROVE signals = <<>>
      BY <2>2, <3>1 DEF HistoryTypes
    <3> QED
      BY <2>1, <3>1, Signals
  <2> QED
    BY <2>2, <2>3
<1>2. CASE StartThread
  <2>1. /\ UNCHANGED <<archive, dropped, todo, nextSample, signals>> /\ after' = NoStart
        /\ overtakings' = overtakings + (IF signals = <<>> THEN 0 ELSE 1)
        /\ \/ UNCHANGED <<thread, analysing>>
           \/ thread' = after.evidence /\ analysing' = after.sample
    BY <1>2 DEF StartThread
  <2>2. overtakings' = 0 => signals = <<>> /\ overtakings = 0
    BY <2>1 DEF HistoryTypes
  <2>3. after'.sample = Nothing
    BY <2>1 DEF NoStart
  <2>4. overtakings > 0 => overtakings' > 0
    BY <2>1 DEF HistoryTypes
  <2>5. ASSUME NEW c \in Claims' PROVE c \in Claims \/ c[1] = Nothing
    <3>1. CASE c = <<after'.sample, after'.evidence>>
      BY <2>3, <3>1
    <3>2. CASE overtakings' = 0 /\ thread' # Nothing /\ c = <<analysing', thread'>>
      BY <2>1, <2>2, <3>2
    <3> QED
      BY <2>2, <2>5, <2>1, <3>1, <3>2
  <2> QED
    BY <2>1, <2>4, <2>5
<1>3. CASE HandleFinished
  <2>1. /\ UNCHANGED <<archive, dropped, todo, nextSample, overtakings, after>>
        /\ analysing' = Nothing
    BY <1>3 DEF HandleFinished
  <2> QED
    BY <2>1
<1>4. CASE UNCHANGED historyVars
  BY <1>4 DEF historyVars
<1> QED
  BY <1>1, <1>2, <1>3, <1>4

\* Every claim that is new agrees with the index.
Fits(c) == c[1] \in DOMAIN archive.index => archive.index[c[1]].evidence \in {Nothing, c[2]}
ClaimsFit == \A c \in Claims' : c \in Claims \/ c[1] = Nothing \/ Fits(c)

LEMMA SoundFits ==
  ASSUME ClaimsFit, nextSample \in Nat, Sound(archive, dropped, nextSample, Loose, Claims)
  PROVE  /\ Sound(archive, dropped, nextSample, Loose, Claims')
         /\ Sound(archive, dropped, nextSample + 1, Loose, Claims')
<1>1. Sound(archive, dropped, nextSample, Loose, Claims')
  BY HistoryAssumption DEF ClaimsFit, Fits, Sound
<1> QED
  BY HistoryAssumption, <1>1 DEF Sound

LEMMA AheadKept ==
  ASSUME ClaimsKept, nextSample \in Nat, Loose => Loose', 
         SoundAhead(archive, dropped, todo, nextSample, Loose, Claims)
  PROVE  SoundAhead(archive, dropped, todo, nextSample, Loose', Claims')
<1> DEFINE laxer == Loose'
           others == Claims'
<1>1. \A c \in others : c \in Claims \/ c[1] = Nothing
  BY DEF ClaimsKept
<1>2. Loose => laxer
  OBVIOUS
<1> HIDE DEF laxer, others
<1>3. nextSample <= nextSample
  OBVIOUS
<1>4. SoundAhead(archive, dropped, todo, nextSample, laxer, others)
  BY <1>1, <1>2, <1>3, AheadLess
<1> QED
  BY <1>4 DEF laxer, others

LEMMA HistoryInvStep == HistoryInv /\ [HistoryNext]_historyVars => HistoryInv'
<1> DEFINE Ahead(w, m, c) == SoundAhead(archive, dropped, w, m, Loose, c)
<1> SUFFICES ASSUME HistoryInv, [HistoryNext]_historyVars PROVE HistoryInv'
  OBVIOUS
<1>1. nextSample \in Nat \ {0} /\ nextSample + 1 \in Nat /\ nextSample \in 1 .. nextSample + 1 - 1
  BY DEF HistoryInv, HistoryTypes
<1>2. Sound(archive, dropped, nextSample, Loose, Claims)
  BY SoundNow DEF HistoryInv
<1>3. archive.objects \subseteq Contents /\ Samples \subseteq Taken /\ nextSample \notin DOMAIN archive.index
  BY <1>1, <1>2 DEF Sound, Samples, Taken
<1>4. HistoryTypes /\ HistoryTypes'
  BY <1>3, HistoryTypesStep DEF HistoryInv
<1>5. SUFFICES SoundAhead(archive', dropped', todo', nextSample', Loose', Claims')
  BY <1>4 DEF HistoryInv
\* An operation that starts on what is there, with claims the index agrees with.
<1>6. ClaimsFit => /\ Sound(archive, dropped, nextSample, Loose, Claims')
                   /\ Sound(archive, dropped, nextSample + 1, Loose, Claims')
  BY <1>1, <1>2, SoundFits
<1>0. UNCHANGED overtakings => Loose' = Loose
  BY DEF Loose
<1>7. CASE LoadEvidence
  <2>1. PICK read \in Readings, e \in Contents :
          todo' = ArchiveBytes(read, e) /\ after' = Start(nextSample, e)
    BY <1>7 DEF LoadEvidence
  <2>2. /\ UNCHANGED <<archive, dropped, thread, signals, analysing, overtakings>> /\ nextSample' = nextSample + 1
    BY <1>7 DEF LoadEvidence
  <2>3. \A x \in Claims' : x \in Claims \/ x = <<nextSample, e>>
    BY <2>1, <2>2 DEF Claims, Start
  <2>4. \A x \in Claims' : x[1] = nextSample => e \in {Nothing, x[2]}
    <3>1. analysing # nextSample
      BY <1>1, <1>4, HistoryAssumption DEF HistoryTypes, Taken
    <3> QED
      BY <2>1, <2>2, <3>1 DEF Claims, Start
  <2>5. Sound(archive, dropped, nextSample + 1, Loose, Claims')
    <3>1. Fits(<<nextSample, e>>)
      BY <1>3 DEF Fits
    <3>2. ClaimsFit
      BY <2>3, <3>1 DEF ClaimsFit
    <3> QED
      BY <1>6, <3>2
  <2>6. Ahead(ArchiveBytes(read, e), nextSample + 1, Claims')
    BY <1>1, <1>3, <2>4, <2>5, ArchiveAhead
  <2> QED
    BY <1>0, <2>1, <2>2, <2>6
<1>8. CASE LoadDirectory
  <2>1. /\ UNCHANGED <<archive, dropped, todo, nextSample, thread, signals, analysing, overtakings>>
        /\ after'.sample = Nothing
    BY <1>8 DEF LoadDirectory, Start
  <2>2. ClaimsKept
    BY <2>1 DEF ClaimsKept, Claims
  <2>3. Ahead(todo, nextSample, Claims')
    BY <1>1, <1>0, <2>1, <2>2, AheadKept DEF HistoryInv
  <2> QED
    BY <1>0, <2>1, <2>3
<1>9. CASE OpenArchived
  <2>1. PICK id \in Samples, read \in Readings :
          /\ todo' = SetVisibility(read)
          /\ after' = Start(id, archive.index[id].evidence) \/ after' = NoStart
    BY <1>9 DEF OpenArchived
  <2>2. UNCHANGED <<archive, dropped, nextSample, thread, signals, analysing, overtakings>>
    BY <1>9 DEF OpenArchived
  <2>3. \A x \in Claims' : \/ x \in Claims \/ x[1] = Nothing
                          \/ x = <<id, archive.index[id].evidence>>
    BY <2>1, <2>2 DEF Claims, Start, NoStart
  <2>4. Sound(archive, dropped, nextSample, Loose, Claims')
    <3>1. Fits(<<id, archive.index[id].evidence>>)
      BY DEF Fits
    <3>2. ClaimsFit
      BY <2>3, <3>1 DEF ClaimsFit
    <3> QED
      BY <1>6, <3>2
  <2>5. Ahead(SetVisibility(read), nextSample, Claims')
    BY <1>1, <2>4, VisibilityAhead
  <2> QED
    BY <1>0, <2>1, <2>2, <2>5
<1>10. CASE RemoveFromLatest
  <2>1. /\ UNCHANGED <<archive, dropped, after, nextSample, thread, signals, analysing, overtakings>>
        /\ \E read \in Readings : todo' = SetVisibility(read)
    BY <1>10 DEF RemoveFromLatest
  <2>2. Claims' = Claims
    BY <2>1 DEF Claims
  <2> QED
    BY <1>0, <1>1, <1>2, <2>1, <2>2, VisibilityAhead
<1>11. CASE DeleteSample
  <2>1. /\ UNCHANGED <<archive, dropped, after, nextSample, thread, signals, analysing, overtakings>>
        /\ \E id \in DOMAIN archive.index : todo' = DeletePermanently(id)
    BY <1>11 DEF DeleteSample, Samples
  <2>2. Claims' = Claims
    BY <2>1 DEF Claims
  <2> QED
    BY <1>0, <1>1, <1>2, <2>1, <2>2, DeleteAhead
<1>12. CASE MigrateReport
  <2>1. /\ UNCHANGED <<archive, dropped, after, thread, signals, analysing, overtakings>> /\ nextSample' = nextSample + 1
        /\ \E read \in Readings, readable \in BOOLEAN : \E s \in Sources \ read.migrated :
             todo' = ImportSnapshot(read, readable, "report", s)
    BY <1>12 DEF MigrateReport
  <2>2. Claims' = Claims
    BY <2>1 DEF Claims
  <2>3. Sound(archive, dropped, nextSample + 1, Loose, Claims')
    BY <1>6, <2>2 DEF ClaimsFit
  <2>4. \A read \in Readings, readable \in BOOLEAN : \A s \in Sources \ read.migrated :
          Ahead(ImportSnapshot(read, readable, "report", s), nextSample + 1, Claims')
    BY <1>1, <1>3, <2>3, ImportAhead
  <2> QED
    BY <1>0, <2>1, <2>2, <2>4
<1>13. CASE ThreadEnds \/ StartThread \/ HandleFinished \/ UNCHANGED historyVars
  <2>1. /\ ClaimsKept /\ UNCHANGED <<archive, dropped, todo, nextSample>>
        /\ Loose => Loose'
    BY <1>4, <1>13, QuietStep
  <2>2. SoundAhead(archive, dropped, todo, nextSample, Loose', Claims')
    BY <1>1, <2>1, AheadKept DEF HistoryInv
  <2> QED
    BY <1>0, <2>1, <2>2
<1>14. CASE HandleResult
  <2>1. /\ UNCHANGED <<archive, dropped, after, thread, analysing, overtakings>>
        /\ signals # <<>> /\ Head(signals).signal # "finished" /\ signals' = Tail(signals) /\ todo = <<>>
    BY <1>14 DEF HandleResult, Free
  <2>2. ClaimsKept
    <3>1. overtakings = 0 => signals' = <<Finished>>
      BY <1>4, <2>1, ResultAhead
    <3>2. Head(<<Finished>>).signal = "finished"
      BY Signals DEF Finished
    <3>3. ASSUME NEW c \in Claims' PROVE c \in Claims \/ c[1] = Nothing
      <4>1. \/ c = <<after.sample, after.evidence>>
            \/ overtakings = 0 /\ thread # Nothing /\ c = <<analysing, thread>>
        BY <2>1, <3>1, <3>2, <3>3 DEF Claims
      <4> QED
        BY <4>1 DEF Claims
    <3> QED
      BY <3>3 DEF ClaimsKept
  <2>3. /\ Sound(archive, dropped, nextSample, Loose, Claims')
        /\ Sound(archive, dropped, nextSample + 1, Loose, Claims')
    BY <1>6, <2>2 DEF ClaimsKept, ClaimsFit
  <2>4. CASE todo' = todo /\ nextSample' = nextSample
    <3>1. Ahead(todo, nextSample, Claims')
      BY <1>1, <1>0, <2>1, <2>2, AheadKept DEF HistoryInv
    <3> QED
      BY <1>0, <2>1, <2>4, <3>1
  <2>5. CASE /\ analysing # Nothing /\ nextSample' = nextSample
             /\ \E read \in Readings : todo' = Attach(read, analysing, Head(signals).evidence)
    <3>1. Loose \/ <<analysing, Head(signals).evidence>> \in Claims
      BY <1>4, <2>1 DEF Claims, HistoryTypes, Loose
    <3>2. analysing \in DOMAIN archive.index =>
            Loose \/ archive.index[analysing].evidence \in {Nothing, Head(signals).evidence}
      BY <1>2, <3>1 DEF Sound
    <3>3. \A read \in Readings :
            Ahead(Attach(read, analysing, Head(signals).evidence), nextSample, Claims')
      BY <1>1, <2>3, <3>2, AttachAhead
    <3> QED
      BY <1>0, <2>1, <2>5, <3>3
  <2>6. CASE /\ \E read \in Readings, readable \in BOOLEAN :
                  todo' = ImportSnapshot(read, readable, Head(signals).evidence, Nothing)
             /\ nextSample' = nextSample + 1
    <3>1. \A read \in Readings : Nothing \notin read.migrated
      BY <1>2, HistoryAssumption DEF Sound, Readings, IndexRead, NoPayload, Payload
    <3>2. \A read \in Readings, readable \in BOOLEAN :
            Ahead(ImportSnapshot(read, readable, Head(signals).evidence, Nothing), nextSample + 1, Claims')
      BY <1>1, <1>3, <2>3, <3>1, ImportAhead
    <3> QED
      BY <1>0, <2>1, <2>6, <3>2
  <2> QED
    BY <1>14, <2>4, <2>5, <2>6 DEF HandleResult
<1>15. CASE WriteNext
  <2>1. /\ UNCHANGED <<after, nextSample, thread, signals, analysing, overtakings>>
        /\ todo # <<>> /\ archive' = Written(archive, Head(todo)) /\ todo' = Tail(todo)
        /\ dropped' = Lost(archive, dropped, Head(todo))
    BY <1>15 DEF WriteNext, Lost
  <2>2. Claims' = Claims
    BY <2>1 DEF Claims
  <2> QED
    BY <1>0, <2>1, <2>2, AheadOfTail DEF HistoryInv
<1>16. CASE WriteFails
  <2>1. /\ UNCHANGED <<archive, dropped, nextSample, thread, signals, analysing, overtakings>> /\ todo' = <<>>
        /\ after'.sample = Nothing
    BY <1>4, <1>16 DEF WriteFails, NoStart, HistoryTypes
  <2>2. ClaimsKept
    BY <2>1 DEF ClaimsKept, Claims
  <2> QED
    BY <1>0, <1>6, <2>1, <2>2, AheadTuples DEF ClaimsKept, ClaimsFit
<1>17. CASE RestartWindow
  <2>1. /\ UNCHANGED <<archive, dropped, nextSample, overtakings>> /\ todo' = <<>>
        /\ after'.sample = Nothing /\ thread' = Nothing /\ signals' = <<>>
    BY <1>17 DEF RestartWindow, NoStart
  <2>2. ClaimsKept
    BY <2>1 DEF ClaimsKept, Claims
  <2> QED
    BY <1>0, <1>6, <2>1, <2>2, AheadTuples DEF ClaimsKept, ClaimsFit
<1> QED
  BY <1>7, <1>8, <1>9, <1>10, <1>11, <1>12, <1>13, <1>14, <1>15, <1>16, <1>17 DEF HistoryNext

LEMMA HistoryInvInit == HistoryInit => HistoryInv
<1> SUFFICES ASSUME HistoryInit PROVE HistoryInv
  OBVIOUS
<1>1. HistoryTypes
  BY DEF HistoryInit, HistoryTypes, NoStart
<1>2. Sound(archive, dropped, nextSample, Loose, Claims)
  BY DEF HistoryInit, Sound
<1> QED
  BY <1>1, <1>2, AheadTuples DEF HistoryInit, HistoryInv

\* desktop_ui/sample_archive.py, for any contents and sources: whatever is
\* loaded, deleted, fails or is killed between two writes, and whenever the
\* index cannot be read, the evidence that a record names stays, a saved
\* analysis is there and is of that evidence, and no deleted report comes back
\* unless an index read as empty was written since.
THEOREM HistoryIsKept == HistorySpec => []HistoryKept
<1>1. HistoryInv => HistoryKept
  <2> SUFFICES ASSUME HistoryInv, NEW id \in Samples
               PROVE  LET sample == archive.index[id] IN
                      /\ sample.evidence # Nothing => sample.evidence \in archive.objects
                      /\ sample.saved =>
                           /\ id \in DOMAIN archive.snapshots
                           /\ overtakings > 0 \/ sample.evidence \in {Nothing, archive.snapshots[id]}
                      /\ sample.source \notin dropped
    BY DEF HistoryKept
  <2>1. Sound(archive, dropped, nextSample, Loose, Claims)
    BY SoundNow DEF HistoryInv
  <2> QED
    BY <2>1, HistoryAssumption DEF Sound, Samples, Loose
<1> QED
  BY <1>1, HistoryInvInit, HistoryInvStep, PTL DEF HistorySpec

-----------------------------------------------------------------------------
(* The workbench's panels *)

ScreenStages == {"begun", "running", "assign", "done"} \cup Refreshing
View == [what : {"results", "overlay", "none"}, of : Actors]
Detail == [decoder : DecoderIds, of : Actors]
ScreenTask ==
    [kind : {"none", "analysis", "decoder", "report", "overlay", "dashboard"}, at : ScreenStages,
     field : Fields, shows : View]

AppState ==
    [snapshot : Nat, decoder : DecoderIds, started : 0 .. MaxRequests, exited : BOOLEAN]

\* The types, as long as no refreshes of one panel overlap: no task is lost
\* and there is at most one panel of details.
ScreenTypes ==
    /\ app \in AppState /\ ~app.exited
    /\ panels \in [cards : Nat, view : View, details : {<<>>} \cup {<<d>> : d \in Detail}]
    /\ tasks \in [Actors -> ScreenTask]
    /\ app.snapshot \in 0 .. app.started

\* What each task may be at: a request that is not started is at rest, a
\* worker goes on to the details, the handler is at rest or in a refresh.
Placed ==
    /\ \A i \in Workers : /\ i > app.started => tasks[i].at = "done"
                          /\ tasks[i].at # "done" => tasks[i].kind \in {"analysis", "decoder"}
    /\ tasks[Handler].at \in {"done"} \cup InView \cup InDetails
    /\ tasks[Handler].at \in {"viewOut", "viewIn"} =>
         tasks[Handler].kind \in {"report", "overlay", "dashboard"}
    /\ tasks[app.snapshot].at \in {"done"} \cup Refreshing

\* Of each panel, one task at most is refreshing it, and it is missing exactly
\* while that task is between the removal and the mount.
OneRefresh ==
    /\ \A a, b \in Actors : tasks[a].at \in InView /\ tasks[b].at \in InView => a = b
    /\ \A a, b \in Actors : tasks[a].at \in InDetails /\ tasks[b].at \in InDetails => a = b
    /\ panels.view.what = "none" => panels.view = NoView
    /\ panels.view.what = "none" <=> \E a \in Actors : tasks[a].at = "viewIn"
    /\ panels.details = <<>> <=> \E a \in Actors : tasks[a].at = "detailsIn"
    /\ \A a \in Actors : tasks[a].at \in {"viewOut", "viewIn"} => tasks[a].shows.what # "none"

Building(a) == tasks[a].at \in {"viewOut", "viewIn"}
Pending == \E a \in Actors : tasks[a].at = "results"

\* A task that will come to the details.
Continues(a) ==
    \/ tasks[a].at \in {"results", "viewSeen", "details"} \cup InDetails
    \/ Building(a) /\ tasks[a].kind \in {"analysis", "decoder", "report"}

\* What a panel does not show yet has a task that will make it good.
MadeGood ==
    /\ panels.cards = app.snapshot \/ Pending
    /\ \A a \in Actors : Building(a) => tasks[a].shows.of = app.snapshot \/ Pending
    /\ panels.view.of = app.snapshot \/ Pending \/ \E a \in Actors : Building(a)
    /\ \A d \in Detail : panels.details = <<d>> =>
         /\ d.decoder = app.decoder \/ \E a \in Actors : tasks[a].at \in InDetails
         /\ d.of = app.snapshot \/ \E a \in Actors : Continues(a)

ScreenFacts == ScreenTypes /\ Placed /\ OneRefresh /\ MadeGood
ScreenInv == overlapped \in BOOLEAN /\ (~overlapped => ScreenFacts)

LEMMA ScreenInvInit == ScreensInit => ScreenInv
<1> SUFFICES ASSUME ScreensInit PROVE ScreenInv
  OBVIOUS
<1> USE ScreensAssumption DEF ScreensInit, Actors, Workers, Handler
<1>1. \A a \in Actors : tasks[a] = Task_("none", "done")
  OBVIOUS
<1>2. Task_("none", "done") \in ScreenTask /\ Task_("none", "done").at = "done"
  BY DEF Task_, ScreenTask, ScreenStages, Fields, View, NoView
<1>3. ScreenTypes
  BY <1>1, <1>2 DEF ScreenTypes, AppState, Fields, View, Detail
<1>4. Placed /\ OneRefresh /\ MadeGood
  BY <1>1, <1>2 DEF Placed, OneRefresh, MadeGood, InView, InDetails, Building, Detail
<1> QED
  BY <1>3, <1>4 DEF ScreenInv, ScreenFacts

\* One task moves, and the others stay where they are.
LEMMA OneMoves ==
  ASSUME ScreenTypes, NEW a \in Actors, NEW t \in ScreenTask, tasks' = [tasks EXCEPT ![a] = t]
  PROVE  /\ tasks' \in [Actors -> ScreenTask] /\ tasks'[a] = t
         /\ \A b \in Actors : b # a => tasks'[b] = tasks[b]
  BY DEF ScreenTypes

LEMMA TaskAt ==
  ASSUME NEW t \in ScreenTask, NEW stage \in ScreenStages
  PROVE  /\ [t EXCEPT !.at = stage] \in ScreenTask /\ [t EXCEPT !.at = stage].at = stage
         /\ [t EXCEPT !.at = stage].kind = t.kind /\ [t EXCEPT !.at = stage].shows = t.shows
  BY DEF ScreenTask

LEMMA NewTask ==
  ASSUME NEW kind \in {"none", "analysis", "decoder", "report", "overlay", "dashboard"},
         NEW stage \in ScreenStages
  PROVE  /\ Task_(kind, stage) \in ScreenTask /\ Task_(kind, stage).at = stage
         /\ Task_(kind, stage).kind = kind
  BY DEF Task_, ScreenTask, Fields, View, NoView, Actors, Handler

\* What follows the mount.
LEMMA Following ==
  ASSUME NEW kind \in {"analysis", "decoder", "report", "overlay", "dashboard"}
  PROVE  /\ AfterView(kind) \in {"viewSeen", "details", "done"}
         /\ AfterView(kind) = "details" => kind = "decoder"
         /\ AfterView(kind) = "done" => kind \in {"overlay", "dashboard"}
<1>1. CASE kind \in {"analysis", "report"}
  BY <1>1 DEF AfterView
<1>2. CASE kind = "decoder"
  BY <1>2 DEF AfterView
<1>3. CASE kind \in {"overlay", "dashboard"}
  BY <1>3 DEF AfterView
<1> QED
  BY <1>1, <1>2, <1>3

LEMMA TaskAfter ==
  ASSUME NEW kind \in {"analysis", "decoder", "report", "overlay", "dashboard"}
  PROVE  /\ Task_(kind, AfterView(kind)) \in ScreenTask
         /\ Task_(kind, AfterView(kind)).at = AfterView(kind)
         /\ Task_(kind, AfterView(kind)).kind = kind
<1>1. AfterView(kind) \in ScreenStages
  BY Following DEF ScreenStages, Refreshing, InView
<1> QED
  BY <1>1, NewTask

LEMMA TaskShows ==
  ASSUME NEW t \in ScreenTask, NEW what \in {"results", "overlay"}, NEW n \in Actors
  PROVE  /\ [t EXCEPT !.shows = Shows(what, n)] \in ScreenTask
         /\ [t EXCEPT !.shows = Shows(what, n)].kind = t.kind
         /\ [t EXCEPT !.shows = Shows(what, n)].shows = Shows(what, n)
<1>1. Shows(what, n) \in View
  BY DEF Shows, View
<1> QED
  BY <1>1 DEF ScreenTask

LEMMA ScreenInvStep == ScreenInv /\ [ScreensNext]_screenVars => ScreenInv'
<1> SUFFICES ASSUME ScreenInv, ScreensNext PROVE ScreenInv'
  <2>1. CASE UNCHANGED screenVars
    BY <2>1 DEF screenVars, ScreenInv, ScreenFacts, ScreenTypes, Placed, OneRefresh, MadeGood, Building,
                Pending, Continues
  <2> QED
    BY <2>1
<1>a. overlapped' \in BOOLEAN /\ (overlapped => overlapped')
  <2> DEFINE Grown == overlapped' \in BOOLEAN /\ (overlapped => overlapped')
  <2> SUFFICES Grown
    OBVIOUS
  <2>1. ASSUME NEW a, NEW stages, Overlaps(a, stages) PROVE Grown
    BY <2>1 DEF Overlaps
  <2>2. ASSUME UNCHANGED overlapped PROVE Grown
    BY <2>2 DEF ScreenInv
  <2>3. ASSUME NEW a, NEW task, NEW state, QueryView(a, task, state) \/ QueryDetails(a, state) PROVE Grown
    BY <2>1, <2>3 DEF QueryView, QueryDetails
  <2> HIDE DEF Grown
  <2>4. CASE Submit \/ SelectDecoder \/ LoadReport \/ ShowOverlay \/ ShowDashboard
    <3>1. CASE Submit
      BY <2>2, <3>1 DEF Submit
    <3>2. CASE SelectDecoder
      BY <2>3, <3>2, Zenon DEF SelectDecoder
    <3>3. CASE LoadReport
      BY <2>3, <3>3, Zenon DEF LoadReport
    <3>4. CASE ShowOverlay
      BY <2>3, <3>4, Zenon DEF ShowOverlay
    <3>5. CASE ShowDashboard
      BY <2>3, <3>5, Zenon DEF ShowDashboard
    <3> QED
      BY <2>4, <3>1, <3>2, <3>3, <3>4, <3>5
  <2>5. ASSUME NEW i \in Workers, \/ ReadField(i) \/ Work(i) \/ AssignSnapshot(i)
                                  \/ RefreshResults(i) \/ RefreshDetails(i)
        PROVE  Grown
    BY <2>2, <2>3, <2>5, Zenon DEF ReadField, Work, AssignSnapshot, RefreshResults, RefreshDetails
  <2>6. ASSUME NEW a \in Actors, \/ DetachView(a) \/ MountView(a) \/ RevealView(a)
                                 \/ DetachDetails(a) \/ MountDetails(a)
        PROVE  Grown
    BY <2>2, <2>3, <2>6, Zenon DEF DetachView, MountView, RevealView, DetachDetails, MountDetails
  <2> QED
    BY <2>4, <2>5, <2>6 DEF ScreensNext
<1> SUFFICES ASSUME ~overlapped, ~overlapped', ScreenFacts PROVE ScreenFacts'
  BY <1>a DEF ScreenInv
<1> USE ScreensAssumption DEF Actors, Workers, Handler
<1>b. /\ ScreenTypes /\ \A b \in Actors : tasks[b] \in ScreenTask
      /\ ~app.exited /\ app.started \in 0 .. MaxRequests /\ app.snapshot \in 0 .. app.started
      /\ panels.details \in {<<>>} \cup {<<d>> : d \in Detail}
  BY DEF ScreenFacts, ScreenTypes, AppState
\* A step that moves one task that refreshes nothing, to where it refreshes nothing.
<1>c. ASSUME NEW a \in Actors, NEW t \in ScreenTask, tasks' = [tasks EXCEPT ![a] = t],
             tasks[a].at \in {"begun", "running", "done"}, t.at \in {"begun", "running", "assign", "done"},
             t.at # "done" => a \in Workers /\ t.kind \in {"analysis", "decoder"} /\ a <= app'.started,
             UNCHANGED panels, app' \in AppState, ~app'.exited,
             app'.snapshot = app.snapshot, app'.decoder = app.decoder, app.started <= app'.started,
             a = app.snapshot => t.at = "done"
      PROVE  ScreenFacts'
  <2>1. /\ tasks' \in [Actors -> ScreenTask] /\ tasks'[a] = t
        /\ \A b \in Actors : b # a => tasks'[b] = tasks[b]
    BY <1>b, <1>c, OneMoves
  <2>2. ScreenTypes'
    BY <1>b, <1>c, <2>1 DEF ScreenTypes, AppState
  <2>3. Placed'
    <3>1. app'.started \in 0 .. MaxRequests /\ UNCHANGED panels /\ app'.snapshot = app.snapshot
      BY <1>c DEF AppState
    <3>2. \A i \in Workers : /\ i > app'.started => tasks'[i].at = "done"
                             /\ tasks'[i].at # "done" => tasks'[i].kind \in {"analysis", "decoder"}
      BY <1>b, <1>c, <2>1, <3>1 DEF ScreenFacts, Placed
    <3>3. /\ tasks'[Handler].at \in {"done"} \cup InView \cup InDetails
          /\ tasks'[Handler].at \in {"viewOut", "viewIn"} =>
               tasks'[Handler].kind \in {"report", "overlay", "dashboard"}
      BY <1>b, <1>c, <2>1 DEF ScreenFacts, Placed
    <3>4. tasks'[app'.snapshot].at \in {"done"} \cup Refreshing
      BY <1>b, <1>c, <2>1, <3>1 DEF ScreenFacts, Placed
    <3> QED
      BY <3>2, <3>3, <3>4 DEF Placed
  <2>4. OneRefresh'
    BY <1>b, <1>c, <2>1 DEF ScreenFacts, OneRefresh, InView, InDetails
  <2>5. MadeGood'
    BY <1>b, <1>c, <2>1 DEF ScreenFacts, MadeGood, InDetails, Building, Pending, Continues
  <2> QED
    BY <2>2, <2>3, <2>4, <2>5 DEF ScreenFacts
<1>1. CASE Submit
  <2>1. PICK kind \in {"analysis", "decoder"} :
          Fresh <= MaxRequests /\ tasks' = [tasks EXCEPT ![Fresh] = Task_(kind, "begun")]
    BY <1>1 DEF Submit, Started
  <2>2. /\ UNCHANGED panels /\ app'.started = Fresh
        /\ app' \in AppState /\ ~app'.exited
        /\ app'.snapshot = app.snapshot /\ app'.decoder = app.decoder
    <3>1. Fresh \in 0 .. MaxRequests
      BY <1>b, <2>1 DEF Fresh
    <3> QED
      BY <1>1, <1>b, <3>1 DEF Submit, ScreenTypes, AppState
  <2>3. Task_(kind, "begun") \in ScreenTask /\ Task_(kind, "begun").at = "begun" /\ Task_(kind, "begun").kind = kind
    BY NewTask DEF ScreenStages
  <2>4. Fresh \in Workers /\ Fresh > app.started /\ Fresh # app.snapshot /\ tasks[Fresh].at = "done"
    <3>1. app.started + 1 \in Workers /\ app.started + 1 > app.started /\ app.started + 1 # app.snapshot
      BY <1>b, <2>1 DEF Fresh
    <3> QED
      BY <3>1 DEF Fresh, ScreenFacts, Placed
  <2> QED
    <3>1. PICK n \in Workers, t \in ScreenTask : n = Fresh /\ t = Task_(kind, "begun")
      BY <2>3, <2>4
    <3>2. /\ n \in Actors /\ tasks' = [tasks EXCEPT ![n] = t] /\ tasks[n].at = "done" /\ t.at = "begun"
          /\ t.kind \in {"analysis", "decoder"} /\ n <= app'.started /\ n # app.snapshot
          /\ app.started <= app'.started
      BY <1>b, <2>1, <2>2, <2>3, <2>4, <3>1
    <3> QED
      BY <1>c, <2>2, <3>1, <3>2
<1>3. ASSUME NEW i \in Workers, ReadField(i) \/ Work(i) PROVE ScreenFacts'
  <2>1. /\ tasks[i].at \in {"begun", "running"} /\ tasks[i].kind \in {"analysis", "decoder"}
        /\ i <= app.started /\ UNCHANGED <<app, panels>> /\ i # app.snapshot
    BY <1>3, <1>b DEF ReadField, Work, ScreenFacts, Placed, Refreshing, InView, InDetails
  <2>2. PICK t \in ScreenTask : /\ tasks' = [tasks EXCEPT ![i] = t] /\ t.kind = tasks[i].kind
                                /\ t.at \in {"running", "assign", "done"}
    <3>1. CASE ReadField(i)
      <4>0. PICK field \in Fields : tasks' = [tasks EXCEPT ![i].at = "running", ![i].field = field]
        BY <3>1 DEF ReadField
      <4> DEFINE t == [tasks[i] EXCEPT !.at = "running", !.field = field]
      <4>1. tasks' = [tasks EXCEPT ![i] = t]
        BY <4>0
      <4>2. t \in ScreenTask /\ t.kind = tasks[i].kind /\ t.at = "running"
        BY <1>b DEF ScreenTask, ScreenStages, ScreenTypes
      <4> QED
        BY <4>1, <4>2
    <3>2. CASE Work(i)
      <4>1. PICK stage \in {"done", "assign"} : tasks' = [tasks EXCEPT ![i] = Task_(tasks[i].kind, stage)]
        BY <3>2 DEF Work
      <4> QED
        <5>1. /\ Task_(tasks[i].kind, stage) \in ScreenTask /\ Task_(tasks[i].kind, stage).at = stage
              /\ Task_(tasks[i].kind, stage).kind = tasks[i].kind
          BY <2>1, NewTask DEF ScreenStages
        <5> QED
          BY <4>1, <5>1
    <3> QED
      BY <1>3, <3>1, <3>2
  <2> QED
    <3>1. /\ i \in Actors /\ app' \in AppState /\ ~app'.exited /\ app.started <= app'.started
          /\ i <= app'.started /\ app'.snapshot = app.snapshot /\ app'.decoder = app.decoder
      BY <1>b, <2>1 DEF ScreenTypes
    <3> QED
      BY <1>c, <2>1, <2>2, <3>1
<1>4. ASSUME NEW i \in Workers, AssignSnapshot(i) PROVE ScreenFacts'
  <2>1. /\ tasks[i].at = "assign" /\ tasks[i].kind \in {"analysis", "decoder"} /\ i <= app.started
        /\ UNCHANGED panels
    BY <1>4, <1>b DEF AssignSnapshot, ScreenFacts, Placed
  <2>2. PICK t \in ScreenTask : tasks' = [tasks EXCEPT ![i] = t] /\ t.at = "results" /\ t.kind = tasks[i].kind
    BY <1>4, <1>b, TaskAt DEF AssignSnapshot, ScreenStages, Refreshing
  <2>3. /\ tasks' \in [Actors -> ScreenTask] /\ tasks'[i] = t
        /\ \A b \in Actors : b # i => tasks'[b] = tasks[b]
    BY <1>b, <2>2, OneMoves
  <2>4. /\ ScreenTypes' /\ app'.snapshot = i /\ app'.decoder = app.decoder /\ app'.started = app.started
    BY <1>4, <1>b, <2>1, <2>3 DEF AssignSnapshot, ScreenTypes, AppState
  <2>5. Placed'
    BY <1>b, <2>1, <2>2, <2>3, <2>4 DEF ScreenFacts, Placed, Refreshing
  <2>6. OneRefresh'
    BY <1>b, <2>1, <2>2, <2>3, <2>4 DEF ScreenFacts, OneRefresh, InView, InDetails
  <2>7. MadeGood'
    BY <1>b, <2>1, <2>2, <2>3, <2>4 DEF ScreenFacts, MadeGood, InDetails, Building, Pending, Continues
  <2> QED
    BY <2>4, <2>5, <2>6, <2>7 DEF ScreenFacts
\* The query of a view that no other task refreshes finds it.
<1>5. ASSUME NEW a \in Actors, NEW task \in ScreenTask, NEW state \in AppState, ~state.exited,
             QueryView(a, task, state), tasks[a].at \notin InView
      PROVE  /\ \A b \in Actors : tasks[b].at \notin InView
             /\ panels.view.what # "none" /\ app' \in AppState /\ ~app'.exited
             /\ app'.snapshot = state.snapshot /\ app'.decoder = state.decoder /\ app'.started = state.started
             /\ \E t \in ScreenTask : /\ tasks' = [tasks EXCEPT ![a] = t] /\ t.at = "viewOut"
                                      /\ t.kind = task.kind /\ t.shows = task.shows
  <2>1. \A b \in Actors : tasks[b].at \notin InView
    BY <1>5 DEF QueryView, Overlaps
  <2>2. panels.view.what # "none" /\ panels.view # NoView
    BY <2>1 DEF ScreenFacts, OneRefresh, InView, NoView
  <2>3. app' = [state EXCEPT !.exited = FALSE] /\ tasks' = [tasks EXCEPT ![a] = [task EXCEPT !.at = "viewOut"]]
    BY <1>5, <2>2 DEF QueryView
  <2>4. app' \in AppState /\ ~app'.exited /\ app'.snapshot = state.snapshot
        /\ app'.decoder = state.decoder /\ app'.started = state.started
    BY <2>3 DEF AppState
  <2>5. "viewOut" \in ScreenStages
    BY DEF ScreenStages, Refreshing, InView
  <2> QED
    BY <2>1, <2>2, <2>3, <2>4, <2>5, TaskAt
<1>6. ASSUME NEW a \in Actors, NEW state \in AppState, ~state.exited,
             QueryDetails(a, state), tasks[a].at \notin InDetails
      PROVE  /\ \A b \in Actors : tasks[b].at \notin InDetails
             /\ panels.details # <<>> /\ app' \in AppState /\ ~app'.exited
             /\ app'.snapshot = state.snapshot /\ app'.decoder = state.decoder /\ app'.started = state.started
             /\ \E t \in ScreenTask : tasks' = [tasks EXCEPT ![a] = t] /\ t.at = "detailsOut"
                                      /\ t.kind = tasks[a].kind
  <2>1. \A b \in Actors : tasks[b].at \notin InDetails
    BY <1>6 DEF QueryDetails, Overlaps
  <2>2. panels.details # <<>>
    BY <2>1 DEF ScreenFacts, OneRefresh, InDetails
  <2>3. app' = [state EXCEPT !.exited = FALSE]
        /\ tasks' = [tasks EXCEPT ![a] = [tasks[a] EXCEPT !.at = "detailsOut"]]
    BY <1>6, <2>2 DEF QueryDetails
  <2>4. app' \in AppState /\ ~app'.exited /\ app'.snapshot = state.snapshot
        /\ app'.decoder = state.decoder /\ app'.started = state.started
    BY <2>3 DEF AppState
  <2>5. "detailsOut" \in ScreenStages
    BY DEF ScreenStages, Refreshing, InDetails
  <2> QED
    BY <1>b, <2>1, <2>2, <2>3, <2>4, <2>5, TaskAt
\* A refresh of the view begins.
<1>7. ASSUME NEW a \in Actors, NEW t \in ScreenTask, tasks' = [tasks EXCEPT ![a] = t],
             t.at = "viewOut", tasks[a].at \in {"done", "results"},
             \A b \in Actors : tasks[b].at \notin InView, panels.view.what # "none",
             app' \in AppState, ~app'.exited, app'.decoder = app.decoder, app.started <= app'.started,
             app'.snapshot \in 0 .. app'.started, t.shows.of = app'.snapshot, t.shows.what # "none",
             panels' = panels \/ panels' = [panels EXCEPT !.cards = app'.snapshot],
             app'.snapshot = app.snapshot \/ (/\ tasks[app'.snapshot].at = "done" /\ t.kind = "report"
                                              /\ a # app'.snapshot /\ panels'.cards = app'.snapshot),
             tasks[a].at = "results" => panels'.cards = app'.snapshot /\ t.kind = tasks[a].kind,
             IF a = Handler THEN t.kind \in {"report", "overlay", "dashboard"} ELSE tasks[a].at = "results"
      PROVE  ScreenFacts'
  <2>1. /\ tasks' \in [Actors -> ScreenTask] /\ tasks'[a] = t
        /\ \A b \in Actors : b # a => tasks'[b] = tasks[b]
    BY <1>b, <1>7, OneMoves
  <2>2. /\ panels' \in [cards : Nat, view : View, details : {<<>>} \cup {<<d>> : d \in Detail}]
        /\ panels'.view = panels.view /\ panels'.details = panels.details
        /\ panels'.cards = panels.cards \/ panels'.cards = app'.snapshot
    BY <1>b, <1>7 DEF ScreenTypes, AppState
  <2>3. ScreenTypes'
    BY <1>7, <2>1, <2>2 DEF ScreenTypes
  <2>4. Placed'
    <3>1. \A i \in Workers : /\ i > app'.started => tasks'[i].at = "done"
                             /\ tasks'[i].at # "done" => tasks'[i].kind \in {"analysis", "decoder"}
      BY <1>b, <1>7, <2>1 DEF ScreenFacts, Placed, AppState
    <3>2. /\ tasks'[Handler].at \in {"done"} \cup InView \cup InDetails
          /\ tasks'[Handler].at \in {"viewOut", "viewIn"} =>
               tasks'[Handler].kind \in {"report", "overlay", "dashboard"}
      BY <1>7, <2>1 DEF ScreenFacts, Placed, InView
    <3>3. tasks'[app'.snapshot].at \in {"done"} \cup Refreshing
      BY <1>b, <1>7, <2>1, <2>3 DEF ScreenFacts, Placed, Refreshing, InView, ScreenTypes, AppState
    <3> QED
      BY <3>1, <3>2, <3>3 DEF Placed
  <2>5. OneRefresh'
    BY <1>7, <2>1, <2>2 DEF ScreenFacts, OneRefresh, InView, InDetails
  <2>6. MadeGood'
    <3>1. panels'.cards = app'.snapshot \/ Pending'
      BY <1>7, <2>1, <2>2 DEF ScreenFacts, MadeGood, Pending
    <3>2. \A b \in Actors : Building(b)' => tasks'[b].shows.of = app'.snapshot
      BY <1>7, <2>1 DEF Building, InView
    <3>3. Building(a)'
      BY <1>7, <2>1 DEF Building
    <3>4. \A d \in Detail : panels.details = <<d>> =>
            d.decoder = app.decoder \/ \E b \in Actors : tasks'[b].at \in InDetails
      BY <1>7, <2>1 DEF ScreenFacts, MadeGood, InDetails
    <3>5. \A d \in Detail : panels.details = <<d>> => d.of = app'.snapshot \/ \E b \in Actors : Continues(b)'
      <4>1. CASE tasks[a].at = "results" \/ app'.snapshot # app.snapshot
        <5>1. t.kind \in {"analysis", "decoder", "report"}
          BY <1>7, <4>1 DEF ScreenFacts, Placed, InView, InDetails
        <5> QED
          BY <1>7, <2>1, <3>3, <5>1 DEF Continues
      <4>2. CASE tasks[a].at = "done" /\ app'.snapshot = app.snapshot
        BY <1>7, <2>1, <4>2 DEF ScreenFacts, MadeGood, Continues, Building, InDetails
      <4> QED
        BY <1>7, <4>1, <4>2
    <3> QED
      BY <1>7, <2>2, <3>1, <3>2, <3>3, <3>4, <3>5 DEF MadeGood
  <2> QED
    BY <2>3, <2>4, <2>5, <2>6 DEF ScreenFacts
\* A refresh of the details begins, or a task that refreshed goes on or ends.
<1>8. ASSUME NEW a \in Actors, NEW t \in ScreenTask, tasks' = [tasks EXCEPT ![a] = t],
             t.at = "detailsOut", tasks[a].at \in {"done", "details", "viewSeen"},
             \A b \in Actors : tasks[b].at \notin InDetails, panels.details # <<>>,
             t.kind = tasks[a].kind, tasks[a].at = "done" => a = Handler,
             app' \in AppState, ~app'.exited, app'.snapshot = app.snapshot, app'.started = app.started,
             UNCHANGED panels
      PROVE  ScreenFacts'
  <2>1. /\ tasks' \in [Actors -> ScreenTask] /\ tasks'[a] = t
        /\ \A b \in Actors : b # a => tasks'[b] = tasks[b]
    BY <1>b, <1>8, OneMoves
  <2>2. ScreenTypes'
    BY <1>b, <1>8, <2>1 DEF ScreenTypes
  <2>3. Placed'
    BY <1>b, <1>8, <2>1 DEF ScreenFacts, Placed, Refreshing, InView, InDetails
  <2>4. OneRefresh'
    BY <1>8, <2>1 DEF ScreenFacts, OneRefresh, InView, InDetails
  <2>5. MadeGood'
    BY <1>8, <2>1 DEF ScreenFacts, MadeGood, InDetails, Building, Pending, Continues
  <2> QED
    BY <2>2, <2>3, <2>4, <2>5 DEF ScreenFacts
<1>9. ASSUME NEW a \in Actors, DetachView(a) PROVE ScreenFacts'
  <2>1. PICK t \in ScreenTask : t = [tasks[a] EXCEPT !.at = "viewIn"] /\ t.at = "viewIn"
                                /\ t.kind = tasks[a].kind /\ t.shows = tasks[a].shows
    BY <1>b, TaskAt DEF ScreenStages, Refreshing, InView
  <2>a. t.at = "viewIn" /\ t.kind = tasks[a].kind /\ t.shows = tasks[a].shows
    BY <2>1
  <2>2. /\ tasks[a].at = "viewOut" /\ UNCHANGED app
        /\ \A b \in Actors : b # a => tasks[b].at \notin InView
    BY <1>9 DEF DetachView, ScreenFacts, OneRefresh, InView
  <2>3. /\ tasks' \in [Actors -> ScreenTask] /\ tasks'[a] = t
        /\ \A b \in Actors : b # a => tasks'[b] = tasks[b]
    <3>1. tasks' = [b \in Actors |-> IF b = a THEN t ELSE tasks[b]]
      BY <1>9, <2>1, <2>2 DEF DetachView, InView
    <3> QED
      BY <1>b, <3>1
  <2>4. /\ panels' \in [cards : Nat, view : View, details : {<<>>} \cup {<<d>> : d \in Detail}]
        /\ panels'.cards = panels.cards /\ panels'.view = NoView /\ panels'.details = panels.details
    <3>1. NoView \in View
      BY DEF NoView, View
    <3> QED
      BY <1>9, <1>b, <3>1 DEF DetachView, ScreenTypes
  <2>5. ScreenTypes'
    BY <1>b, <2>2, <2>3, <2>4 DEF ScreenTypes
  <2>6. Placed'
    BY <1>b, <2>a, <2>2, <2>3 DEF ScreenFacts, Placed, Refreshing, InView, InDetails
  <2>7. OneRefresh'
    BY <2>a, <2>2, <2>3, <2>4 DEF ScreenFacts, OneRefresh, InView, InDetails, NoView
  <2>8. MadeGood'
    <3>1. Building(a)' /\ Building(a) /\ tasks'[a].shows = tasks[a].shows
      BY <2>a, <2>2, <2>3 DEF Building
    <3>2. \A b \in Actors : /\ tasks'[b].shows = tasks[b].shows /\ tasks'[b].kind = tasks[b].kind
                            /\ Building(b)' <=> Building(b)
                            /\ Continues(b)' <=> Continues(b)
                            /\ tasks'[b].at \in InDetails <=> tasks[b].at \in InDetails
                            /\ tasks'[b].at = "results" <=> tasks[b].at = "results"
      <4> SUFFICES ASSUME NEW b \in Actors
                   PROVE  /\ tasks'[b].shows = tasks[b].shows /\ tasks'[b].kind = tasks[b].kind
                          /\ Building(b)' <=> Building(b)
                          /\ Continues(b)' <=> Continues(b)
                          /\ tasks'[b].at \in InDetails <=> tasks[b].at \in InDetails
                          /\ tasks'[b].at = "results" <=> tasks[b].at = "results"
        OBVIOUS
      <4>1. CASE b = a
        BY <2>a, <2>2, <2>3, <3>1, <4>1 DEF Continues, InDetails
      <4>2. CASE b # a
        BY <2>3, <4>2 DEF Building, Continues
      <4> QED BY <4>1, <4>2
    <3>3. Pending' <=> Pending
      BY <3>2 DEF Pending
    <3>4. MadeGood
      BY DEF ScreenFacts
    <3> QED
      BY <2>2, <2>4, <3>1, <3>2, <3>3, <3>4 DEF MadeGood
  <2> QED
    BY <2>5, <2>6, <2>7, <2>8 DEF ScreenFacts
<1>10. ASSUME NEW a \in Actors, MountView(a) PROVE ScreenFacts'
  <2>1. tasks[a].at = "viewIn" /\ panels.view = NoView /\ tasks[a].shows \in View
    BY <1>10, <1>b DEF MountView, ScreenFacts, OneRefresh, ScreenTask
  <2>2. /\ tasks[a].kind \in {"analysis", "decoder", "report", "overlay", "dashboard"}
        /\ a = Handler => tasks[a].kind # "decoder"
        /\ tasks[a].kind \in {"analysis", "decoder"} \/ a = Handler
    BY <2>1 DEF ScreenFacts, Placed
  <2>b. PICK t \in ScreenTask : /\ t = Task_(tasks[a].kind, AfterView(tasks[a].kind))
                                /\ t.at = AfterView(tasks[a].kind) /\ t.kind = tasks[a].kind
    BY <2>2, TaskAfter
  <2>c. /\ t.kind = tasks[a].kind
        /\ t.at \in {"viewSeen", "details", "done"} /\ (t.at = "details" => a # Handler)
        /\ t.at = "done" => t.kind \in {"overlay", "dashboard"}
    <3>1. t.kind = tasks[a].kind /\ t.at = AfterView(t.kind)
      BY <2>b
    <3> QED
      BY <2>2, <3>1, Following
  <2>5. tasks' = [tasks EXCEPT ![a] = t] /\ panels' = [panels EXCEPT !.view = tasks[a].shows] /\ UNCHANGED app
    BY <1>10, <2>1, <2>b DEF MountView
  <2>6. /\ tasks' \in [Actors -> ScreenTask] /\ tasks'[a] = t
        /\ \A b \in Actors : b # a => tasks'[b] = tasks[b]
    BY <1>b, <2>5, OneMoves
  <2>7. /\ panels' \in [cards : Nat, view : View, details : {<<>>} \cup {<<d>> : d \in Detail}]
        /\ panels'.cards = panels.cards /\ panels'.view = tasks[a].shows /\ panels'.details = panels.details
    BY <1>b, <2>1, <2>5 DEF ScreenTypes
  <2>8. ScreenTypes'
    BY <1>b, <2>5, <2>6, <2>7 DEF ScreenTypes
  <2>9. Placed'
    BY <1>b, <2>1, <2>2, <2>c, <2>5, <2>6 DEF ScreenFacts, Placed, Refreshing, InView, InDetails
  <2>10. OneRefresh'
    BY <2>1, <2>c, <2>6, <2>7 DEF ScreenFacts, OneRefresh, InView, InDetails
  <2>11. MadeGood'
    BY <2>1, <2>2, <2>c, <2>5, <2>6, <2>7 DEF ScreenFacts, MadeGood, InDetails, Building, Pending, Continues
  <2> QED
    BY <2>8, <2>9, <2>10, <2>11 DEF ScreenFacts
<1>11. ASSUME NEW a \in Actors, DetachDetails(a) PROVE ScreenFacts'
  <2>1. PICK t \in ScreenTask : t = [tasks[a] EXCEPT !.at = "detailsIn"] /\ t.at = "detailsIn"
                                /\ t.kind = tasks[a].kind
    BY <1>b, TaskAt DEF ScreenStages, Refreshing, InDetails
  <2>a. t.at = "detailsIn" /\ t.kind = tasks[a].kind
    BY <2>1
  <2>2. /\ tasks[a].at = "detailsOut" /\ UNCHANGED app
        /\ \A b \in Actors : b # a => tasks[b].at \notin InDetails
    BY <1>11 DEF DetachDetails, ScreenFacts, OneRefresh, InDetails
  <2>3. /\ tasks' \in [Actors -> ScreenTask] /\ tasks'[a] = t
        /\ \A b \in Actors : b # a => tasks'[b] = tasks[b]
    <3>1. tasks' = [b \in Actors |-> IF b = a THEN t ELSE tasks[b]]
      BY <1>11, <2>1, <2>2 DEF DetachDetails, InDetails
    <3> QED
      BY <1>b, <3>1
  <2>4. /\ panels' \in [cards : Nat, view : View, details : {<<>>} \cup {<<d>> : d \in Detail}]
        /\ panels'.cards = panels.cards /\ panels'.view = panels.view /\ panels'.details = <<>>
    <3>1. PICK d \in Detail : panels.details = <<d>>
      BY <1>b, <2>2 DEF ScreenFacts, OneRefresh, InDetails
    <3>2. Tail(panels.details) = <<>>
      BY <3>1
    <3> QED
      BY <1>11, <1>b, <3>2 DEF DetachDetails, ScreenTypes
  <2>5. ScreenTypes'
    BY <1>b, <2>2, <2>3, <2>4 DEF ScreenTypes
  <2>6. Placed'
    BY <1>b, <2>a, <2>2, <2>3 DEF ScreenFacts, Placed, Refreshing, InView, InDetails
  <2>7. OneRefresh'
    BY <2>a, <2>2, <2>3, <2>4 DEF ScreenFacts, OneRefresh, InView, InDetails
  <2>8. MadeGood'
    <3>1. \A d \in Detail : panels'.details # <<d>>
      BY <2>4
    <3> QED
      BY <2>a, <2>2, <2>3, <2>4, <3>1 DEF ScreenFacts, MadeGood, InDetails, Building, Pending, Continues
  <2> QED
    BY <2>5, <2>6, <2>7, <2>8 DEF ScreenFacts
<1>12. ASSUME NEW a \in Actors, MountDetails(a) PROVE ScreenFacts'
  <2>1. PICK t \in ScreenTask : t = [tasks[a] EXCEPT !.at = "done"] /\ t.at = "done"
                                /\ t.kind = tasks[a].kind
    BY <1>b, TaskAt DEF ScreenStages
  <2>a. t.at = "done"
    BY <2>1
  <2>2. tasks[a].at = "detailsIn" /\ tasks' = [tasks EXCEPT ![a] = t] /\ UNCHANGED app /\ panels.details = <<>>
    BY <1>12, <2>1 DEF MountDetails, ScreenFacts, OneRefresh
  <2>3. /\ tasks' \in [Actors -> ScreenTask] /\ tasks'[a] = t
        /\ \A b \in Actors : b # a => tasks'[b] = tasks[b]
    BY <1>b, <2>2, OneMoves
  <2>4. PICK d \in Detail : d = [decoder |-> app.decoder, of |-> app.snapshot]
    <3>1. app.decoder \in DecoderIds /\ app.snapshot \in Actors
      BY <1>b DEF ScreenTypes, AppState
    <3> QED
      BY <3>1 DEF Detail
  <2>5. /\ panels' \in [cards : Nat, view : View, details : {<<>>} \cup {<<e>> : e \in Detail}]
        /\ panels'.cards = panels.cards /\ panels'.view = panels.view /\ panels'.details = <<d>>
    <3>1. Append(panels.details, d) = <<d>>
      BY <2>2
    <3>2. panels' = [panels EXCEPT !.details = <<d>>]
      BY <1>12, <2>4, <3>1 DEF MountDetails
    <3> QED
      BY <1>b, <3>2 DEF ScreenTypes
  <2>6. ScreenTypes'
    BY <1>b, <2>2, <2>3, <2>5 DEF ScreenTypes
  <2>7. Placed'
    BY <1>b, <2>a, <2>2, <2>3 DEF ScreenFacts, Placed, Refreshing, InView, InDetails
  <2>8. OneRefresh'
    <3>1. panels'.details # <<>>
      BY <2>5
    <3> QED
      BY <2>a, <2>2, <2>3, <2>5, <3>1 DEF ScreenFacts, OneRefresh, InView, InDetails
  <2>9. MadeGood'
    <3>1. \A e \in Detail : panels'.details = <<e>> => e = d
      BY <2>5
    <3>2. d.decoder = app'.decoder /\ d.of = app'.snapshot
      BY <2>2, <2>4
    <3> QED
      BY <2>a, <2>2, <2>3, <2>5, <3>1, <3>2 DEF ScreenFacts, MadeGood, Building, Pending
  <2> QED
    BY <2>6, <2>7, <2>8, <2>9 DEF ScreenFacts
<1>13. ASSUME NEW a \in Actors, RevealView(a) PROVE ScreenFacts'
  <2>1. tasks[a].at = "viewSeen" /\ panels.view # NoView /\ UNCHANGED panels
    <3>1. tasks[a].at = "viewSeen" /\ UNCHANGED panels
      BY <1>13 DEF RevealView
    <3>2. panels.view.what # "none"
      BY <3>1 DEF ScreenFacts, OneRefresh, InView
    <3> QED
      BY <3>1, <3>2 DEF NoView
  <2>2. CASE a = Handler /\ QueryDetails(a, app)
    <3>1. app \in AppState /\ ~app.exited /\ tasks[a].at \notin InDetails
      BY <1>b, <2>1 DEF ScreenTypes, InDetails
    <3> QED
      BY <1>6, <1>8, <2>1, <2>2, <3>1
  <2>3. CASE a # Handler /\ tasks' = [tasks EXCEPT ![a].at = "details"] /\ UNCHANGED app
    <3>1. PICK t \in ScreenTask : tasks' = [tasks EXCEPT ![a] = t] /\ t.at = "details" /\ t.kind = tasks[a].kind
      BY <1>b, <2>3, TaskAt DEF ScreenStages, Refreshing
    <3>2. /\ tasks' \in [Actors -> ScreenTask] /\ tasks'[a] = t
          /\ \A b \in Actors : b # a => tasks'[b] = tasks[b]
      BY <1>b, <3>1, OneMoves
    <3>3. ScreenTypes'
      BY <1>b, <2>1, <2>3, <3>2 DEF ScreenTypes
    <3>4. Placed'
      BY <1>b, <2>1, <2>3, <3>1, <3>2 DEF ScreenFacts, Placed, Refreshing, InView, InDetails
    <3>5. OneRefresh'
      BY <2>1, <2>3, <3>1, <3>2 DEF ScreenFacts, OneRefresh, InView, InDetails
    <3>6. MadeGood'
      BY <2>1, <2>3, <3>1, <3>2 DEF ScreenFacts, MadeGood, InDetails, Building, Pending, Continues
    <3> QED
      BY <3>3, <3>4, <3>5, <3>6 DEF ScreenFacts
  <2> QED
    BY <1>13, <2>1, <2>2, <2>3 DEF RevealView
<1>14. ASSUME NEW i \in Workers, RefreshDetails(i) PROVE ScreenFacts'
  <2>1. /\ app \in AppState /\ ~app.exited /\ tasks[i].at = "details" /\ tasks[i].at \notin InDetails
        /\ UNCHANGED panels /\ QueryDetails(i, app)
    BY <1>b, <1>14 DEF ScreenTypes, InDetails, RefreshDetails
  <2> QED
    BY <1>6, <1>8, <2>1
<1>15. CASE SelectDecoder
  <2>1. PICK state \in AppState : /\ ~state.exited /\ state.snapshot = app.snapshot /\ state.started = app.started
                                  /\ QueryDetails(Handler, state) /\ UNCHANGED panels
    <3>1. PICK d \in DecoderIds : QueryDetails(Handler, [app EXCEPT !.decoder = d]) /\ UNCHANGED panels
      BY <1>15 DEF SelectDecoder
    <3>2. [app EXCEPT !.decoder = d] \in AppState /\ ~[app EXCEPT !.decoder = d].exited
          /\ [app EXCEPT !.decoder = d].snapshot = app.snapshot /\ [app EXCEPT !.decoder = d].started = app.started
      BY <1>b DEF ScreenTypes, AppState
    <3> QED
      BY <3>1, <3>2
  <2>2. tasks[Handler].at = "done" /\ tasks[Handler].at \notin InDetails
    BY <1>15 DEF SelectDecoder, AtRest, ScreenFacts, Placed, InView, InDetails
  <2> QED
    BY <1>6, <1>8, <2>1, <2>2
<1>16. CASE LoadReport
  <2>1. /\ tasks[Handler].at = "done" /\ Fresh \in Workers /\ Fresh > app.started /\ tasks[Fresh].at = "done"
        /\ panels' = [panels EXCEPT !.cards = Fresh]
    <3>1. app.started + 1 \in Workers /\ app.started + 1 > app.started
      BY <1>b, <1>16 DEF LoadReport, Fresh
    <3> QED
      BY <1>16, <3>1 DEF LoadReport, AtRest, Fresh, ScreenFacts, Placed, InView, InDetails
  <2>2. PICK n \in Workers : n = Fresh
    BY <2>1
  <2>3. PICK state \in AppState : /\ state = [app EXCEPT !.snapshot = n, !.started = n] /\ ~state.exited
                                  /\ state.snapshot = n /\ state.started = n /\ state.decoder = app.decoder
    <3> DEFINE once == [app EXCEPT !.snapshot = n]
    <3> DEFINE loaded == [once EXCEPT !.started = n]
    <3>1. app \in AppState /\ ~app.exited /\ n \in 0 .. MaxRequests
      BY <1>b DEF ScreenTypes
    <3>2. once \in AppState /\ ~once.exited /\ once.snapshot = n /\ once.decoder = app.decoder
      BY <3>1 DEF AppState
    <3>3. /\ loaded \in AppState /\ ~loaded.exited
          /\ loaded.snapshot = n /\ loaded.started = n /\ loaded.decoder = app.decoder
      <4> HIDE DEF once
      <4> QED
        BY <3>1, <3>2 DEF AppState
    <3>4. loaded = [app EXCEPT !.snapshot = n, !.started = n]
      BY <3>1 DEF AppState
    <3> QED
      BY <3>3, <3>4
  <2>4. PICK task \in ScreenTask : /\ task = [Task_("report", "begun") EXCEPT !.shows = Shows("results", n)]
                                   /\ task.kind = "report" /\ task.shows = Shows("results", n)
    <3>1. PICK t \in ScreenTask : t = Task_("report", "begun") /\ t.kind = "report"
      BY NewTask DEF ScreenStages
    <3>2. /\ [t EXCEPT !.shows = Shows("results", n)] \in ScreenTask
          /\ [t EXCEPT !.shows = Shows("results", n)].kind = t.kind
          /\ [t EXCEPT !.shows = Shows("results", n)].shows = Shows("results", n)
      BY TaskShows
    <3> QED
      BY <3>1, <3>2
  <2>5. QueryView(Handler, task, state)
    BY <1>16, <2>2, <2>3, <2>4 DEF LoadReport
  <2>b. Handler \in Actors /\ tasks[Handler].at \notin InView
    BY <2>1 DEF InView
  <2>6. /\ \A b \in Actors : tasks[b].at \notin InView
        /\ panels.view.what # "none" /\ app' \in AppState /\ ~app'.exited
        /\ app'.snapshot = n /\ app'.decoder = app.decoder /\ app'.started = n
    BY <1>5, <2>3, <2>5, <2>b
  <2>7. PICK t \in ScreenTask : /\ tasks' = [tasks EXCEPT ![Handler] = t] /\ t.at = "viewOut"
                                /\ t.kind = task.kind /\ t.shows = task.shows
    BY <1>5, <2>3, <2>5, <2>b
  <2>8. /\ t.shows.of = app'.snapshot /\ t.shows.what # "none" /\ app.started <= app'.started
        /\ app'.snapshot \in 0 .. app'.started /\ panels' = [panels EXCEPT !.cards = app'.snapshot]
        /\ panels'.cards = app'.snapshot /\ tasks[app'.snapshot].at = "done" /\ app'.snapshot # Handler
    BY <1>b, <2>1, <2>2, <2>4, <2>6, <2>7 DEF Shows, ScreenTypes
  <2> QED
    BY <1>7, <2>1, <2>4, <2>6, <2>7, <2>8
\* A view of the current snapshot, by the handler or a worker.
<1>17. ASSUME NEW a \in Actors, NEW task \in ScreenTask, QueryView(a, task, app),
              task.shows.of = app.snapshot, task.shows.what # "none",
              panels' = panels \/ panels' = [panels EXCEPT !.cards = app.snapshot],
              \/ a = Handler /\ tasks[a].at = "done" /\ task.kind \in {"overlay", "dashboard"}
              \/ /\ a # Handler /\ tasks[a].at = "results" /\ task.kind = tasks[a].kind
                 /\ panels'.cards = app.snapshot
       PROVE  ScreenFacts'
  <2>1. app \in AppState /\ ~app.exited /\ tasks[a].at \notin InView
    BY <1>b, <1>17 DEF ScreenTypes, InView
  <2>2. /\ \A b \in Actors : tasks[b].at \notin InView
        /\ panels.view.what # "none" /\ app' \in AppState /\ ~app'.exited
        /\ app'.snapshot = app.snapshot /\ app'.decoder = app.decoder /\ app'.started = app.started
    BY <1>5, <1>17, <2>1
  <2>3. PICK t \in ScreenTask : /\ tasks' = [tasks EXCEPT ![a] = t] /\ t.at = "viewOut"
                                /\ t.kind = task.kind /\ t.shows = task.shows
    BY <1>5, <1>17, <2>1
  <2>4. app.started <= app'.started /\ app'.snapshot \in 0 .. app'.started
    BY <1>b, <2>2
  <2> QED
    BY <1>7, <1>17, <2>2, <2>3, <2>4
<1>18. ASSUME NEW kind \in {"overlay", "dashboard"}, NEW what \in {"overlay", "results"},
              QueryView(Handler, [Task_(kind, "begun") EXCEPT !.shows = Shows(what, app.snapshot)], app),
              panels' = panels \/ panels' = [panels EXCEPT !.cards = app.snapshot], AtRest
       PROVE  ScreenFacts'
  <2>1. PICK task \in ScreenTask : /\ task = [Task_(kind, "begun") EXCEPT !.shows = Shows(what, app.snapshot)]
                                   /\ task.kind = kind /\ task.shows = Shows(what, app.snapshot)
    <3>1. PICK t \in ScreenTask : t = Task_(kind, "begun") /\ t.kind = kind
      BY NewTask DEF ScreenStages
    <3>2. app.snapshot \in Actors
      BY <1>b
    <3>3. /\ [t EXCEPT !.shows = Shows(what, app.snapshot)] \in ScreenTask
          /\ [t EXCEPT !.shows = Shows(what, app.snapshot)].kind = t.kind
          /\ [t EXCEPT !.shows = Shows(what, app.snapshot)].shows = Shows(what, app.snapshot)
      BY <3>2, TaskShows
    <3> QED
      BY <3>1, <3>3
  <2>2. task.shows.of = app.snapshot /\ task.shows.what # "none"
    BY <2>1 DEF Shows
  <2>3. tasks[Handler].at = "done"
    BY <1>18 DEF AtRest, ScreenFacts, Placed, InView, InDetails
  <2>4. QueryView(Handler, task, app)
    BY <1>18, <2>1
  <2> QED
    BY <1>17, <1>18, <2>1, <2>2, <2>3, <2>4
<1>19. CASE ShowOverlay
  BY <1>18, <1>19 DEF ShowOverlay
<1>20. CASE ShowDashboard
  <2>1. panels' = panels \/ panels' = [panels EXCEPT !.cards = app.snapshot]
    BY <1>20 DEF ShowDashboard
  <2> QED
    BY <1>18, <1>20, <2>1 DEF ShowDashboard
<1>21. ASSUME NEW i \in Workers, RefreshResults(i) PROVE ScreenFacts'
  <2>1. PICK task \in ScreenTask : /\ task = [tasks[i] EXCEPT !.shows = Shows("results", app.snapshot)]
                                   /\ task.kind = tasks[i].kind /\ task.shows = Shows("results", app.snapshot)
    <3>1. tasks[i] \in ScreenTask /\ app.snapshot \in Actors
      BY <1>b
    <3> QED
      BY <3>1, TaskShows
  <2>2. task.shows.of = app.snapshot /\ task.shows.what # "none"
    BY <2>1 DEF Shows
  <2>3. /\ tasks[i].at = "results" /\ panels' = [panels EXCEPT !.cards = app.snapshot]
        /\ QueryView(i, task, app)
    BY <1>21, <2>1 DEF RefreshResults, Shown
  <2>4. panels'.cards = app.snapshot /\ i \in Actors /\ i # Handler
    BY <1>b, <2>3 DEF ScreenTypes
  <2> QED
    BY <1>17, <2>1, <2>2, <2>3, <2>4
<1> QED
  BY <1>1, <1>3, <1>4, <1>9, <1>10, <1>11, <1>12, <1>13, <1>14, <1>15, <1>16, <1>19, <1>20, <1>21
     DEF ScreensNext

\* workbench_ui/app.py, for any number of requests, loaded reports and other
\* events: while no two refreshes of one panel overlap, no exception ends the
\* application, and once no task is between its result and its last refresh,
\* every panel shows the one current snapshot and the selected decoder.
THEOREM ScreenAlwaysAgrees == ScreensSpec => []ScreenAgrees
<1>1. ScreenInv => ScreenAgrees
  <2> SUFFICES ASSUME ScreenInv, ~overlapped
               PROVE  /\ ~app.exited
                      /\ (\A a \in Actors : tasks[a].at \notin Refreshing) =>
                           /\ panels.cards = app.snapshot
                           /\ panels.view.of = app.snapshot /\ panels.view # NoView
                           /\ panels.details = <<[decoder |-> app.decoder, of |-> app.snapshot]>>
                           /\ tasks[app.snapshot].at = "done"
    BY DEF ScreenAgrees
  <2>1. ScreenTypes /\ Placed /\ OneRefresh /\ MadeGood
    BY DEF ScreenInv, ScreenFacts
  <2>2. ~app.exited
    BY <2>1 DEF ScreenTypes
  <2>3. ASSUME \A a \in Actors : tasks[a].at \notin Refreshing
        PROVE  /\ panels.cards = app.snapshot
               /\ panels.view.of = app.snapshot /\ panels.view # NoView
               /\ panels.details = <<[decoder |-> app.decoder, of |-> app.snapshot]>>
               /\ tasks[app.snapshot].at = "done"
    <3>1. panels.cards = app.snapshot /\ panels.view.of = app.snapshot /\ panels.view # NoView
      BY <2>1, <2>3 DEF OneRefresh, MadeGood, Building, Pending, Refreshing, InView, NoView
    <3>2. PICK d \in Detail : panels.details = <<d>>
      BY <2>1, <2>3 DEF ScreenTypes, OneRefresh, Refreshing, InDetails
    <3>3. d.decoder = app.decoder /\ d.of = app.snapshot
      BY <2>1, <2>3, <3>2 DEF MadeGood, Building, Continues, Refreshing, InView, InDetails
    <3>4. d = [decoder |-> app.decoder, of |-> app.snapshot]
      BY <3>3 DEF Detail
    <3>5. tasks[app.snapshot].at = "done"
      <4>1. app.snapshot \in Actors
        BY <2>1, ScreensAssumption DEF ScreenTypes, AppState, Actors, Workers, Handler
      <4> QED
        BY <2>1, <2>3, <4>1 DEF Placed
    <3> QED
      BY <3>1, <3>2, <3>4, <3>5
  <2> QED
    BY <2>2, <2>3
<1> QED
  BY <1>1, ScreenInvInit, ScreenInvStep, PTL DEF ScreensSpec

-----------------------------------------------------------------------------
(* The shared databases *)

Tables == [analyses : SUBSET Runs, fingerprints : SUBSET Runs, timelines : SUBSET Runs]

StoresTypes ==
    /\ runStage \in [Runs -> {"compare", "analysis", "fingerprint", "timeline", "report", "match",
                              "link", "save", "index", "iocs", "ended", "unindexed", "failed",
                              "killed"}]
    /\ analyses \subseteq Runs /\ fingerprints \subseteq Runs /\ timelines \subseteq Runs
    /\ seen \in [Runs -> Tables]

InAll(r) == r \in analyses /\ r \in fingerprints /\ r \in timelines

\* A run that records is in the tables it has passed, and in all of them when
\* it reads them back.
RecordedInOrder ==
    \A r \in Runs :
      /\ runStage[r] \in {"fingerprint", "timeline"} => r \in analyses
      /\ runStage[r] = "timeline" => r \in fingerprints
      /\ Recording[r] /\ runStage[r] = "report" => InAll(r)
      /\ Recording[r] /\ seen[r].analyses # {} => InAll(r)

LaterReaderSees ==
    \A r, s \in Runs :
      r # s /\ seen[r].analyses # {} /\ seen[s].analyses # {} /\ Recording[r] /\ Recording[s] =>
        /\ s \in seen[r].analyses \/ r \in seen[s].analyses
        /\ s \in seen[r].fingerprints \/ r \in seen[s].fingerprints
        /\ s \in seen[r].timelines \/ r \in seen[s].timelines

\* What a stored run has in the vault, as far as it has come.
StoredInOrder ==
    \A r \in Runs :
      /\ runStage[r] \in {"index", "iocs", "ended"} => r \in caseFiles
      /\ runStage[r] \in {"iocs", "ended"} /\ r \notin pruned => r \in indexed
      /\ runStage[r] = "ended" /\ r \notin pruned =>
           \A i \in FoundIn[r] : i \in known /\ <<r, i>> \in links

StoresInv == StoresTypes /\ RecordedInOrder /\ LaterReaderSees /\ StoredInOrder

LEMMA StoresInvInit == StoresInit => StoresInv
  BY DEF StoresInit, StoresInv, StoresTypes, Tables, NothingSeen, RecordedInOrder, LaterReaderSees,
         StoredInOrder

LEMMA CorrelationStep ==
  StoresTypes /\ RecordedInOrder /\ LaterReaderSees /\ [StoresNext]_storeVars =>
    StoresTypes' /\ RecordedInOrder' /\ LaterReaderSees'
<1> DEFINE Goal == StoresTypes' /\ RecordedInOrder' /\ LaterReaderSees'
<1> USE DEF StoresTypes, RecordedInOrder, LaterReaderSees, InAll, Goes, correlationVars
<1> SUFFICES ASSUME StoresTypes, RecordedInOrder, LaterReaderSees, StoresNext PROVE Goal
  BY DEF storeVars
<1>1. ASSUME NEW r \in Runs, Compare(r) PROVE Goal
  BY <1>1 DEF Compare
<1>2. ASSUME NEW r \in Runs, RecordAnalysis(r) PROVE Goal
  BY <1>2 DEF RecordAnalysis
<1>3. ASSUME NEW r \in Runs, RecordFingerprint(r) PROVE Goal
  BY <1>3 DEF RecordFingerprint
<1>4. ASSUME NEW r \in Runs, RecordTimeline(r) PROVE Goal
  BY <1>4 DEF RecordTimeline
<1>5. ASSUME NEW r \in Runs, ReadBack(r) PROVE Goal
  <2> DEFINE read == [analyses |-> analyses \cup {r}, fingerprints |-> fingerprints \cup {r},
                      timelines |-> timelines \cup {r}]
  <2>1. read \in Tables
    BY DEF Tables
  <2>2. seen' = [seen EXCEPT ![r] = read] /\ UNCHANGED <<analyses, fingerprints, timelines>>
        /\ runStage[r] = "report" /\ runStage' = [runStage EXCEPT ![r] = "match"]
    BY <1>5 DEF ReadBack
  <2>3. Recording[r] => InAll(r)
    BY <2>2
  <2>4. StoresTypes'
    BY <2>1, <2>2
  <2>5. RecordedInOrder'
    BY <2>2, <2>3
  <2>6. LaterReaderSees'
    <3> SUFFICES ASSUME NEW s \in Runs, s # r, Recording[s], seen[s].analyses # {}
                 PROVE  s \in read.analyses /\ s \in read.fingerprints /\ s \in read.timelines
      BY <2>2
    <3> QED
      OBVIOUS
  <2> QED
    BY <2>4, <2>5, <2>6
<1>6. ASSUME NEW r \in Runs,
             \/ CorrelationFails(r) \/ MatchPriors(r) \/ LinkIndicators(r) \/ SaveCase(r)
             \/ RecordRun(r) \/ RecordIocs(r) \/ VaultFails(r) \/ KillRun(r)
      PROVE  Goal
  <2>1. UNCHANGED <<analyses, fingerprints, timelines, seen>>
        /\ \E stage \in {"failed", "link", "save", "index", "iocs", "unindexed", "ended", "killed"} :
             runStage' = [runStage EXCEPT ![r] = stage]
    BY <1>6 DEF CorrelationFails, MatchPriors, LinkIndicators, SaveCase, RecordRun, RecordIocs,
                VaultFails, KillRun
  <2> QED
    BY <2>1
<1>7. CASE Prune
  BY <1>7 DEF Prune
<1> QED
  BY <1>1, <1>2, <1>3, <1>4, <1>5, <1>6, <1>7 DEF StoresNext

LEMMA VaultStep == StoresTypes /\ StoredInOrder /\ [StoresNext]_storeVars => StoredInOrder'
<1> USE DEF StoresTypes, StoredInOrder, Goes, vaultVars
<1> SUFFICES ASSUME StoresTypes, StoredInOrder, StoresNext PROVE StoredInOrder'
  BY DEF storeVars
<1>1. ASSUME NEW r \in Runs,
             \/ Compare(r) \/ RecordAnalysis(r) \/ RecordFingerprint(r) \/ RecordTimeline(r)
             \/ ReadBack(r) \/ CorrelationFails(r) \/ MatchPriors(r) \/ LinkIndicators(r)
             \/ VaultFails(r) \/ KillRun(r)
      PROVE  StoredInOrder'
  <2>1. UNCHANGED <<caseFiles, indexed, known, links, pruned>>
        /\ \E stage \in {"analysis", "report", "fingerprint", "timeline", "match", "link", "save",
                         "failed", "killed"} :
             runStage' = [runStage EXCEPT ![r] = stage]
    BY <1>1 DEF Compare, RecordAnalysis, RecordFingerprint, RecordTimeline, ReadBack,
                CorrelationFails, MatchPriors, LinkIndicators, VaultFails, KillRun
  <2> QED
    BY <2>1
<1>2. ASSUME NEW r \in Runs, SaveCase(r) PROVE StoredInOrder'
  BY <1>2 DEF SaveCase
<1>3. ASSUME NEW r \in Runs, RecordRun(r) PROVE StoredInOrder'
  BY <1>3 DEF RecordRun
<1>4. ASSUME NEW r \in Runs, RecordIocs(r) PROVE StoredInOrder'
  BY <1>4 DEF RecordIocs
<1>5. CASE Prune
  <2>1. PICK old \in SUBSET indexed :
             /\ indexed' = indexed \ old /\ pruned' = pruned \cup old
             /\ links' = {l \in links : l[1] \in indexed'}
             /\ known' = known \cap {l[2] : l \in links'}
             /\ UNCHANGED <<runStage, caseFiles>>
    BY <1>5 DEF Prune
  <2> SUFFICES ASSUME NEW r \in Runs, r \notin pruned', runStage[r] = "ended", NEW i \in FoundIn[r]
               PROVE  i \in known' /\ <<r, i>> \in links'
    BY <2>1
  <2>2. i \in known /\ <<r, i>> \in links /\ r \in indexed'
    BY <2>1
  <2>3. <<r, i>> \in links'
    BY <2>1, <2>2
  <2>4. i \in {l[2] : l \in links'}
    BY <2>3
  <2> QED
    BY <2>1, <2>2, <2>3, <2>4
<1> QED
  BY <1>1, <1>2, <1>3, <1>4, <1>5 DEF StoresNext

LEMMA StoresInvStep == StoresInv /\ [StoresNext]_storeVars => StoresInv'
  BY CorrelationStep, VaultStep DEF StoresInv

\* milestone5.py and vault.py, for any runs at the same time, kills and prunes:
\* of two runs that record and report, one reports over the other in each
\* table, and a stored run that is not pruned is found under its indicators.
THEOREM RunsStayConnected == StoresSpec => []CasesConnected
<1>1. StoresInv => CasesConnected
  <2> SUFFICES ASSUME StoresInv PROVE CasesConnected
    OBVIOUS
  <2>1. ASSUME NEW r \in Runs, NEW s \in Runs, r # s, HasReported(r), HasReported(s),
               Recording[r], Recording[s],
               NEW table \in {"analyses", "fingerprints", "timelines"}
        PROVE  s \in seen[r][table] \/ r \in seen[s][table]
    BY <2>1 DEF StoresInv, LaterReaderSees, HasReported
  <2>2. ASSUME NEW r \in Runs, runStage[r] = "ended", r \notin pruned
        PROVE  r \in caseFiles /\ \A i \in FoundIn[r] : r \in SearchVault(i)
    BY <2>2 DEF StoresInv, StoredInOrder, SearchVault
  <2> QED
    BY <2>1, <2>2 DEF CasesConnected
<1> QED
  BY <1>1, StoresInvInit, StoresInvStep, PTL DEF StoresSpec

-----------------------------------------------------------------------------
(* Enrichment *)

Query == [value : Values(Addresses) \cup Values(Domains), at : Nat, got : {"null", "data"}]
Answers == [Keys -> {"absent", "null", "data"}]

EnrichTypes ==
    /\ lookup \in [run : Nat, refresh : BOOLEAN, step : {"geo", "whois"}, clock : Nat,
                   todo : Seq(Keys), last : Nat, asked : Seq(Query)]
    /\ cached \in [{"geo", "whois"} -> Answers]

\* Queries that are far enough apart, the last no later than last, and none
\* after an answer to the same.
WellAsked(asked, last) ==
    /\ \A k \in DOMAIN asked : asked[k].at <= last
    /\ \A j, k \in DOMAIN asked : j < k =>
         /\ asked[k].at >= asked[j].at + Cooldown
         /\ asked[j].got = "data" => asked[k].value # asked[j].value

EnrichInv ==
    /\ EnrichTypes
    /\ Len(lookup.asked) + Len(lookup.todo) <= 2 * PerKind
    /\ WellAsked(lookup.asked, lookup.last)
    /\ \A key \in Keys : cached["whois"][key] # "null"

LEMMA Added ==
  ASSUME NEW S, NEW s \in Seq(S), NEW x \in S
  PROVE  /\ Append(s, x) \in Seq(S) /\ Len(Append(s, x)) = Len(s) + 1
         /\ DOMAIN Append(s, x) = DOMAIN s \cup {Len(s) + 1} /\ DOMAIN s = 1 .. Len(s)
         /\ Append(s, x)[Len(s) + 1] = x /\ \A i \in DOMAIN s : Append(s, x)[i] = s[i]
  OBVIOUS

LEMMA Shortened ==
  ASSUME NEW S, NEW s \in Seq(S), s # <<>>
  PROVE  Head(s) \in S /\ Tail(s) \in Seq(S) /\ Len(Tail(s)) = Len(s) - 1 /\ Len(s) \in Nat
  OBVIOUS

LEMMA FirstOfFew ==
  /\ FirstOf("ipv4", Addresses) \in Seq(Keys) /\ Len(FirstOf("ipv4", Addresses)) <= PerKind
  /\ FirstOf("domain", Domains) \in Seq(Keys) /\ Len(FirstOf("domain", Domains)) <= PerKind
<1>1. ASSUME NEW s \in {Addresses, Domains}
      PROVE  /\ Len(s) \in Nat /\ \A k \in 1 .. Len(s) : s[k] \in Values(s)
             /\ PerKind \in Nat
  BY <1>1, EnrichmentAssumption DEF Values
<1>2. ASSUME NEW kind \in {"ipv4", "domain"}, NEW s \in {Addresses, Domains},
             \A k \in 1 .. Len(s) : <<kind, s[k]>> \in Keys
      PROVE  FirstOf(kind, s) \in Seq(Keys) /\ Len(FirstOf(kind, s)) <= PerKind
  <2> DEFINE n == IF Len(s) < PerKind THEN Len(s) ELSE PerKind
  <2>1. n \in Nat /\ n <= PerKind /\ n <= Len(s)
    BY <1>1
  <2> HIDE DEF n
  <2>2. FirstOf(kind, s) = [k \in 1 .. n |-> <<kind, s[k]>>]
    BY DEF FirstOf, n
  <2>3. \A k \in 1 .. n : <<kind, s[k]>> \in Keys
    BY <1>1, <1>2, <2>1
  <2> QED
    BY <2>1, <2>2, <2>3
<1> QED
  BY <1>1, <1>2 DEF Keys

LEMMA BegunTypes ==
  ASSUME NEW run \in Nat, NEW refresh \in BOOLEAN, NEW clock \in Nat
  PROVE  /\ Begun(run, refresh, clock) \in
               [run : Nat, refresh : BOOLEAN, step : {"geo", "whois"}, clock : Nat,
                todo : Seq(Keys), last : Nat, asked : Seq(Query)]
         /\ Begun(run, refresh, clock).asked = <<>> /\ Begun(run, refresh, clock).last = 0
         /\ Len(Begun(run, refresh, clock).todo) <= 2 * PerKind
<1> DEFINE a == FirstOf("ipv4", Addresses)
           d == FirstOf("domain", Domains)
<1>1. /\ a \in Seq(Keys) /\ d \in Seq(Keys) /\ Len(a) <= PerKind /\ Len(d) <= PerKind
      /\ PerKind \in Nat
  BY FirstOfFew, EnrichmentAssumption
<1> HIDE DEF a, d
<1>2. a \o d \in Seq(Keys) /\ Len(a \o d) <= 2 * PerKind
  BY <1>1
<1> QED
  BY <1>2 DEF Begun, a, d

LEMMA EnrichInvInit == EnrichInit => EnrichInv
<1> SUFFICES ASSUME EnrichInit PROVE EnrichInv
  OBVIOUS
<1>1. PICK refresh \in BOOLEAN : lookup = Begun(1, refresh, Cooldown)
  BY DEF EnrichInit
<1>2. EnrichTypes /\ lookup.asked = <<>> /\ Len(lookup.todo) <= 2 * PerKind
  BY <1>1, BegunTypes, EnrichmentAssumption DEF EnrichInit, EnrichTypes, Answers
<1>3. \A key \in Keys : cached["whois"][key] = "absent"
  BY DEF EnrichInit
<1>4. Len(<<>>) = 0 /\ DOMAIN <<>> = {} /\ Len(lookup.todo) \in Nat
  BY <1>2 DEF EnrichTypes
<1>5. WellAsked(lookup.asked, lookup.last)
  BY <1>2, <1>4 DEF WellAsked
<1> QED
  BY <1>2, <1>3, <1>4, <1>5 DEF EnrichInv

LEMMA EnrichInvStep == EnrichInv /\ [EnrichNext]_enrichVars => EnrichInv'
<1> SUFFICES ASSUME EnrichInv, [EnrichNext]_enrichVars PROVE EnrichInv'
  OBVIOUS
<1>1. /\ EnrichTypes /\ PerKind \in Nat /\ Cooldown \in Nat
      /\ Len(lookup.asked) \in Nat /\ Len(lookup.todo) \in Nat
  BY EnrichmentAssumption DEF EnrichInv, EnrichTypes
<1>2. ASSUME lookup.todo # <<>>
      PROVE  /\ Item \in Keys /\ Tail(lookup.todo) \in Seq(Keys)
             /\ Len(Tail(lookup.todo)) = Len(lookup.todo) - 1
  BY <1>1, <1>2, Shortened DEF EnrichTypes, Item
<1>3. ASSUME lookup.todo # <<>>, Passes
      PROVE  /\ lookup' \in [run : Nat, refresh : BOOLEAN, step : {"geo", "whois"}, clock : Nat,
                             todo : Seq(Keys), last : Nat, asked : Seq(Query)]
             /\ lookup'.asked = lookup.asked /\ lookup'.last = lookup.last
             /\ Len(lookup'.todo) <= Len(lookup.todo)
  <2>1. CASE lookup' = [lookup EXCEPT !.step = "whois"]
    BY <1>1, <2>1 DEF EnrichTypes
  <2>2. CASE lookup' = [lookup EXCEPT !.step = "geo", !.todo = Tail(@)]
    <3>1. PICK rest \in Seq(Keys) : rest = Tail(lookup.todo) /\ Len(rest) <= Len(lookup.todo)
      <4>1. /\ Tail(lookup.todo) \in Seq(Keys)
            /\ Len(Tail(lookup.todo)) = Len(lookup.todo) - 1
        BY <1>2, <1>3
      <4>2. Len(lookup.todo) - 1 <= Len(lookup.todo)
        BY <1>1
      <4> QED
        BY <4>1, <4>2
    <3>2. lookup' = [lookup EXCEPT !.step = "geo", !.todo = rest]
      BY <2>2, <3>1
    <3> QED
      BY <1>1, <3>1, <3>2 DEF EnrichTypes
  <2> QED
    BY <1>3, <2>1, <2>2 DEF Passes
<1>4. ASSUME NEW p \in {"geo", "whois"}, NEW x \in {"null", "data"}, Item \in Keys, Keep(p, x),
             p = "whois" => x = "data"
      PROVE  /\ cached' \in [{"geo", "whois"} -> Answers]
             /\ \A key \in Keys : cached'["whois"][key] # "null"
  <2>1. CASE cached' = [cached EXCEPT ![p][Item] = x]
    <3>1. cached' \in [{"geo", "whois"} -> Answers]
      BY <1>1, <1>4, <2>1 DEF EnrichTypes, Answers
    <3>2. ASSUME NEW key \in Keys PROVE cached'["whois"][key] # "null"
      BY <1>1, <1>4, <2>1 DEF EnrichInv, EnrichTypes, Answers
    <3> QED
      BY <3>1, <3>2
  <2>2. CASE UNCHANGED cached
    BY <1>1, <2>2 DEF EnrichInv, EnrichTypes
  <2> QED
    BY <1>4, <2>1, <2>2 DEF Keep
<1>5. ASSUME UNCHANGED cached
      PROVE  /\ cached' \in [{"geo", "whois"} -> Answers]
             /\ \A key \in Keys : cached'["whois"][key] # "null"
  BY <1>1, <1>5 DEF EnrichInv, EnrichTypes
<1>6. CASE NextRun
  <2>1. PICK refresh \in BOOLEAN : lookup' = Begun(lookup.run + 1, refresh, lookup.clock)
    BY <1>6 DEF NextRun
  <2>2. lookup.run + 1 \in Nat /\ lookup.clock \in Nat
    BY <1>1 DEF EnrichTypes
  <2>3. /\ lookup' \in [run : Nat, refresh : BOOLEAN, step : {"geo", "whois"}, clock : Nat,
                        todo : Seq(Keys), last : Nat, asked : Seq(Query)]
        /\ lookup'.asked = <<>> /\ Len(lookup'.todo) <= 2 * PerKind
    BY <2>1, <2>2, BegunTypes
  <2>4. UNCHANGED cached
    BY <1>6 DEF NextRun
  <2> QED
    BY <1>1, <1>5, <2>3, <2>4 DEF EnrichInv, EnrichTypes, WellAsked
<1>7. CASE NotAsked \/ FromCache \/ Remembered
  <2>1. lookup.todo # <<>> /\ Passes /\ UNCHANGED cached
    BY <1>7 DEF NotAsked, FromCache, Remembered, Due
  <2> QED
    BY <1>1, <1>3, <1>5, <2>1 DEF EnrichInv, EnrichTypes
<1>8. CASE LookUpGeo
  <2>1. lookup.todo # <<>> /\ Passes /\ \E x \in {"null", "data"} : Keep("geo", x)
    BY <1>8 DEF LookUpGeo, Due
  <2> QED
    BY <1>1, <1>2, <1>3, <1>4, <2>1 DEF EnrichInv, EnrichTypes
<1>9. CASE AskWhois
  <2> DEFINE ready == lookup.last + Cooldown
             at == IF lookup.clock < ready THEN ready ELSE lookup.clock
  <2>1. PICK duration \in 0 .. 1, got \in {"null", "data"} :
          /\ lookup' = [lookup EXCEPT !.step = "geo", !.todo = Tail(@), !.last = at,
                          !.clock = at + duration,
                          !.asked = Append(@, [value |-> Value, at |-> at, got |-> got])]
          /\ IF got = "data" THEN Keep("whois", got) ELSE UNCHANGED cached
    BY <1>9 DEF AskWhois
  <2>2. lookup.todo # <<>> /\ ~Recalled
    BY <1>9 DEF AskWhois, Due
  <2>3. at \in Nat /\ at >= lookup.last + Cooldown /\ at >= lookup.last
    BY <1>1 DEF EnrichTypes
  <2> DEFINE q == [value |-> Value, at |-> at, got |-> got]
  <2>4. q \in Query /\ q.at = at /\ q.value = Value
    BY <1>2, <2>2, <2>3 DEF Query, Value, Keys
  <2> HIDE DEF at, q
  <2>5. PICK rest \in Seq(Keys) : rest = Tail(lookup.todo) /\ Len(rest) = Len(lookup.todo) - 1
    BY <1>2, <2>2
  <2> DEFINE more == Append(lookup.asked, q)
  <2>6. /\ more \in Seq(Query) /\ Len(more) = Len(lookup.asked) + 1
        /\ DOMAIN more = DOMAIN lookup.asked \cup {Len(lookup.asked) + 1}
        /\ DOMAIN lookup.asked = 1 .. Len(lookup.asked)
        /\ more[Len(lookup.asked) + 1] = q
        /\ \A k \in DOMAIN lookup.asked : more[k] = lookup.asked[k]
    <3>1. lookup.asked \in Seq(Query) /\ q \in Query
      BY <1>1, <2>4 DEF EnrichTypes
    <3> QED
      BY <3>1, Added
  <2> HIDE DEF more
  <2>7. PICK later \in Nat : later = at + duration
    BY <2>3
  <2>8. lookup' = [lookup EXCEPT !.step = "geo", !.todo = rest, !.last = at, !.clock = later,
                                 !.asked = more]
    BY <2>1, <2>5, <2>7 DEF q, more
  <2>9. /\ lookup' \in [run : Nat, refresh : BOOLEAN, step : {"geo", "whois"}, clock : Nat,
                        todo : Seq(Keys), last : Nat, asked : Seq(Query)]
        /\ lookup'.asked = more /\ lookup'.last = at /\ lookup'.todo = rest
    BY <1>1, <2>3, <2>6, <2>8 DEF EnrichTypes
  <2>10. \A k \in DOMAIN lookup.asked : /\ lookup.asked[k] \in Query
                                       /\ lookup.asked[k].at <= lookup.last
    BY <1>1 DEF EnrichInv, EnrichTypes, WellAsked
  <2>11. \A k \in DOMAIN lookup.asked : /\ lookup.asked[k].at + Cooldown <= at
                                       /\ lookup.asked[k].at <= at
    BY <1>1, <2>3, <2>10 DEF EnrichTypes, Query
  <2>12. \A k \in DOMAIN lookup.asked : lookup.asked[k].got = "data" => q.value # lookup.asked[k].value
    BY <2>2, <2>4 DEF Recalled
  <2>13. WellAsked(more, at)
    <3>1. \A k \in DOMAIN more : more[k].at <= at
      BY <2>3, <2>4, <2>6, <2>11
    <3>2. ASSUME NEW j \in DOMAIN more, NEW k \in DOMAIN more, j < k
          PROVE  /\ more[k].at >= more[j].at + Cooldown
                 /\ more[j].got = "data" => more[k].value # more[j].value
      <4>1. j \in DOMAIN lookup.asked /\ more[j] = lookup.asked[j]
        BY <1>1, <2>6, <3>2
      <4>2. CASE k = Len(lookup.asked) + 1
        BY <2>4, <2>6, <2>11, <2>12, <4>1, <4>2
      <4>3. CASE k \in DOMAIN lookup.asked
        BY <2>6, <3>2, <4>1, <4>3 DEF EnrichInv, WellAsked
      <4> QED
        BY <2>6, <4>2, <4>3
    <3> QED
      BY <3>1, <3>2 DEF WellAsked
  <2>14. /\ cached' \in [{"geo", "whois"} -> Answers]
        /\ \A key \in Keys : cached'["whois"][key] # "null"
    BY <1>2, <1>4, <1>5, <2>1, <2>2
  <2>15. Len(lookup'.asked) + Len(lookup'.todo) <= 2 * PerKind
    <3>1. Len(lookup'.asked) = Len(lookup.asked) + 1 /\ Len(lookup'.todo) = Len(lookup.todo) - 1
      BY <2>5, <2>6, <2>9
    <3>2. Len(lookup.asked) + Len(lookup.todo) <= 2 * PerKind
      BY DEF EnrichInv
    <3>3. \A a, t, p \in Nat : a + t <= 2 * p => (a + 1) + (t - 1) <= 2 * p
      OBVIOUS
    <3>4. Len(lookup.asked) + 1 + (Len(lookup.todo) - 1) <= 2 * PerKind
      BY <1>1, <3>2, <3>3
    <3> QED
      BY <3>1, <3>4
  <2>16. EnrichTypes'
    BY <2>9, <2>14 DEF EnrichTypes
  <2>17. WellAsked(lookup'.asked, lookup'.last)
    BY <2>9, <2>13
  <2> QED
    BY <2>14, <2>15, <2>16, <2>17 DEF EnrichInv
<1>10. CASE UNCHANGED enrichVars
  BY <1>10 DEF enrichVars, EnrichInv, EnrichTypes, WellAsked
<1> QED
  BY <1>6, <1>7, <1>8, <1>9, <1>10 DEF EnrichNext

\* core/enrichment.py, for any indicators, cooldown and number of runs: no more
\* WHOIS queries than are permitted, none within the cooldown of another, none
\* again for what has answered, and no failure in the cache.
THEOREM EnrichmentIsKept == EnrichSpec => []EnrichmentKept
<1>1. EnrichInv => EnrichmentKept
  BY EnrichmentAssumption DEF EnrichInv, EnrichTypes, WellAsked, EnrichmentKept
<1> QED
  BY <1>1, EnrichInvInit, EnrichInvStep, PTL DEF EnrichSpec

-----------------------------------------------------------------------------
(* The command line: every stage leaves what the stages after it and the    *)
(* exit code rely on.                                                       *)

AfterReport == {"forensics", "verdict"}
AfterSize == {"output"} \cup AfterReport
AfterIntelligence == {"size"} \cup AfterSize
AfterStrict == {"intelligence"} \cup AfterIntelligence
AfterVault == {"strict"} \cup AfterStrict
AfterJsonl == {"vault"} \cup AfterVault
AfterGraph == {"jsonl"} \cup AfterJsonl
AfterEvidence == {"graph"} \cup AfterGraph
AfterTimeline == {"evidence_timeline"} \cup AfterEvidence
AfterCase == {"timeline"} \cup AfterTimeline
AfterIoc == {"case"} \cup AfterCase
SingleStages ==
    {"load", "evidence", "analysis", "detections", "assurance", "enrichment", "phase5", "ioc"}
        \cup AfterIoc
Stages == {"info", "config", "scan", "batch", "exit"} \cup SingleStages

Named == ToSet(Exports) \cup {"report", "enrichment", "intelligence", "forensics"}
CliRecord ==
    [pc : Stages, code : Nat, level : Levels \cup {Unrated},
     wrote : SUBSET (Named \cup ToSet(BatchFiles)), stored : BOOLEAN, valid : BOOLEAN,
     fits : BOOLEAN, depth : 0 .. 9, at : Nat, failed : SUBSET Nat, ok : BOOLEAN]

CliTypes == given \in Invocation /\ cli \in CliRecord

\* Which invocations come to which stage.
StageFits ==
    /\ cli.pc \notin {"info", "exit"} => given.commands = {}
    /\ cli.pc \in SingleStages => given.mode = "single"
    /\ cli.pc \in {"scan", "batch"} => given.mode = cli.pc
    /\ cli.pc \in {"info", "config"} => cli.wrote = {} /\ cli.failed = {} /\ cli.at = 1
    /\ cli.pc # "exit" => cli.ok

\* What was asked for is written when its stage is over.
ExportsWritten ==
    /\ "ioc" \in given.exports /\ cli.pc \in AfterIoc => "ioc" \in cli.wrote
    /\ "case" \in given.exports /\ cli.pc \in AfterCase => "case" \in cli.wrote
    /\ "timeline" \in given.exports /\ cli.pc \in AfterTimeline => "timeline" \in cli.wrote
    /\ "evidence_timeline" \in given.exports /\ cli.pc \in AfterEvidence =>
         "evidence_timeline" \in cli.wrote
    /\ "jsonl" \in given.exports /\ cli.pc \in AfterJsonl => "jsonl" \in cli.wrote
    /\ "intelligence" \in given.exports /\ cli.pc \in AfterIntelligence =>
         "intelligence" \in cli.wrote
    /\ "forensics" \in given.exports /\ cli.pc = "verdict" => "forensics" \in cli.wrote

Held ==
    /\ given.vault /\ cli.pc \in AfterVault => cli.stored
    /\ given.strict /\ cli.pc \in AfterStrict => cli.valid
    /\ given.limited /\ cli.pc \in AfterSize => cli.fits
    /\ given.out = "file" /\ cli.pc \in AfterReport => "report" \in cli.wrote

\* A batch has a report of every stem it is past, failures aside.
BatchSoFar ==
    cli.pc = "batch" =>
        /\ cli.at \in 1 .. Len(BatchFiles) + 1 /\ cli.failed \subseteq 1 .. cli.at - 1
        /\ Stems((1 .. cli.at - 1) \ cli.failed) \subseteq cli.wrote
        /\ cli.wrote \subseteq Stems(1 .. cli.at - 1)

NothingSent == given.offline => "enrichment" \notin cli.wrote

CliInv ==
    /\ CliTypes /\ StageFits /\ ExportsWritten /\ Held /\ BatchSoFar /\ NothingSent
    /\ ExitTellsTruth

-----------------------------------------------------------------------------
LEMMA Advances ==
  ASSUME CliTypes, NEW pc \in Stages, Next_(pc), UNCHANGED given
  PROVE  /\ CliTypes' /\ cli'.pc = pc /\ cli'.code = cli.code /\ cli'.level = cli.level
         /\ cli'.wrote = cli.wrote /\ cli'.stored = cli.stored /\ cli'.valid = cli.valid
         /\ cli'.fits = cli.fits /\ cli'.at = cli.at /\ cli'.failed = cli.failed /\ cli'.ok = cli.ok
  BY DEF CliTypes, CliRecord, Next_

LEMMA Leaving ==
  ASSUME CliTypes, NEW code \in Nat, Leaves(code), UNCHANGED given
  PROVE  /\ CliTypes' /\ cli'.pc = "exit" /\ cli'.code = code /\ cli'.level = cli.level
         /\ cli'.wrote = cli.wrote /\ cli'.stored = cli.stored /\ cli'.valid = cli.valid
         /\ cli'.fits = cli.fits /\ cli'.at = cli.at /\ cli'.failed = cli.failed /\ cli'.ok = cli.ok
  BY DEF CliTypes, CliRecord, Leaves, Stages

LEMMA Writing ==
  ASSUME CliTypes, NEW file \in Named, NEW pc \in Stages, Writes(file, pc), UNCHANGED given
  PROVE  /\ CliTypes' /\ cli'.pc = pc /\ cli'.code = cli.code /\ cli'.level = cli.level
         /\ cli'.wrote = cli.wrote \cup {file} /\ cli'.stored = cli.stored
         /\ cli'.valid = cli.valid /\ cli'.fits = cli.fits /\ cli'.at = cli.at
         /\ cli'.failed = cli.failed /\ cli'.ok = cli.ok
  BY DEF CliTypes, CliRecord, Writes

\* Giving up says nothing of the report.
LEMMA GivesUp ==
  ASSUME CliInv, cli.pc \in SingleStages, NEW code \in {1, 130}, Leaves(code), UNCHANGED given
  PROVE  CliInv'
<1>1. given.commands = {} /\ given.mode = "single" /\ cli.pc # "exit"
  BY DEF CliInv, StageFits, SingleStages, AfterIoc, AfterCase, AfterTimeline, AfterEvidence,
         AfterGraph, AfterJsonl, AfterVault, AfterStrict, AfterIntelligence, AfterSize, AfterReport
<1>2. /\ CliTypes' /\ cli'.pc = "exit" /\ cli'.code = code /\ cli'.wrote = cli.wrote
  BY Leaving DEF CliInv
<1>3. /\ \A S \in {AfterIoc, AfterCase, AfterTimeline, AfterEvidence, AfterJsonl, AfterVault,
                  AfterStrict, AfterIntelligence, AfterSize, AfterReport, SingleStages} :
           "exit" \notin S
  BY DEF SingleStages, AfterIoc, AfterCase, AfterTimeline, AfterEvidence,
         AfterGraph, AfterJsonl, AfterVault, AfterStrict, AfterIntelligence, AfterSize, AfterReport
<1>4. (StageFits /\ ExportsWritten /\ Held /\ BatchSoFar /\ NothingSent)'
  BY <1>2, <1>3 DEF CliInv, StageFits, ExportsWritten, Held, BatchSoFar, NothingSent
<1>5. ExitTellsTruth'
  BY <1>1, <1>2 DEF CliInv, NothingSent, ExitTellsTruth, Analyzed
<1> QED
  BY <1>2, <1>4, <1>5 DEF CliInv

\* Within the stages of one payload.
LEMMA InStage ==
  ASSUME CliTypes', cli'.pc \in SingleStages, given'.commands = {}, given'.mode = "single",
         cli'.ok, ExportsWritten', Held', NothingSent'
  PROVE  CliInv'
<1>1. cli'.pc \notin {"info", "config", "scan", "batch", "exit"}
  BY DEF SingleStages, AfterIoc, AfterCase, AfterTimeline, AfterEvidence,
         AfterGraph, AfterJsonl, AfterVault, AfterStrict, AfterIntelligence, AfterSize, AfterReport
<1> QED
  BY <1>1 DEF CliInv, StageFits, BatchSoFar, ExitTellsTruth

LEMMA FromStage ==
  ASSUME CliInv, cli.pc \in SingleStages
  PROVE  /\ CliTypes /\ given.commands = {} /\ given.mode = "single" /\ cli.ok
         /\ ExportsWritten /\ Held /\ NothingSent
<1>1. cli.pc \notin {"info", "config", "scan", "batch", "exit"}
  BY DEF SingleStages, AfterIoc, AfterCase, AfterTimeline, AfterEvidence,
         AfterGraph, AfterJsonl, AfterVault, AfterStrict, AfterIntelligence, AfterSize, AfterReport
<1> QED
  BY <1>1 DEF CliInv, StageFits

\* The stages up to the exports.
LEMMA EarlyStages ==
  ASSUME CliInv,
         \/ LoadInput \/ ParseEvidence \/ RunAnalysis \/ RunDetections \/ AttachAssurance
         \/ RunEnrichment \/ RunPhase5
  PROVE  CliInv'
<1> USE DEF SingleStages, AfterIoc, AfterCase, AfterTimeline, AfterEvidence, AfterGraph,
            AfterJsonl, AfterVault, AfterStrict, AfterIntelligence, AfterSize, AfterReport
<1> DEFINE Early == {"load", "evidence", "analysis", "detections", "assurance", "enrichment", "phase5"}
<1>1. cli.pc \in Early /\ cli.pc \in SingleStages /\ UNCHANGED given
  BY DEF LoadInput, ParseEvidence, RunAnalysis, RunDetections, AttachAssurance,
         RunEnrichment, RunPhase5, CliAt
<1>2. /\ CliTypes /\ given.commands = {} /\ given.mode = "single" /\ cli.ok /\ NothingSent
  BY <1>1, FromStage
<1>3. \/ \E code \in {1, 130} : Leaves(code)
      \/ \E pc \in Early \cup {"ioc"} : Next_(pc)
      \/ ~given.offline /\ Writes("enrichment", "phase5")
      \/ \E pc \in {"assurance", "enrichment"}, l \in Levels : cli' = [cli EXCEPT !.pc = pc, !.level = l]
  BY DEF LoadInput, ParseEvidence, RunAnalysis, RunDetections, AttachAssurance,
         RunEnrichment, RunPhase5
<1>4. CASE \E code \in {1, 130} : Leaves(code)
  BY <1>1, <1>4, GivesUp
<1>5. /\ Early \cup {"ioc"} \subseteq SingleStages /\ SingleStages \subseteq Stages
      /\ "phase5" \in Stages /\ "enrichment" \in Named
      /\ \A pc \in Early \cup {"ioc"} : pc \notin AfterIoc
  BY DEF Stages, Named
<1>6. ASSUME CliTypes', cli'.pc \in Early \cup {"ioc"}, cli'.ok, NothingSent'
      PROVE  CliInv'
  <2>1. (ExportsWritten /\ Held)'
    BY <1>6 DEF ExportsWritten, Held
  <2> QED
    BY <1>1, <1>2, <1>5, <1>6, <2>1, InStage
<1>7. CASE \E pc \in Early \cup {"ioc"} : Next_(pc)
  <2>1. PICK pc \in Early \cup {"ioc"} : Next_(pc)
    BY <1>7
  <2> HIDE DEF Early
  <2>2. pc \in Stages
    BY <1>5, <2>1
  <2>3. CliTypes' /\ cli'.pc = pc /\ cli'.wrote = cli.wrote /\ cli'.ok = cli.ok
    BY <1>1, <1>2, <2>1, <2>2, Advances
  <2>4. NothingSent'
    BY <1>1, <1>2, <2>3 DEF NothingSent
  <2> QED
    BY <1>2, <1>6, <2>1, <2>3, <2>4
<1>8. CASE ~given.offline /\ Writes("enrichment", "phase5")
  <2>1. CliTypes' /\ cli'.pc = "phase5" /\ cli'.ok
    BY <1>1, <1>2, <1>5, <1>8, Writing
  <2> QED
    BY <1>1, <1>6, <1>8, <2>1 DEF NothingSent
<1>9. ASSUME NEW pc \in {"assurance", "enrichment"}, NEW l \in Levels,
             cli' = [cli EXCEPT !.pc = pc, !.level = l]
      PROVE  CliInv'
  <2>1. CliTypes' /\ cli'.pc = pc /\ cli'.ok /\ cli'.wrote = cli.wrote
    BY <1>1, <1>2, <1>9 DEF CliTypes, CliRecord, Stages, Levels
  <2> QED
    BY <1>1, <1>2, <1>6, <1>9, <2>1 DEF NothingSent
<1> QED
  BY <1>3, <1>4, <1>7, <1>8, <1>9

LEMMA NextExport ==
  /\ After("ioc") = "case" /\ After("case") = "timeline"
  /\ After("timeline") = "evidence_timeline" /\ After("evidence_timeline") = "graph"
  /\ After("graph") = "jsonl" /\ After("jsonl") = "vault"
<1>1. /\ DOMAIN Exports = 1 .. 6 /\ Len(Exports) = 6
      /\ Exports[1] = "ioc" /\ Exports[2] = "case" /\ Exports[3] = "timeline"
      /\ Exports[4] = "evidence_timeline" /\ Exports[5] = "graph" /\ Exports[6] = "jsonl"
  BY DEF Exports
<1>2. ASSUME NEW k \in 1 .. 6
      PROVE  After(Exports[k]) = IF k = 6 THEN "vault" ELSE Exports[k + 1]
  <2> HIDE DEF Exports
  <2>1. \A j \in DOMAIN Exports : Exports[j] = Exports[k] <=> j = k
    BY <1>1
  <2>2. (CHOOSE j \in DOMAIN Exports : Exports[j] = Exports[k]) = k
    BY <1>1, <2>1
  <2> QED
    BY <1>1, <2>2 DEF After
<1> HIDE DEF Exports
<1> QED
  BY <1>1, <1>2

LEMMA ExportStages == ASSUME CliInv, Export PROVE CliInv'
<1> USE DEF SingleStages, AfterIoc, AfterCase, AfterTimeline, AfterEvidence, AfterGraph,
            AfterJsonl, AfterVault, AfterStrict, AfterIntelligence, AfterSize, AfterReport
<1>1. PICK export \in {"ioc", "case", "timeline", "evidence_timeline", "graph", "jsonl"} :
        /\ CliAt(export)
        /\ \/ export \notin given.exports \cup {"graph"} /\ Next_(After(export))
           \/ export = "graph" /\ Next_(After(export))
           \/ Writes(export, After(export))
           \/ Leaves(1)
  BY DEF Export, ToSet, Exports
<1>2. cli.pc = export /\ cli.pc \in SingleStages /\ UNCHANGED given
  BY <1>1 DEF CliAt
<1>3. /\ CliTypes /\ given.commands = {} /\ given.mode = "single" /\ cli.ok /\ NothingSent
      /\ ExportsWritten
  BY <1>2, FromStage
<1>4. CASE Leaves(1)
  BY <1>2, <1>4, GivesUp
<1>5. /\ After(export) \in Stages /\ After(export) \in SingleStages /\ export \in Named
      /\ After(export) \notin AfterVault
  BY NextExport DEF Stages, Named, ToSet, Exports
<1>6. ASSUME ~Leaves(1)
      PROVE  /\ CliTypes' /\ cli'.pc = After(export) /\ cli'.ok
             /\ \/ cli'.wrote = cli.wrote /\ (export \notin given.exports \/ export = "graph")
                \/ cli'.wrote = cli.wrote \cup {export}
  <2>1. CASE Next_(After(export)) /\ (export \notin given.exports \/ export = "graph")
    BY <1>2, <1>3, <1>5, <2>1, Advances
  <2>2. CASE Writes(export, After(export))
    BY <1>2, <1>3, <1>5, <2>2, Writing
  <2> QED
    BY <1>1, <1>6, <2>1, <2>2
<1>7. ASSUME ~Leaves(1) PROVE ExportsWritten'
  BY <1>2, <1>3, <1>6, <1>7, NextExport DEF ExportsWritten
<1>8. ASSUME ~Leaves(1) PROVE (Held /\ NothingSent)'
  BY <1>2, <1>3, <1>5, <1>6, <1>8 DEF Held, NothingSent
<1> QED
  BY <1>2, <1>3, <1>4, <1>5, <1>6, <1>7, <1>8, InStage

\* From the vault to the forensic report.
LEMMA LateStages ==
  ASSUME CliInv,
         \/ StoreInVault \/ ValidateContract \/ WriteIntelligence \/ GuardSize \/ WriteReport
         \/ WriteForensics
  PROVE  CliInv'
<1> USE DEF SingleStages, AfterIoc, AfterCase, AfterTimeline, AfterEvidence, AfterGraph,
            AfterJsonl, AfterVault, AfterStrict, AfterIntelligence, AfterSize, AfterReport
<1>1. cli.pc \in {"vault", "strict", "intelligence", "size", "output", "forensics"} /\ UNCHANGED given
  BY DEF StoreInVault, ValidateContract, WriteIntelligence, GuardSize, WriteReport,
         WriteForensics, CliAt
<1>2. /\ CliTypes /\ given.commands = {} /\ given.mode = "single" /\ cli.ok /\ NothingSent
      /\ ExportsWritten /\ Held
  BY <1>1, FromStage
<1>3. CASE Leaves(1)
  BY <1>1, <1>3, GivesUp
<1>4. /\ {"strict", "intelligence", "size", "output", "forensics", "verdict"} \subseteq Stages
      /\ {"intelligence", "report", "forensics"} \subseteq Named
  BY DEF Stages, Named
<1>5. CASE StoreInVault /\ ~Leaves(1)
  <2>1. /\ CliTypes' /\ cli'.pc = "strict" /\ cli'.ok /\ cli'.wrote = cli.wrote
        /\ given.vault => cli'.stored
    <3>1. CASE ~given.vault /\ Next_("strict")
      BY <1>1, <1>2, <1>4, <3>1, Advances
    <3>2. CASE cli' = [cli EXCEPT !.pc = "strict", !.stored = TRUE]
      BY <1>1, <1>2, <1>4, <3>2 DEF CliTypes, CliRecord
    <3> QED
      BY <1>5, <3>1, <3>2 DEF StoreInVault
  <2>2. cli.pc = "vault"
    BY <1>5 DEF StoreInVault, CliAt
  <2>3. (ExportsWritten /\ Held /\ NothingSent)'
    BY <1>1, <1>2, <2>1, <2>2 DEF ExportsWritten, Held, NothingSent
  <2> QED
    BY <1>1, <1>2, <2>1, <2>3, InStage
<1>6. CASE ValidateContract /\ ~Leaves(1)
  <2>1. cli.pc = "strict" /\ Next_("intelligence") /\ (given.strict => cli.valid)
    BY <1>2, <1>6 DEF ValidateContract, CliAt
  <2>2. /\ CliTypes' /\ cli'.pc = "intelligence" /\ cli'.ok /\ cli'.wrote = cli.wrote
        /\ cli'.stored = cli.stored /\ cli'.valid = cli.valid
    BY <1>1, <1>2, <1>4, <2>1, Advances
  <2>3. (ExportsWritten /\ Held /\ NothingSent)'
    BY <1>1, <1>2, <2>1, <2>2 DEF ExportsWritten, Held, NothingSent
  <2> QED
    BY <1>1, <1>2, <2>2, <2>3, InStage
<1>7. CASE WriteIntelligence /\ ~Leaves(1)
  <2>1. /\ cli.pc = "intelligence"
        /\ \/ Writes("intelligence", "size")
           \/ "intelligence" \notin given.exports /\ Next_("size")
    BY <1>7 DEF WriteIntelligence, CliAt
  <2>2. /\ CliTypes' /\ cli'.pc = "size" /\ cli'.ok /\ cli'.stored = cli.stored
        /\ cli'.valid = cli.valid
        /\ \/ cli'.wrote = cli.wrote \cup {"intelligence"}
           \/ "intelligence" \notin given.exports /\ cli'.wrote = cli.wrote
    BY <1>1, <1>2, <1>4, <2>1, Advances, Writing
  <2>3. (ExportsWritten /\ Held /\ NothingSent)'
    BY <1>1, <1>2, <2>1, <2>2 DEF ExportsWritten, Held, NothingSent
  <2> QED
    BY <1>1, <1>2, <2>2, <2>3, InStage
<1>8. CASE GuardSize /\ ~Leaves(1)
  <2>1. cli.pc = "size" /\ Next_("output") /\ (given.limited => cli.fits)
    BY <1>2, <1>8 DEF GuardSize, CliAt
  <2>2. /\ CliTypes' /\ cli'.pc = "output" /\ cli'.ok /\ cli'.wrote = cli.wrote
        /\ cli'.stored = cli.stored /\ cli'.valid = cli.valid /\ cli'.fits = cli.fits
    BY <1>1, <1>2, <1>4, <2>1, Advances
  <2>3. (ExportsWritten /\ Held /\ NothingSent)'
    BY <1>1, <1>2, <2>1, <2>2 DEF ExportsWritten, Held, NothingSent
  <2> QED
    BY <1>1, <1>2, <2>2, <2>3, InStage
<1>9. CASE WriteReport /\ ~Leaves(1)
  <2>1. /\ cli.pc = "output"
        /\ \/ Writes("report", "forensics")
           \/ given.out # "file" /\ Next_("forensics")
    BY <1>9 DEF WriteReport, CliAt
  <2>2. /\ CliTypes' /\ cli'.pc = "forensics" /\ cli'.ok /\ cli'.stored = cli.stored
        /\ cli'.valid = cli.valid /\ cli'.fits = cli.fits
        /\ \/ cli'.wrote = cli.wrote \cup {"report"}
           \/ given.out # "file" /\ cli'.wrote = cli.wrote
    BY <1>1, <1>2, <1>4, <2>1, Advances, Writing
  <2>3. (ExportsWritten /\ Held /\ NothingSent)'
    BY <1>1, <1>2, <2>1, <2>2 DEF ExportsWritten, Held, NothingSent
  <2> QED
    BY <1>1, <1>2, <2>2, <2>3, InStage
<1>10. CASE WriteForensics /\ ~Leaves(1)
  <2>1. /\ cli.pc = "forensics"
        /\ \/ Writes("forensics", "verdict")
           \/ "forensics" \notin given.exports /\ Next_("verdict")
    BY <1>10 DEF WriteForensics, CliAt
  <2>2. /\ CliTypes' /\ cli'.pc = "verdict" /\ cli'.ok /\ cli'.stored = cli.stored
        /\ cli'.valid = cli.valid /\ cli'.fits = cli.fits
        /\ \/ cli'.wrote = cli.wrote \cup {"forensics"}
           \/ "forensics" \notin given.exports /\ cli'.wrote = cli.wrote
    BY <1>1, <1>2, <1>4, <2>1, Advances, Writing
  <2>3. (ExportsWritten /\ Held /\ NothingSent)'
    BY <1>1, <1>2, <2>1, <2>2 DEF ExportsWritten, Held, NothingSent
  <2> QED
    BY <1>1, <1>2, <2>2, <2>3, InStage
<1> QED
  BY <1>3, <1>5, <1>6, <1>7, <1>8, <1>9, <1>10

LEMMA Verdict == ASSUME CliInv, FailOnRisk PROVE CliInv'
<1> USE DEF SingleStages, AfterIoc, AfterCase, AfterTimeline, AfterEvidence, AfterGraph,
            AfterJsonl, AfterVault, AfterStrict, AfterIntelligence, AfterSize, AfterReport
<1> DEFINE reached == given.failOn # Unrated /\ cli.level # Unrated /\ cli.level >= given.failOn
           code == IF reached THEN 2 ELSE 0
<1>1. cli.pc = "verdict" /\ UNCHANGED given /\ Leaves(code) /\ code \in Nat
  BY DEF FailOnRisk, CliAt
<1>2. /\ CliTypes /\ given.commands = {} /\ given.mode = "single" /\ cli.ok /\ NothingSent
      /\ ExportsWritten /\ Held
  BY <1>1, FromStage
<1> HIDE DEF code, reached
<1>3. /\ CliTypes' /\ cli'.pc = "exit" /\ cli'.code = code /\ cli'.level = cli.level
      /\ cli'.wrote = cli.wrote /\ cli'.stored = cli.stored /\ cli'.valid = cli.valid
      /\ cli'.fits = cli.fits /\ cli'.ok
  BY <1>1, <1>2, Leaving
<1>4. given.failOn \in 0 .. 5 /\ cli.level \in 0 .. 5
  BY <1>2, CommandLineAssumption DEF CliTypes, CliRecord, Invocation, Levels, Unrated
<1>5. code = 2 <=> given.failOn # Unrated /\ cli.level \in given.failOn .. 4
  BY <1>4 DEF code, reached, Unrated
<1>6. given.exports \subseteq ToSet(Exports) \cup {"intelligence", "forensics"}
  BY <1>2 DEF CliTypes, Invocation
<1>7. given.exports \ {"graph"} \subseteq cli.wrote
  BY <1>1, <1>2, <1>6 DEF ExportsWritten, ToSet, Exports
<1>8. ExitTellsTruth'
  BY <1>1, <1>2, <1>3, <1>5, <1>7 DEF ExitTellsTruth, Analyzed, Held, NothingSent
<1>9. (StageFits /\ ExportsWritten /\ Held /\ BatchSoFar /\ NothingSent)'
  BY <1>1, <1>2, <1>3 DEF StageFits, ExportsWritten, Held, BatchSoFar, NothingSent
<1> QED
  BY <1>3, <1>8, <1>9 DEF CliInv

LEMMA InfoEndsWell ==
  ASSUME NEW c, NEW end \in InfoEnds(c), end.code = 0, ~end.ok
  PROVE  c \in VaultCommands
<1>1. CASE c \in Judged
  BY <1>1 DEF InfoEnds, Judged, VaultCommands
<1>2. CASE c \notin Judged /\ c \notin VaultCommands
  BY <1>2 DEF InfoEnds
<1> QED
  BY <1>1, <1>2

LEMMA InfoEndTypes ==
  ASSUME NEW c, NEW end \in InfoEnds(c)
  PROVE  end.code \in {0, 1} /\ end.ok \in BOOLEAN
<1>1. CASE c \in Judged
  BY <1>1 DEF InfoEnds
<1>2. CASE c \notin Judged /\ c \in VaultCommands
  BY <1>2 DEF InfoEnds
<1>3. CASE c \notin Judged /\ c \notin VaultCommands
  <2>1. end = [ok |-> TRUE, code |-> 0]
    BY <1>3 DEF InfoEnds
  <2>2. end.ok = TRUE /\ end.code = 0
    BY <2>1
  <2> QED
    BY <2>2
<1> QED
  BY <1>1, <1>2, <1>3

\* Before and beside the analysis of one payload.
LEMMA OtherStages ==
  ASSUME CliInv, RunInfoCommand \/ ApplyConfig \/ RunDeepScan
  PROVE  CliInv'
<1> USE DEF SingleStages, AfterIoc, AfterCase, AfterTimeline, AfterEvidence, AfterGraph,
            AfterJsonl, AfterVault, AfterStrict, AfterIntelligence, AfterSize, AfterReport
<1>1. CliTypes /\ UNCHANGED given /\ NothingSent
  BY DEF CliInv, RunInfoCommand, ApplyConfig, RunDeepScan, CliAt
<1>2. /\ {"config", "scan", "batch", "load", "exit"} \subseteq Stages /\ "report" \in Named
  BY DEF Stages, Named
<1>3. CASE RunInfoCommand
  <2>1. cli.pc = "info" /\ cli.wrote = {} /\ cli.failed = {} /\ cli.at = 1 /\ cli.ok
    BY <1>3 DEF RunInfoCommand, CliAt, CliInv, StageFits
  <2>2. CASE given.commands = {} /\ Next_("config")
    <3>1. /\ CliTypes' /\ cli'.pc = "config" /\ cli'.wrote = {} /\ cli'.failed = {} /\ cli'.at = 1
          /\ cli'.ok
      BY <1>1, <1>2, <2>1, <2>2, Advances
    <3> QED
      BY <1>1, <2>2, <3>1 DEF CliInv, StageFits, ExportsWritten, Held, BatchSoFar, NothingSent,
                              ExitTellsTruth
  <2>3. ASSUME NEW k \in DOMAIN InfoOrder, InfoOrder[k] \in given.commands,
               NEW end \in InfoEnds(InfoOrder[k]),
               cli' = [cli EXCEPT !.pc = "exit", !.code = end.code, !.ok = end.ok]
        PROVE  CliInv'
    <3>1. end.code \in {0, 1} /\ end.ok \in BOOLEAN
      BY <2>3, InfoEndTypes
    <3> DEFINE code == end.code
               ok == end.ok
    <3>a. cli' = [cli EXCEPT !.pc = "exit", !.code = code, !.ok = ok] /\ code \in Nat /\ ok \in BOOLEAN
      BY <2>3, <3>1
    <3> HIDE DEF code, ok
    <3>b. /\ CliTypes' /\ cli'.pc = "exit" /\ cli'.wrote = {} /\ cli'.code = code
          /\ cli'.ok = ok
      BY <1>1, <1>2, <2>1, <3>a DEF CliTypes, CliRecord
    <3>2. /\ CliTypes' /\ cli'.pc = "exit" /\ cli'.wrote = {} /\ cli'.code = end.code
          /\ cli'.ok = end.ok
      BY <3>b DEF code, ok
    <3>3. end.code = 0 /\ ~end.ok => given.commands \cap VaultCommands # {}
      BY <2>3, InfoEndsWell
    <3>4. given.commands # {}
      BY <2>3
    <3>5. ExitTellsTruth'
      BY <1>1, <3>2, <3>3, <3>4 DEF ExitTellsTruth, Analyzed
    <3> QED
      BY <1>1, <3>2, <3>5 DEF CliInv, StageFits, ExportsWritten, Held, BatchSoFar, NothingSent
  <2> QED
    BY <1>3, <2>2, <2>3 DEF RunInfoCommand
<1>4. CASE ApplyConfig
  <2>1. /\ cli.pc = "config" /\ cli.wrote = {} /\ cli.failed = {} /\ cli.at = 1 /\ cli.ok
        /\ given.commands = {}
    BY <1>4 DEF ApplyConfig, CliAt, CliInv, StageFits
  <2>2. PICK pc, depth :
          /\ cli' = [cli EXCEPT !.pc = pc, !.depth = depth]
          /\ pc = CASE given.mode = "scan" -> "scan" [] given.mode = "batch" -> "batch"
                    [] OTHER -> "load"
          /\ depth = IF given.depth # 0 THEN given.depth ELSE ProfileDepth[given.profile]
    BY <1>4 DEF ApplyConfig
  <2>3. /\ given.mode \in {"single", "scan", "batch"} /\ given.depth \in 0 .. 9
        /\ given.profile \in {"none", "safe", "fast", "full"}
    BY <1>1 DEF CliTypes, Invocation
  <2>4. depth \in 0 .. 9
    BY <2>2, <2>3 DEF ProfileDepth
  <2>5. /\ pc \in {"scan", "batch", "load"}
        /\ pc = "load" <=> given.mode = "single"
        /\ pc \in {"scan", "batch"} => given.mode = pc
    BY <2>2, <2>3
  <2>6. /\ CliTypes' /\ cli'.pc = pc /\ cli'.wrote = {} /\ cli'.failed = {} /\ cli'.at = 1 /\ cli'.ok
    BY <1>1, <1>2, <2>1, <2>2, <2>4, <2>5 DEF CliTypes, CliRecord
  <2>7. Len(BatchFiles) \in Nat /\ 1 .. (1 - 1) = {}
    BY CommandLineAssumption
  <2>8. BatchSoFar'
    BY <2>6, <2>7 DEF BatchSoFar, Stems
  <2>9. (StageFits /\ ExportsWritten /\ Held /\ NothingSent /\ ExitTellsTruth)'
    BY <1>1, <2>1, <2>5, <2>6 DEF StageFits, ExportsWritten, Held, NothingSent, ExitTellsTruth
  <2> QED
    BY <2>6, <2>8, <2>9 DEF CliInv
<1>5. CASE RunDeepScan
  <2>1. PICK analyzed \in BOOLEAN :
          cli' = [cli EXCEPT !.pc = "exit", !.code = IF analyzed THEN 0 ELSE 1,
                             !.wrote = IF analyzed THEN @ \cup {"report"} ELSE @]
    BY <1>5 DEF RunDeepScan
  <2>2. given.mode = "scan" /\ given.commands = {}
    BY <1>5 DEF RunDeepScan, CliAt, CliInv, StageFits
  <2>3. CliTypes' /\ cli'.pc = "exit" /\ cli'.wrote \subseteq cli.wrote \cup {"report"}
    BY <1>1, <1>2, <2>1 DEF CliTypes, CliRecord
  <2>4. NothingSent'
    BY <1>1, <2>3 DEF NothingSent
  <2>5. ExitTellsTruth'
    BY <1>1, <2>2, <2>3, <2>4 DEF ExitTellsTruth, Analyzed, NothingSent
  <2> QED
    BY <1>1, <2>3, <2>4, <2>5 DEF CliInv, StageFits, ExportsWritten, Held, BatchSoFar
<1> QED
  BY <1>3, <1>4, <1>5

LEMMA BatchSteps == ASSUME CliInv, BatchFile \/ BatchInterrupted \/ BatchEnds PROVE CliInv'
<1> USE DEF SingleStages, AfterIoc, AfterCase, AfterTimeline, AfterEvidence, AfterGraph,
            AfterJsonl, AfterVault, AfterStrict, AfterIntelligence, AfterSize, AfterReport
<1> DEFINE n == Len(BatchFiles)
<1>1. /\ CliTypes /\ UNCHANGED given /\ cli.pc = "batch" /\ cli.ok
      /\ given.commands = {} /\ given.mode = "batch"
      /\ cli.at \in 1 .. n + 1 /\ cli.failed \subseteq 1 .. cli.at - 1
      /\ Stems((1 .. cli.at - 1) \ cli.failed) \subseteq cli.wrote
      /\ cli.wrote \subseteq Stems(1 .. cli.at - 1)
  BY DEF CliInv, StageFits, BatchSoFar, BatchFile, BatchInterrupted, BatchEnds, CliAt
<1>2. /\ n \in Nat /\ DOMAIN BatchFiles = 1 .. n
      /\ \A k \in 1 .. n : BatchFiles[k] \in ToSet(BatchFiles) /\ BatchFiles[k] # "enrichment"
  BY CommandLineAssumption DEF ToSet
<1>3. cli.at \in Nat /\ "enrichment" \notin cli.wrote
  BY <1>1, <1>2 DEF Stems
<1>4. CASE BatchFile
  <2>1. cli.at \in 1 .. n
    BY <1>1, <1>2, <1>4 DEF BatchFile
  <2> DEFINE stem == BatchFiles[cli.at]
  <2>2. \/ cli' = [cli EXCEPT !.at = @ + 1, !.failed = @ \cup {cli.at}]
        \/ cli' = [cli EXCEPT !.at = @ + 1, !.wrote = cli.wrote \cup {stem}]
        \/ cli' = [cli EXCEPT !.at = @ + 1, !.wrote = cli.wrote \cup {stem}, !.failed = @ \cup {cli.at}]
    BY <1>4 DEF BatchFile, BatchFails
  <2>3. stem \in ToSet(BatchFiles) /\ stem # "enrichment"
    BY <1>2, <2>1
  <2> HIDE DEF stem
  <2>4. /\ CliTypes' /\ cli'.pc = "batch" /\ cli'.ok /\ cli'.at = cli.at + 1
        /\ \/ cli'.failed = cli.failed \cup {cli.at} /\ cli'.wrote = cli.wrote
           \/ cli'.failed = cli.failed /\ cli'.wrote = cli.wrote \cup {stem}
           \/ cli'.failed = cli.failed \cup {cli.at} /\ cli'.wrote = cli.wrote \cup {stem}
    <3>1. cli.at + 1 \in Nat /\ cli.failed \cup {cli.at} \in SUBSET Nat
      BY <1>1, <1>3 DEF CliTypes, CliRecord
    <3>2. cli.wrote \cup {stem} \in SUBSET (Named \cup ToSet(BatchFiles))
      BY <1>1, <2>3 DEF CliTypes, CliRecord
    <3>3. CASE cli' = [cli EXCEPT !.at = @ + 1, !.failed = @ \cup {cli.at}]
      BY <1>1, <3>1, <3>3 DEF CliTypes, CliRecord
    <3>4. CASE cli' = [cli EXCEPT !.at = @ + 1, !.wrote = cli.wrote \cup {stem}]
      BY <1>1, <3>1, <3>2, <3>4 DEF CliTypes, CliRecord
    <3>5. CASE cli' = [cli EXCEPT !.at = @ + 1, !.wrote = cli.wrote \cup {stem},
                                  !.failed = @ \cup {cli.at}]
      BY <1>1, <3>1, <3>2, <3>5 DEF CliTypes, CliRecord
    <3> QED
      BY <2>2, <3>3, <3>4, <3>5
  <2>5. 1 .. cli'.at - 1 = (1 .. cli.at - 1) \cup {cli.at} /\ cli'.at \in 1 .. n + 1
    BY <1>2, <1>3, <2>1, <2>4
  <2>6. cli'.failed \subseteq 1 .. cli'.at - 1
    BY <1>1, <2>4, <2>5
  <2>7. Stems((1 .. cli'.at - 1) \ cli'.failed) \subseteq cli'.wrote
    BY <1>1, <2>4, <2>5 DEF Stems, stem
  <2>8. cli'.wrote \subseteq Stems(1 .. cli'.at - 1)
    BY <1>1, <2>4, <2>5 DEF Stems, stem
  <2>9. BatchSoFar' /\ NothingSent'
    BY <1>3, <2>3, <2>4, <2>5, <2>6, <2>7, <2>8 DEF BatchSoFar, NothingSent
  <2> QED
    BY <1>1, <2>4, <2>9 DEF CliInv, StageFits, ExportsWritten, Held, ExitTellsTruth
<1>5. ASSUME CliTypes', cli'.pc = "exit", cli'.wrote = cli.wrote,
             cli'.code = 0 /\ cli'.ok => cli.wrote = Stems(DOMAIN BatchFiles)
      PROVE  CliInv'
  <2>1. ExitTellsTruth'
    BY <1>1, <1>3, <1>5 DEF ExitTellsTruth, Analyzed
  <2> QED
    BY <1>1, <1>3, <1>5, <2>1 DEF CliInv, StageFits, ExportsWritten, Held, BatchSoFar, NothingSent
<1>6. CASE BatchInterrupted
  <2>1. cli' = [cli EXCEPT !.pc = "exit", !.code = IF cli.failed = {} THEN 0 ELSE 1, !.ok = FALSE]
    BY <1>6 DEF BatchInterrupted
  <2>2. CliTypes' /\ cli'.pc = "exit" /\ cli'.wrote = cli.wrote /\ ~cli'.ok
    BY <1>1, <2>1 DEF CliTypes, CliRecord, Stages
  <2> QED
    BY <1>5, <2>2
<1>7. CASE BatchEnds
  <2> DEFINE code == IF BatchFiles = <<>> \/ cli.failed # {} THEN 1 ELSE 0
  <2>1. cli.at > n /\ Leaves(code) /\ code \in Nat
    BY <1>7 DEF BatchEnds
  <2> HIDE DEF code
  <2>2. CliTypes' /\ cli'.pc = "exit" /\ cli'.wrote = cli.wrote /\ cli'.code = code
    BY <1>1, <2>1, Leaving
  <2>3. cli.at - 1 = n
    BY <1>1, <1>2, <2>1
  <2>4. code = 0 => cli.wrote = Stems(DOMAIN BatchFiles)
    <3>1. code = 0 => (1 .. n) \ cli.failed = 1 .. n
      BY DEF code
    <3> QED
      BY <1>1, <1>2, <2>3, <3>1
  <2> QED
    BY <1>5, <2>2, <2>4
<1> QED
  BY <1>4, <1>6, <1>7

LEMMA CliInvStep == CliInv /\ [CliNext]_cliVars => CliInv'
<1> SUFFICES ASSUME CliInv, [CliNext]_cliVars PROVE CliInv'
  OBVIOUS
<1>1. CASE UNCHANGED cliVars
  <2>1. given' = given /\ cli' = cli
    BY <1>1 DEF cliVars
  <2>2. (CliTypes /\ StageFits /\ ExportsWritten /\ Held)'
    BY <2>1 DEF CliInv, CliTypes, StageFits, ExportsWritten, Held
  <2>3. (BatchSoFar /\ NothingSent)'
    BY <2>1 DEF CliInv, BatchSoFar, NothingSent
  <2>4. ExitTellsTruth'
    BY <2>1 DEF CliInv, ExitTellsTruth, Analyzed
  <2> QED
    BY <2>2, <2>3, <2>4 DEF CliInv
<1> QED
  BY <1>1, OtherStages, EarlyStages, ExportStages, LateStages, Verdict, BatchSteps DEF CliNext

LEMMA CliInvInit == CliInit => CliInv
<1> SUFFICES ASSUME CliInit PROVE CliInv
  OBVIOUS
<1>1. PICK valid \in BOOLEAN, fits \in BOOLEAN : cli = FirstStage(valid, fits)
  BY DEF CliInit
<1>2. given \in Invocation
  BY CommandLineAssumption DEF CliInit
<1>3. cli \in CliRecord
  BY <1>1 DEF FirstStage, CliRecord, Stages
<1>4. cli.pc = "info" /\ cli.wrote = {} /\ cli.failed = {} /\ cli.at = 1 /\ cli.ok
  BY <1>1 DEF FirstStage
<1> QED
  BY <1>2, <1>3, <1>4
     DEF CliInv, CliTypes, StageFits, ExportsWritten, Held, BatchSoFar, NothingSent, ExitTellsTruth,
         SingleStages, AfterIoc, AfterCase, AfterTimeline, AfterEvidence, AfterGraph,
         AfterJsonl, AfterVault, AfterStrict, AfterIntelligence, AfterSize, AfterReport

\* cli.py, for any set of invocations and any batch: the exit code tells a
\* pipeline the truth about what was written, checked and judged.
THEOREM ExitAlwaysTellsTruth == CliSpec => []ExitTellsTruth
<1>1. CliInv => ExitTellsTruth
  BY DEF CliInv
<1> QED
  BY <1>1, CliInvInit, CliInvStep, PTL DEF CliSpec

-----------------------------------------------------------------------------
(* The assistant *)

KeepStep(S, kept, x) == IF x \in S THEN Append(kept, x) ELSE kept
NothingYet(r) == <<>>
KeepHolds(S, s, k, kept) ==
    /\ kept \in Seq(ToSet(s) \cap S)
    /\ (\E i \in 1 .. k : s[i] \in S) => kept # <<>>
Keeping == INSTANCE FoldInduction WITH Step <- KeepStep, Start <- NothingYet, Holds <- KeepHolds

LEMMA OwnMembers ==
  ASSUME NEW T, NEW s \in Seq(T)
  PROVE  /\ s \in Seq(ToSet(s)) /\ ToSet(s) \subseteq T
         /\ \A x \in ToSet(s) : \E k \in 1 .. Len(s) : x = s[k]
         /\ \A k \in 1 .. Len(s) : s[k] \in ToSet(s)
BY DEF ToSet

LEMMA JoinedOnes ==
  ASSUME NEW S, NEW p \in Seq(S), NEW q \in Seq(S)
  PROVE  p \o q \in Seq(S) /\ Len(p \o q) = Len(p) + Len(q)
OBVIOUS

LEMMA AddedOne ==
  ASSUME NEW S, NEW s \in Seq(S), NEW x \in S
  PROVE  Append(s, x) \in Seq(S) /\ Append(s, x) # <<>>
<1>1. Append(s, x) \in Seq(S) /\ Len(Append(s, x)) = Len(s) + 1 /\ Len(s) \in Nat
  OBVIOUS
<1>2. Len(Append(s, x)) # 0
  BY <1>1
<1> QED BY <1>1, <1>2

LEMMA KeptOnes ==
  ASSUME NEW T, NEW s \in Seq(T), NEW S
  PROVE  /\ Kept(s, S) \in Seq(ToSet(s) \cap S)
         /\ (\E x \in ToSet(s) : x \in S) => Kept(s, S) # <<>>
<1>1. s \in Seq(ToSet(s)) /\ \A k \in 1 .. Len(s) : s[k] \in ToSet(s)
  BY OwnMembers
<1>2. KeepHolds(S, s, 0, NothingYet(S))
  BY DEF KeepHolds, NothingYet
<1>3. ASSUME NEW k \in 1 .. Len(s), NEW a, KeepHolds(S, s, k - 1, a)
      PROVE  KeepHolds(S, s, k, KeepStep(S, a, s[k]))
  <2>1. a \in Seq(ToSet(s) \cap S) /\ s[k] \in ToSet(s)
    BY <1>1, <1>3 DEF KeepHolds
  <2>2. CASE s[k] \in S
    <3>1. s[k] \in ToSet(s) \cap S
      BY <2>1, <2>2
    <3>2. Append(a, s[k]) \in Seq(ToSet(s) \cap S) /\ Append(a, s[k]) # <<>>
      BY <2>1, <3>1, AddedOne
    <3> QED BY <2>2, <3>2 DEF KeepHolds, KeepStep
  <2>3. CASE s[k] \notin S
    <3>1. \A i \in 1 .. k : s[i] \in S => i \in 1 .. k - 1
      BY <2>3
    <3> QED BY <1>3, <2>3, <3>1 DEF KeepHolds, KeepStep
  <2> QED BY <2>2, <2>3
<1>4. KeepHolds(S, s, Len(s), Keeping!Folded(S, s))
  BY <1>1, <1>2, <1>3, Keeping!FoldHolds
<1>5. Keeping!Folded(S, s) = Kept(s, S)
  BY DEF Kept, Keeping!Folded, KeepStep, NothingYet, FoldLeft, MapThenFoldSet, Max,
         Keeping!FoldLeft, Keeping!MapThenFoldSet, Keeping!Max
<1>6. KeepHolds(S, s, Len(s), Kept(s, S))
  BY <1>4, <1>5
<1>7. (\E x \in ToSet(s) : x \in S) => \E i \in 1 .. Len(s) : s[i] \in S
  BY OwnMembers
<1> QED BY <1>6, <1>7 DEF KeepHolds

PlaceStep(before, sorted, x) == InsertAt(sorted, Slot(sorted, x, before), x)
PlaceHolds(before, s, k, sorted) == sorted \in Seq(ToSet(s)) /\ Len(sorted) = k
Placing == INSTANCE FoldInduction WITH Step <- PlaceStep, Start <- NothingYet, Holds <- PlaceHolds

LEMMA SlotInside ==
  ASSUME NEW S, NEW sorted \in Seq(S), NEW x, NEW before
  PROVE  Slot(sorted, x, before) \in 1 .. Len(sorted) + 1
<1> DEFINE ahead == {k \in DOMAIN sorted : <<x, sorted[k]>> \notin before}
<1>1. Len(sorted) \in Nat /\ ahead \subseteq 1 .. Len(sorted)
  OBVIOUS
<1>2. IsFiniteSet(1 .. Len(sorted)) /\ Cardinality(1 .. Len(sorted)) = Len(sorted)
  <2> DEFINE n == Len(sorted)
  <2>1. n \in Int /\ 1 \in Int /\ (1 > n => n = 0)
    BY <1>1
  <2> HIDE DEF n
  <2>2. IsFiniteSet(1 .. n) /\ Cardinality(1 .. n) = IF 1 > n THEN 0 ELSE n - 1 + 1
    BY ONLY <2>1, FS_Interval
  <2>3. n - 1 + 1 = n
    BY <2>1
  <2>4. Cardinality(1 .. n) = n
    BY <2>1, <2>2, <2>3
  <2> QED BY <2>2, <2>4 DEF n
<1> HIDE DEF ahead
<1>3. IsFiniteSet(ahead) /\ Cardinality(ahead) <= Len(sorted)
  BY <1>1, <1>2, FS_Subset
<1>4. Cardinality(ahead) \in Nat
  BY <1>3, FS_CardinalityType
<1> QED BY <1>1, <1>3, <1>4 DEF Slot, ahead

LEMMA OneMore ==
  ASSUME NEW S, NEW s \in Seq(S), NEW x \in S, NEW n \in 1 .. Len(s) + 1
  PROVE  InsertAt(s, n, x) \in Seq(S) /\ Len(InsertAt(s, n, x)) = Len(s) + 1
<1>1. Len(s) \in Nat /\ n - 1 \in 0 .. Len(s)
  OBVIOUS
<1>2. SubSeq(s, 1, n - 1) \in Seq(S) /\ SubSeq(s, n, Len(s)) \in Seq(S) /\ <<x>> \in Seq(S)
  BY <1>1
<1>3. /\ Len(SubSeq(s, 1, n - 1)) = n - 1 /\ Len(SubSeq(s, n, Len(s))) = Len(s) - n + 1
      /\ Len(<<x>>) = 1
  BY <1>1
<1> DEFINE p == SubSeq(s, 1, n - 1)
           q == SubSeq(s, n, Len(s))
           o == <<x>>
<1>4. InsertAt(s, n, x) = (p \o o) \o q
  BY DEF InsertAt
<1> HIDE DEF p, q, o
<1>5. p \o o \in Seq(S) /\ Len(p \o o) = Len(p) + Len(o)
  BY <1>2, JoinedOnes DEF p, o
<1>6. (p \o o) \o q \in Seq(S) /\ Len((p \o o) \o q) = Len(p \o o) + Len(q)
  BY <1>2, <1>5, JoinedOnes DEF q
<1>7. Len(p) = n - 1 /\ Len(q) = Len(s) - n + 1 /\ Len(o) = 1
  BY <1>3 DEF p, q, o
<1> QED BY <1>1, <1>4, <1>5, <1>6, <1>7

LEMMA SortedOnes ==
  ASSUME NEW T, NEW s \in Seq(T), NEW before
  PROVE  SortedBy(s, before) \in Seq(ToSet(s)) /\ Len(SortedBy(s, before)) = Len(s)
<1>1. s \in Seq(ToSet(s)) /\ \A k \in 1 .. Len(s) : s[k] \in ToSet(s)
  BY OwnMembers
<1>2. PlaceHolds(before, s, 0, NothingYet(before))
  BY DEF PlaceHolds, NothingYet
<1>3. ASSUME NEW k \in 1 .. Len(s), NEW a, PlaceHolds(before, s, k - 1, a)
      PROVE  PlaceHolds(before, s, k, PlaceStep(before, a, s[k]))
  <2>1. a \in Seq(ToSet(s)) /\ Len(a) = k - 1 /\ s[k] \in ToSet(s)
    BY <1>1, <1>3 DEF PlaceHolds
  <2>2. Slot(a, s[k], before) \in 1 .. Len(a) + 1
    BY <2>1, SlotInside
  <2>3. /\ InsertAt(a, Slot(a, s[k], before), s[k]) \in Seq(ToSet(s))
        /\ Len(InsertAt(a, Slot(a, s[k], before), s[k])) = Len(a) + 1
    BY <2>1, <2>2, OneMore
  <2>4. Len(a) + 1 = k
    BY <2>1
  <2> QED BY <2>3, <2>4 DEF PlaceHolds, PlaceStep
<1>4. PlaceHolds(before, s, Len(s), Placing!Folded(before, s))
  BY <1>1, <1>2, <1>3, Placing!FoldHolds
<1>5. Placing!Folded(before, s) = SortedBy(s, before)
  BY DEF SortedBy, Placing!Folded, PlaceStep, NothingYet, FoldLeft, MapThenFoldSet, Max,
         Placing!FoldLeft, Placing!MapThenFoldSet, Placing!Max
<1> QED BY <1>4, <1>5 DEF PlaceHolds

LEMMA FirstOnes ==
  ASSUME NEW S, NEW s \in Seq(S), NEW n \in Nat
  PROVE  /\ FirstFew(s, n) \in Seq(S)
         /\ n # 0 /\ s # <<>> => FirstFew(s, n) # <<>>
<1>1. CASE Len(s) <= n
  BY <1>1 DEF FirstFew
<1>2. CASE ~(Len(s) <= n)
  <2>1. Len(s) \in Nat /\ n <= Len(s)
    BY <1>2
  <2>2. SubSeq(s, 1, n) \in Seq(S) /\ Len(SubSeq(s, 1, n)) = n
    BY <2>1
  <2>3. n # 0 => SubSeq(s, 1, n) # <<>>
    BY <2>2
  <2> QED BY <1>2, <2>2, <2>3 DEF FirstFew
<1> QED BY <1>1, <1>2

-----------------------------------------------------------------------------
(* The ledger *)

ItemsIn(reports) ==
    UNION {{LedgerItem(reports, r, k) : k \in DOMAIN reports[r]} : r \in DOMAIN reports}

JoinStep(reports, all, r) == all \o [k \in DOMAIN reports[r] |-> LedgerItem(reports, r, k)]
JoinHolds(reports, s, k, all) == all \in Seq(ItemsIn(reports))
Joining == INSTANCE FoldInduction WITH Step <- JoinStep, Start <- NothingYet, Holds <- JoinHolds

LEMMA AllOfThem ==
  ASSUME NEW reports \in Seq(Seq(Fact))
  PROVE  AllItems(reports) \in Seq(ItemsIn(reports))
<1> DEFINE numbers == [r \in DOMAIN reports |-> r]
<1>1. DOMAIN reports = 1 .. Len(reports) /\ Len(reports) \in Nat
  OBVIOUS
<1>2. numbers \in Seq(Nat) /\ Len(numbers) = Len(reports) /\ \A k \in 1 .. Len(reports) : numbers[k] = k
  BY <1>1
<1>3. JoinHolds(reports, numbers, 0, NothingYet(reports))
  BY DEF JoinHolds, NothingYet
<1>4. ASSUME NEW k \in 1 .. Len(numbers), NEW a, JoinHolds(reports, numbers, k - 1, a)
      PROVE  JoinHolds(reports, numbers, k, JoinStep(reports, a, numbers[k]))
  <2>1. k \in DOMAIN reports /\ numbers[k] = k
    BY <1>1, <1>2
  <2>2. reports[k] \in Seq(Fact)
    BY <2>1
  <2> DEFINE here == [i \in DOMAIN reports[k] |-> LedgerItem(reports, k, i)]
  <2>3. \A i \in DOMAIN reports[k] : LedgerItem(reports, k, i) \in ItemsIn(reports)
    BY <2>1 DEF ItemsIn
  <2>4. DOMAIN reports[k] = 1 .. Len(reports[k]) /\ Len(reports[k]) \in Nat
    BY <2>2
  <2>5. here \in Seq(ItemsIn(reports))
    BY <2>3, <2>4
  <2>6. a \in Seq(ItemsIn(reports))
    BY <1>4 DEF JoinHolds
  <2>7. JoinStep(reports, a, k) = a \o here
    BY DEF JoinStep
  <2> HIDE DEF here
  <2>8. a \o here \in Seq(ItemsIn(reports))
    BY <2>5, <2>6
  <2> QED BY <2>1, <2>7, <2>8 DEF JoinHolds
<1>5. Joining!Folded(reports, numbers) = AllItems(reports)
  BY DEF AllItems, Joining!Folded, JoinStep, NothingYet, FoldLeft, MapThenFoldSet, Max,
         Joining!FoldLeft, Joining!MapThenFoldSet, Joining!Max
<1> HIDE DEF numbers
<1>6. JoinHolds(reports, numbers, Len(numbers), Joining!Folded(reports, numbers))
  BY <1>2, <1>3, <1>4, Joining!FoldHolds
<1> QED BY <1>5, <1>6 DEF JoinHolds

LEMMA LedgerItems ==
  ASSUME NEW reports \in Seq(Seq(Fact))
  PROVE  Ledger(reports) \in Seq(ItemsIn(reports))
<1> DEFINE all == AllItems(reports)
           before == {p \in ToSet(all) \X ToSet(all) : LedgerOrder(p[1], p[2])}
<1>1. all \in Seq(ItemsIn(reports))
  BY AllOfThem
<1>2. Ledger(reports) = FirstFew(SortedBy(all, before), MaxLedger)
  BY DEF Ledger
<1> HIDE DEF all, before
<1>3. SortedBy(all, before) \in Seq(ToSet(all)) /\ ToSet(all) \subseteq ItemsIn(reports)
  BY <1>1, SortedOnes, OwnMembers
<1>4. SortedBy(all, before) \in Seq(ItemsIn(reports))
  BY <1>3
<1> QED BY <1>2, <1>4, FirstOnes, AssistantAssumption

\* Only an indicator is named without the number of its report.
LEMMA NamesApart ==
  ASSUME NEW reports \in Seq(Seq(Fact)), NEW a \in ItemsIn(reports), NEW b \in ItemsIn(reports),
         a.id = b.id, a.fact.kind # "ioc"
  PROVE  a.report = b.report
<1>1 PICK r \in DOMAIN reports : \E k \in DOMAIN reports[r] : a = LedgerItem(reports, r, k)
  BY DEF ItemsIn
<1>2 PICK q \in DOMAIN reports : \E j \in DOMAIN reports[q] : b = LedgerItem(reports, q, j)
  BY DEF ItemsIn
<1>k. PICK k \in DOMAIN reports[r] : a = LedgerItem(reports, r, k)
  BY <1>1
<1>j. PICK j \in DOMAIN reports[q] : b = LedgerItem(reports, q, j)
  BY <1>2
<1>3. /\ a.id = Scoped(reports, r, a.fact) /\ a.report = r
      /\ b.id = Scoped(reports, q, b.fact) /\ b.report = q
  BY <1>k, <1>j DEF LedgerItem
<1> DEFINE x == IF a.fact.kind = "ioc" \/ Len(reports) = 1 THEN 0 ELSE r
           y == IF b.fact.kind = "ioc" \/ Len(reports) = 1 THEN 0 ELSE q
<1>x. <<a.fact.kind, x, a.fact.name>> = <<b.fact.kind, y, b.fact.name>>
  BY <1>3 DEF Scoped
<1> HIDE DEF x, y
<1>4. a.fact.kind = b.fact.kind /\ x = y
  BY <1>x
<1>5. CASE Len(reports) = 1
  BY <1>3, <1>5
<1>6. CASE Len(reports) # 1
  <2>1. x = r /\ y = q
    BY <1>4, <1>6 DEF x, y
  <2> QED BY <1>3, <1>4, <2>1
<1> QED BY <1>5, <1>6

-----------------------------------------------------------------------------
(* What is chosen *)

Meant(ledger, kinds, terms) ==
    {item \in ToSet(ledger) : item.fact.kind \in kinds /\ (terms = {} \/ Hits(item, terms) > 0)}

LEMMA SelectedOnes ==
  ASSUME NEW T, NEW ledger \in Seq(T), NEW kinds, NEW terms
  PROVE  /\ Select(ledger, kinds, terms) \in Seq(ToSet(ledger))
         /\ (\E item \in ToSet(ledger) : item \in Meant(ledger, kinds, terms))
              => Select(ledger, kinds, terms) # <<>>
<1> DEFINE meant == Meant(ledger, kinds, terms)
           before == {p \in meant \X meant : MoreHits(p[1], p[2], terms)}
           kept == Kept(ledger, meant)
           sorted == SortedBy(kept, before)
<1>1. Select(ledger, kinds, terms) = FirstFew(sorted, MaxEvidence)
  BY DEF Select, Meant
<1> HIDE DEF meant, before
<1>2. /\ kept \in Seq(ToSet(ledger) \cap meant)
      /\ (\E item \in ToSet(ledger) : item \in meant) => kept # <<>>
  BY KeptOnes
<1>3. sorted \in Seq(ToSet(kept)) /\ Len(sorted) = Len(kept)
  BY <1>2, SortedOnes
<1>4. ToSet(kept) \subseteq ToSet(ledger)
  <2> HIDE DEF kept
  <2>1. ToSet(kept) \subseteq ToSet(ledger) \cap meant
    BY <1>2, OwnMembers
  <2> QED BY <2>1
<1> HIDE DEF sorted, kept
<1>5. sorted \in Seq(ToSet(ledger))
  BY <1>3, <1>4
<1>6. kept # <<>> => sorted # <<>>
  BY <1>2, <1>3
<1>7. MaxEvidence \in Nat /\ MaxEvidence # 0
  BY AssistantAssumption
<1>8. /\ FirstFew(sorted, MaxEvidence) \in Seq(ToSet(ledger))
      /\ sorted # <<>> => FirstFew(sorted, MaxEvidence) # <<>>
  BY <1>5, <1>7, FirstOnes
<1> QED BY <1>1, <1>2, <1>6, <1>8 DEF meant

\* Nothing is chosen only when nothing is of the kinds.
LEMMA ChosenOnes ==
  ASSUME NEW T, NEW ledger \in Seq(T), NEW words
  PROVE  /\ ChosenFor(ledger, words) \in Seq(ToSet(ledger))
         /\ ChosenFor(ledger, words) = <<>> =>
              \A item \in ToSet(ledger) : item.fact.kind \notin KindsFor[IntentOf(words)]
<1> DEFINE kinds == KindsFor[IntentOf(words)]
           terms == Terms(words)
<1>1. ChosenFor(ledger, words) = IF Select(ledger, kinds, terms) = <<>> /\ terms # {}
                                 THEN Select(ledger, kinds, {}) ELSE Select(ledger, kinds, terms)
  BY DEF ChosenFor
<1> HIDE DEF kinds, terms
<1>2. /\ Select(ledger, kinds, terms) \in Seq(ToSet(ledger))
      /\ Select(ledger, kinds, {}) \in Seq(ToSet(ledger))
  BY SelectedOnes
<1>3. ASSUME Select(ledger, kinds, {}) = <<>>, NEW item \in ToSet(ledger)
      PROVE  item.fact.kind \notin kinds
  <2>1. item \notin Meant(ledger, kinds, {})
    BY <1>3, SelectedOnes
  <2> QED BY <2>1 DEF Meant
<1>4. ChosenFor(ledger, words) = <<>> => Select(ledger, kinds, {}) = <<>>
  BY <1>1
<1>5. ChosenFor(ledger, words) = <<>> => \A item \in ToSet(ledger) : item.fact.kind \notin kinds
  BY <1>3, <1>4
<1>6. ChosenFor(ledger, words) \in Seq(ToSet(ledger))
  BY <1>1, <1>2
<1> QED BY <1>5, <1>6 DEF kinds

-----------------------------------------------------------------------------
(* The answer made from the evidence *)

\* The lines an answer about the items has, apart from its heading.
LinesOver(items) ==
    {Says("fact", {item.id}) : item \in ToSet(items)} \cup {Says("advice", {}), Heading}

LEMMA CitedOnes ==
  ASSUME NEW items, NEW some \in Seq(ToSet(items))
  PROVE  Cite(some) \in Seq(LinesOver(items))
<1>1. DOMAIN some = 1 .. Len(some) /\ Len(some) \in Nat
  OBVIOUS
<1>2. ASSUME NEW k \in 1 .. Len(some)
      PROVE  Says("fact", {some[k].id}) \in LinesOver(items)
  <2>1. some[k] \in ToSet(items)
    OBVIOUS
  <2> QED BY <2>1 DEF LinesOver
<1>3. Cite(some) = [k \in 1 .. Len(some) |-> Says("fact", {some[k].id})]
  BY <1>1 DEF Cite
<1> QED BY <1>1, <1>2, <1>3

LEMMA OnesOfKind ==
  ASSUME NEW T, NEW items \in Seq(T), NEW kind
  PROVE  OfKind(items, kind) \in Seq(ToSet(items))
<1> DEFINE S == {i \in ToSet(items) : i.fact.kind = kind}
<1>1. Kept(items, S) \in Seq(ToSet(items) \cap S)
  <2> HIDE DEF S
  <2> QED BY KeptOnes
<1>2. ToSet(items) \cap S \subseteq ToSet(items)
  OBVIOUS
<1>3. OfKind(items, kind) = Kept(items, S)
  BY DEF OfKind
<1> HIDE DEF S
<1> QED BY <1>1, <1>2, <1>3

GroupStep(of, said, kind) == said \o FirstFew(Cite(OfKind(of.items, kind)), of.most)
GroupHolds(of, s, k, said) == said \in Seq(LinesOver(of.items))
Grouping == INSTANCE FoldInduction WITH Step <- GroupStep, Start <- NothingYet, Holds <- GroupHolds

LEMMA GroupedOnes ==
  ASSUME NEW T, NEW items \in Seq(T), NEW K, NEW kinds \in Seq(K), NEW most \in Nat
  PROVE  Groups(items, kinds, most) \in Seq(LinesOver(items))
<1> DEFINE of == [items |-> items, most |-> most]
<1>1. of.items = items /\ of.most = most
  OBVIOUS
<1>2. Grouping!Folded(of, kinds) = Groups(items, kinds, most)
  BY DEF Groups, Grouping!Folded, GroupStep, NothingYet, FoldLeft, MapThenFoldSet, Max,
         Grouping!FoldLeft, Grouping!MapThenFoldSet, Grouping!Max
<1> HIDE DEF of
<1>3. GroupHolds(of, kinds, 0, NothingYet(of))
  BY DEF GroupHolds, NothingYet
<1>4. ASSUME NEW k \in 1 .. Len(kinds), NEW a, GroupHolds(of, kinds, k - 1, a)
      PROVE  GroupHolds(of, kinds, k, GroupStep(of, a, kinds[k]))
  <2> DEFINE more == FirstFew(Cite(OfKind(items, kinds[k])), most)
  <2>1. Cite(OfKind(items, kinds[k])) \in Seq(LinesOver(items))
    BY OnesOfKind, CitedOnes
  <2>2. more \in Seq(LinesOver(items))
    BY <2>1, FirstOnes
  <2>3. a \in Seq(LinesOver(items)) /\ GroupStep(of, a, kinds[k]) = a \o more
    BY <1>1, <1>4 DEF GroupHolds, GroupStep
  <2> HIDE DEF more
  <2>4. a \o more \in Seq(LinesOver(items))
    BY <2>2, <2>3, JoinedOnes
  <2> QED BY <1>1, <2>3, <2>4 DEF GroupHolds
<1>5. GroupHolds(of, kinds, Len(kinds), Grouping!Folded(of, kinds))
  BY <1>3, <1>4, Grouping!FoldHolds
<1> QED BY <1>1, <1>2, <1>5 DEF GroupHolds

LEMMA ShortLists ==
  ASSUME NEW S, NEW a \in S, NEW b \in S, NEW c \in S, NEW d \in S, NEW e \in S, NEW f \in S
  PROVE  /\ <<a>> \in Seq(S) /\ <<a, b, c>> \in Seq(S) /\ <<a, b, c, d>> \in Seq(S)
         /\ <<a, b, c, d, e>> \in Seq(S) /\ <<a, b, c, d, e, f>> \in Seq(S)
OBVIOUS

LEMMA AdviceLines ==
  ASSUME NEW T, NEW items \in Seq(T)
  PROVE  NextSteps(items) \in Seq(LinesOver(items))
<1> DEFINE of == OfKind(items, "intelligence")
           advising == {i \in ToSet(items) : i.fact.advises}
           advice == Cite(Kept(of, advising))
           rest == Groups(items, <<"detection", "ioc", "node">>, 4)
<1>1. NextSteps(items) = IF advice # <<>> THEN advice ELSE <<Says("advice", {})>> \o rest
  BY DEF NextSteps
<1>2. of \in Seq(ToSet(items))
  BY OnesOfKind
<1> HIDE DEF advising, of
<1>3. Kept(of, advising) \in Seq(ToSet(of) \cap advising) /\ ToSet(of) \subseteq ToSet(items)
  BY <1>2, KeptOnes, OwnMembers
<1>4. Kept(of, advising) \in Seq(ToSet(items))
  BY <1>3
<1>5. advice \in Seq(LinesOver(items))
  BY <1>4, CitedOnes
<1>6. rest \in Seq(LinesOver(items))
  <2>1. <<"detection", "ioc", "node">> \in Seq({"detection", "ioc", "node"})
    BY ShortLists
  <2> QED BY <2>1, GroupedOnes
<1>7. <<Says("advice", {})>> \in Seq(LinesOver(items))
  <2>1. Says("advice", {}) \in LinesOver(items)
    BY DEF LinesOver
  <2> QED BY <2>1
<1> HIDE DEF advice, rest
<1>8. <<Says("advice", {})>> \o rest \in Seq(LinesOver(items))
  BY <1>6, <1>7, JoinedOnes
<1> QED BY <1>1, <1>5, <1>8

LEMMA BodyLines ==
  ASSUME NEW T, NEW items \in Seq(T), NEW intent
  PROVE  AnswerBody(intent, items) \in Seq(LinesOver(items))
<1>1. \A kind : Cite(OfKind(items, kind)) \in Seq(LinesOver(items))
  BY OnesOfKind, CitedOnes
<1>2. Cite(ByDepth(OfKind(items, "node"))) \in Seq(LinesOver(items))
  <2> DEFINE of == OfKind(items, "node")
             before == {p \in ToSet(of) \X ToSet(of) : Shallower(p[1], p[2])}
  <2>1. of \in Seq(ToSet(items))
    BY OnesOfKind
  <2>2. ByDepth(of) = SortedBy(of, before)
    BY DEF ByDepth
  <2> HIDE DEF of, before
  <2>3. SortedBy(of, before) \in Seq(ToSet(of)) /\ ToSet(of) \subseteq ToSet(items)
    BY <2>1, SortedOnes, OwnMembers
  <2>4. ByDepth(of) \in Seq(ToSet(items))
    BY <2>2, <2>3
  <2> QED BY <2>4, CitedOnes DEF of
<1>3. /\ Groups(items, <<"risk", "intelligence", "signal", "detection">>, 8) \in Seq(LinesOver(items))
      /\ Groups(items, <<"ioc", "detection", "signal">>, 12) \in Seq(LinesOver(items))
      /\ Groups(items, <<"detection">>, 10) \in Seq(LinesOver(items))
      /\ Groups(items, <<"relationship", "attribution_hint", "ioc", "attack", "node">>, 10)
           \in Seq(LinesOver(items))
      /\ Groups(items, <<"risk", "intelligence", "signal", "detection", "ioc", "attack">>, 8)
           \in Seq(LinesOver(items))
  <2> DEFINE K == {"risk", "intelligence", "signal", "detection", "ioc", "attack", "relationship",
                   "attribution_hint", "node"}
  <2>k. /\ "risk" \in K /\ "intelligence" \in K /\ "signal" \in K /\ "detection" \in K
        /\ "ioc" \in K /\ "attack" \in K /\ "relationship" \in K /\ "node" \in K
        /\ "attribution_hint" \in K
    OBVIOUS
  <2> HIDE DEF K
  <2>1. /\ <<"risk", "intelligence", "signal", "detection">> \in Seq(K)
        /\ <<"ioc", "detection", "signal">> \in Seq(K) /\ <<"detection">> \in Seq(K)
        /\ <<"relationship", "attribution_hint", "ioc", "attack", "node">> \in Seq(K)
        /\ <<"risk", "intelligence", "signal", "detection", "ioc", "attack">> \in Seq(K)
    BY <2>k, ShortLists
  <2>2. 8 \in Nat /\ 10 \in Nat /\ 12 \in Nat
    OBVIOUS
  <2> QED BY ONLY <2>1, <2>2, items \in Seq(T), GroupedOnes
<1>4. NextSteps(items) \in Seq(LinesOver(items))
  BY AdviceLines
<1> QED BY <1>1, <1>2, <1>3, <1>4 DEF AnswerBody

\* Every line of an answer is a heading, an advice or a fact of one of the items.
LEMMA MadeFromItems ==
  ASSUME NEW T, NEW items \in Seq(T), NEW intent
  PROVE  /\ DeterministicAnswer(intent, items) \in Seq(LinesOver(items))
         /\ DeterministicAnswer(intent, items) # <<>>
<1>1. <<Heading>> \in Seq(LinesOver(items)) /\ <<Heading>> # <<>> /\ Len(<<Heading>>) = 1
  <2>1. Heading \in LinesOver(items)
    BY DEF LinesOver
  <2> QED BY <2>1
<1> DEFINE whole == <<Heading>> \o AnswerBody(intent, items)
<1>2. AnswerBody(intent, items) \in Seq(LinesOver(items))
  BY BodyLines
<1>3. whole \in Seq(LinesOver(items)) /\ Len(whole) = 1 + Len(AnswerBody(intent, items))
  BY <1>1, <1>2, JoinedOnes
<1>4. Len(AnswerBody(intent, items)) \in Nat
  BY <1>2
<1>5. DeterministicAnswer(intent, items)
        = IF items = <<>> THEN <<Heading>> ELSE FirstFew(whole, MaxAnswerLines)
  BY DEF DeterministicAnswer
<1> HIDE DEF whole
<1>6. whole # <<>>
  BY <1>3, <1>4
<1>7. /\ FirstFew(whole, MaxAnswerLines) \in Seq(LinesOver(items))
      /\ FirstFew(whole, MaxAnswerLines) # <<>>
  BY <1>3, <1>6, FirstOnes, AssistantAssumption
<1> QED BY <1>1, <1>5, <1>7

LEMMA LinesCite ==
  ASSUME NEW T, NEW items \in Seq(T), NEW answer \in Seq(LinesOver(items))
  PROVE  /\ \A line \in ToSet(answer) : line.says = "fact" => line.cites # {}
         /\ CitedIn(answer) \subseteq IdsOf(items)
<1>1. ToSet(answer) \subseteq LinesOver(items)
  BY OwnMembers
<1>2. ASSUME NEW line \in LinesOver(items)
      PROVE  /\ line.says = "fact" => line.cites # {}
             /\ line.cites \subseteq IdsOf(items)
  <2>1. CASE line \in {Says("advice", {}), Heading}
    BY <2>1 DEF Says, Heading
  <2>2. CASE line \in {Says("fact", {item.id}) : item \in ToSet(items)}
    <3>1. PICK item \in ToSet(items) : line = Says("fact", {item.id})
      BY <2>2
    <3>2. PICK k \in 1 .. Len(items) : item = items[k]
      BY OwnMembers
    <3>3. item.id \in IdsOf(items)
      <4>1. k \in DOMAIN items
        OBVIOUS
      <4> QED BY <3>2, <4>1 DEF IdsOf
    <3> QED BY <3>1, <3>3 DEF Says
  <2> QED BY <2>1, <2>2 DEF LinesOver
<1> QED BY <1>1, <1>2 DEF CitedIn

-----------------------------------------------------------------------------
(* What a model is sent *)

LengthStep(r, n, item) == n + item.fact.size
NoLength(r) == 0
LengthHolds(r, s, k, n) == TRUE
Measuring == INSTANCE FoldInduction WITH Step <- LengthStep, Start <- NoLength, Holds <- LengthHolds

LEMMA NothingHasNoLength == ContextLength(<<>>) = 0
<1>1. Measuring!Folded(0, <<>>) = 0
  BY Measuring!FoldOfNothing DEF NoLength
<1>2. Measuring!Folded(0, <<>>) = ContextLength(<<>>)
  BY DEF ContextLength, Measuring!Folded, LengthStep, NoLength, FoldLeft, MapThenFoldSet, Max,
         Measuring!FoldLeft, Measuring!MapThenFoldSet, Measuring!Max
<1> QED BY <1>1, <1>2

LEMMA Greatest ==
  ASSUME NEW n \in Nat, NEW S \in SUBSET (0 .. n), S # {}
  PROVE  Max(S) \in S
<1> DEFINE down == {k \in 0 .. n : n - k \in S}
<1>1. down \in SUBSET Nat /\ down # {}
  <2>1. PICK x \in S : TRUE
    OBVIOUS
  <2>2. n - x \in 0 .. n /\ n - (n - x) = x
    BY <2>1
  <2>3. n - x \in down
    BY <2>2
  <2>4. \A k \in down : k \in Nat
    OBVIOUS
  <2> HIDE DEF down
  <2> QED BY <2>3, <2>4
<1>2. PICK m \in down : \A k \in down : m <= k
  <2> HIDE DEF down
  <2> QED BY <1>1, Measuring!LeastNumber
<1>3. n - m \in S /\ m \in 0 .. n
  BY <1>2
<1>4. ASSUME NEW y \in S
      PROVE  n - m >= y
  <2>1. n - y \in 0 .. n /\ n - (n - y) = y
    OBVIOUS
  <2>2. m <= n - y
    BY <1>2, <2>1
  <2> QED BY <1>3, <2>1, <2>2
<1> HIDE DEF down
<1> QED BY <1>3, <1>4 DEF Max

LEMMA WholeOfIt ==
  ASSUME NEW T, NEW s \in Seq(T)
  PROVE  SubSeq(s, 1, Len(s)) = s
OBVIOUS

LEMMA WithinBound ==
  ASSUME NEW T, NEW items \in Seq(T)
  PROVE  /\ ContextLength(Bounded_(items)) <= MaxContext
         /\ Len(Bounded_(items)) < Len(items) \/ Bounded_(items) = items
<1> DEFINE fits == {n \in 0 .. Len(items) :
                      n = 0 \/ ContextLength(SubSeq(items, 1, n)) <= MaxContext}
           m == Max(fits)
<1>1. Len(items) \in Nat
  OBVIOUS
<1>2. fits \in SUBSET (0 .. Len(items)) /\ 0 \in fits
  BY <1>1
<1>3. m \in fits
  <2> HIDE DEF fits
  <2> QED BY <1>1, <1>2, Greatest
<1>4. Bounded_(items) = SubSeq(items, 1, m)
  BY DEF Bounded_
<1>5. m \in 0 .. Len(items) /\ (m = 0 \/ ContextLength(SubSeq(items, 1, m)) <= MaxContext)
  <2> HIDE DEF m
  <2> QED BY <1>3
<1> HIDE DEF m, fits
<1>6. CASE m = 0
  <2>1. SubSeq(items, 1, m) = <<>> /\ Len(<<>>) = 0
    BY <1>6
  <2>2. 0 <= MaxContext
    BY AssistantAssumption
  <2>3. Len(SubSeq(items, 1, m)) = 0
    BY ONLY <2>1
  <2>4. 0 < Len(items) \/ items = <<>>
    BY <1>1
  <2> QED BY <1>4, <2>1, <2>2, <2>3, <2>4, NothingHasNoLength
<1>7. CASE m # 0
  <2>1. ContextLength(Bounded_(items)) <= MaxContext
    BY <1>4, <1>5, <1>7
  <2>2. Len(SubSeq(items, 1, m)) = m
    BY <1>1, <1>5
  <2>3. m < Len(items) \/ m = Len(items)
    BY <1>1, <1>5
  <2> QED BY <1>4, <2>1, <2>2, <2>3, WholeOfIt
<1> QED BY <1>6, <1>7

-----------------------------------------------------------------------------
(* The invariant: what the desk has in hand is what the question calls for. *)

DeskShape ==
    /\ desk = [reports |-> desk.reports, local |-> desk.local, pc |-> desk.pc,
               words |-> desk.words, chosen |-> desk.chosen, offered |-> desk.offered,
               reply |-> desk.reply]
    /\ desk.reports \in Dossiers /\ desk.local \in BOOLEAN
    /\ desk.pc \in {"idle", "model", "answered"} /\ (desk.pc = "model" => desk.local)

InHand ==
    IF desk.pc = "idle" THEN desk.offered = <<>>
    ELSE /\ desk.chosen = ChosenFor(Ledger(desk.reports), desk.words)
         /\ desk.offered = IF desk.local THEN Bounded_(desk.chosen) ELSE <<>>

FromEvidence ==
    /\ desk.reply.fallback = TRUE
    /\ desk.reply.answer = DeterministicAnswer(IntentOf(desk.words), desk.chosen)
    /\ IF desk.local THEN desk.reply.errors # {} /\ desk.reply.ids = IdsOf(desk.offered)
       ELSE desk.reply.errors = {} /\ desk.reply.ids = IdsOf(desk.chosen)

FromModel ==
    /\ desk.local = TRUE /\ desk.reply.fallback = FALSE /\ desk.reply.errors = {}
    /\ desk.reply.answer \in ModelTexts
    /\ Valid(desk.reply.answer, Ledger(desk.reports))
    /\ desk.reply.ids = CitedIn(desk.reply.answer)

DeskInv ==
    DeskShape /\ InHand /\ (desk.pc = "answered" => FromEvidence \/ FromModel)

LEMMA InitDesk == AssistantInit => DeskInv
<1> SUFFICES ASSUME NEW reports \in Dossiers, NEW local \in BOOLEAN, desk = NewDesk(reports, local)
             PROVE  DeskInv
  BY DEF AssistantInit
<1>1. /\ desk.reports = reports /\ desk.local = local /\ desk.pc = "idle" /\ desk.offered = <<>>
      /\ DeskShape
  BY DEF NewDesk, DeskShape
<1> QED BY <1>1 DEF DeskInv, InHand

LEMMA NextDesk == DeskInv /\ [AssistantNext]_desk => DeskInv'
<1> SUFFICES ASSUME DeskInv, [AssistantNext]_desk PROVE DeskInv'
  OBVIOUS
<1>0. DeskShape /\ InHand
  BY DEF DeskInv
<1>1. CASE Ask
  <2>1. PICK words \in Asked :
          LET chosen == ChosenFor(Ledger(desk.reports), words)
              asked == [desk EXCEPT !.words = words, !.chosen = chosen, !.offered = <<>>]
          IN  desk' = IF desk.local
                      THEN [asked EXCEPT !.pc = "model", !.offered = Bounded_(chosen)]
                      ELSE [asked EXCEPT !.pc = "answered",
                              !.reply = FallBack(asked, IdsOf(chosen), {}, "deterministic")]
    BY <1>1 DEF Ask
  <2> DEFINE chosen == ChosenFor(Ledger(desk.reports), words)
             asked == [desk EXCEPT !.words = words, !.chosen = chosen, !.offered = <<>>]
  <2>2. desk' = IF desk.local
                THEN [asked EXCEPT !.pc = "model", !.offered = Bounded_(chosen)]
                ELSE [asked EXCEPT !.pc = "answered",
                        !.reply = FallBack(asked, IdsOf(chosen), {}, "deterministic")]
    BY <2>1
  <2>3. chosen = ChosenFor(Ledger(desk.reports), words)
    OBVIOUS
  <2> HIDE DEF chosen
  <2>4. asked = [desk EXCEPT !.words = words, !.chosen = chosen, !.offered = <<>>]
    OBVIOUS
  <2> HIDE DEF asked
  <2>a. asked = [reports |-> desk.reports, local |-> desk.local, pc |-> desk.pc, words |-> words,
                 chosen |-> chosen, offered |-> <<>>, reply |-> desk.reply]
    BY <1>0, <2>4 DEF DeskShape
  <2>5. CASE desk.local
    <3>1. desk' = [reports |-> desk.reports, local |-> desk.local, pc |-> "model", words |-> words,
                   chosen |-> chosen, offered |-> Bounded_(chosen), reply |-> desk.reply]
      BY <2>2, <2>a, <2>5
    <3> QED BY <1>0, <2>3, <2>5, <3>1 DEF DeskInv, DeskShape, InHand
  <2>6. CASE ~desk.local
    <3> DEFINE answer == DeterministicAnswer(IntentOf(words), chosen)
               reply == Reply(answer, IdsOf(chosen), TRUE, {}, "deterministic")
    <3>1. FallBack(asked, IdsOf(chosen), {}, "deterministic") = reply
      BY <2>a DEF FallBack
    <3>2. reply.answer = answer /\ reply.ids = IdsOf(chosen) /\ reply.fallback = TRUE /\ reply.errors = {}
      BY DEF Reply
    <3> HIDE DEF reply
    <3>3. desk' = [reports |-> desk.reports, local |-> desk.local, pc |-> "answered", words |-> words,
                   chosen |-> chosen, offered |-> <<>>, reply |-> reply]
      BY <2>2, <2>a, <2>6, <3>1
    <3>4. DeskShape' /\ InHand'
      BY <1>0, <2>3, <2>6, <3>3 DEF DeskShape, InHand
    <3>5. FromEvidence'
      BY <2>6, <3>2, <3>3 DEF FromEvidence
    <3> QED BY <3>4, <3>5 DEF DeskInv
  <2> QED BY <2>5, <2>6
<1>2. ASSUME desk.pc = "model", NEW ids, NEW errors, NEW from, ids = IdsOf(desk.offered), errors # {},
             desk.local = TRUE,
             desk' = [desk EXCEPT !.pc = "answered", !.reply = FallBack(desk, ids, errors, from)]
      PROVE  DeskInv'
  <2> DEFINE answer == DeterministicAnswer(IntentOf(desk.words), desk.chosen)
             reply == Reply(answer, ids, TRUE, errors, from)
  <2>1. FallBack(desk, ids, errors, from) = reply
    BY DEF FallBack
  <2>2. reply.answer = answer /\ reply.ids = ids /\ reply.fallback = TRUE /\ reply.errors = errors
    BY DEF Reply
  <2> HIDE DEF reply
  <2>3. desk' = [reports |-> desk.reports, local |-> desk.local, pc |-> "answered",
                 words |-> desk.words, chosen |-> desk.chosen, offered |-> desk.offered,
                 reply |-> reply]
    BY <1>0, <1>2, <2>1 DEF DeskShape
  <2>4. DeskShape' /\ InHand'
    BY <1>0, <1>2, <2>3 DEF DeskShape, InHand
  <2> DEFINE shown == desk'
  <2>n. shown = [reports |-> desk.reports, local |-> desk.local, pc |-> "answered",
                 words |-> desk.words, chosen |-> desk.chosen, offered |-> desk.offered,
                 reply |-> reply]
    BY <2>3
  <2> HIDE DEF shown
  <2>m. /\ shown.reply = reply /\ shown.words = desk.words /\ shown.chosen = desk.chosen
        /\ shown.offered = desk.offered /\ shown.local = desk.local
    BY ONLY <2>n
  <2>5. /\ desk'.reply = reply /\ desk'.words = desk.words /\ desk'.chosen = desk.chosen
        /\ desk'.offered = desk.offered /\ desk'.local = TRUE
    BY <1>2, <2>m DEF shown
  <2>6. FromEvidence'
    BY <1>2, <2>2, <2>5 DEF FromEvidence
  <2> QED BY <2>4, <2>6 DEF DeskInv
<1>m. desk.pc = "model" => desk.local = TRUE
  BY <1>0 DEF DeskShape
<1>3. CASE BackendFails
  BY <1>2, <1>3, <1>m DEF BackendFails
<1>4. CASE ModelAnswers
  <2>0. desk.pc = "model" /\ desk.local = TRUE
    BY <1>4, <1>m DEF ModelAnswers
  <2>1. PICK text \in ModelTexts :
          LET ledger == Ledger(desk.reports)
              errors == (IF Invalid(text, ledger) # {} THEN {"invalid citations"} ELSE {})
                        \cup (IF Uncited(text) # {} THEN {"uncited factual bullets"} ELSE {})
          IN  desk' = [desk EXCEPT !.pc = "answered",
                         !.reply = IF Valid(text, ledger)
                                   THEN Reply(text, CitedIn(text), FALSE, {}, "local-openai")
                                   ELSE FallBack(desk, IdsOf(desk.offered), errors, "local-openai")]
    BY <1>4 DEF ModelAnswers
  <2> DEFINE ledger == Ledger(desk.reports)
             errors == (IF Invalid(text, ledger) # {} THEN {"invalid citations"} ELSE {})
                       \cup (IF Uncited(text) # {} THEN {"uncited factual bullets"} ELSE {})
  <2>2. desk' = [desk EXCEPT !.pc = "answered",
                   !.reply = IF Valid(text, ledger)
                             THEN Reply(text, CitedIn(text), FALSE, {}, "local-openai")
                             ELSE FallBack(desk, IdsOf(desk.offered), errors, "local-openai")]
    BY <2>1
  <2>3. ~Valid(text, ledger) => errors # {}
    BY DEF Valid
  <2> HIDE DEF errors
  <2>4. CASE ~Valid(text, ledger)
    <3>1. desk' = [desk EXCEPT !.pc = "answered",
                     !.reply = FallBack(desk, IdsOf(desk.offered), errors, "local-openai")]
      BY <2>2, <2>4
    <3> QED BY <1>2, <2>0, <2>3, <2>4, <3>1
  <2>5. CASE Valid(text, ledger)
    <3> DEFINE reply == Reply(text, CitedIn(text), FALSE, {}, "local-openai")
    <3>1. /\ reply.answer = text /\ reply.ids = CitedIn(text) /\ reply.fallback = FALSE
          /\ reply.errors = {}
      BY DEF Reply
    <3>2. desk' = [desk EXCEPT !.pc = "answered", !.reply = reply]
      BY <2>2, <2>5
    <3> HIDE DEF reply
    <3>3. desk' = [reports |-> desk.reports, local |-> desk.local, pc |-> "answered",
                   words |-> desk.words, chosen |-> desk.chosen, offered |-> desk.offered,
                   reply |-> reply]
      BY <1>0, <3>2 DEF DeskShape
    <3>4. DeskShape' /\ InHand'
      BY <1>0, <2>0, <3>3 DEF DeskShape, InHand
    <3>5. desk'.reply = reply /\ desk'.reports = desk.reports /\ desk'.local = TRUE
      BY <2>0, <3>3
    <3>6. FromModel'
      BY <2>5, <3>1, <3>5 DEF FromModel
    <3> QED BY <3>4, <3>6 DEF DeskInv
  <2> QED BY <2>4, <2>5
<1>5. CASE UNCHANGED desk
  BY <1>5 DEF DeskInv, DeskShape, InHand, FromEvidence, FromModel
<1> QED BY <1>1, <1>3, <1>4, <1>5 DEF AssistantNext

LEMMA DeskIsGrounded == DeskInv => AnswersGrounded
<1> SUFFICES ASSUME DeskInv PROVE AnswersGrounded
  OBVIOUS
<1> DEFINE ledger == Ledger(desk.reports)
           answer == desk.reply.answer
           chosen == desk.chosen
<1>0. DeskShape /\ InHand /\ (desk.pc = "answered" => FromEvidence \/ FromModel)
  BY DEF DeskInv
<1>1. desk.reports \in Seq(Seq(Fact))
  BY <1>0, AssistantAssumption DEF DeskShape
<1>2. ledger \in Seq(ItemsIn(desk.reports))
  BY <1>1, LedgerItems
<1>3. ToSet(ledger) \subseteq ItemsIn(desk.reports)
  <2> HIDE DEF ledger
  <2> QED BY <1>2, OwnMembers
<1>4. \A a, b \in ToSet(ledger) : a.id = b.id /\ a.fact.kind # "ioc" => a.report = b.report
  <2> HIDE DEF ledger
  <2> QED BY <1>1, <1>3, NamesApart
<1> HIDE DEF ledger
<1>5. ContextLength(desk.offered) <= MaxContext
  <2>1. 0 <= MaxContext
    BY AssistantAssumption
  <2>2. CASE desk.offered = <<>>
    BY <2>1, <2>2, NothingHasNoLength
  <2>3. CASE desk.offered = Bounded_(chosen) /\ desk.chosen = ChosenFor(ledger, desk.words)
    <3>1. chosen \in Seq(ToSet(ledger))
      BY <1>2, <2>3, ChosenOnes
    <3> QED BY <2>3, <3>1, WithinBound
  <2> QED BY <1>0, <2>2, <2>3 DEF InHand, ledger
<1>6. ASSUME desk.pc = "answered"
      PROVE  /\ \A line \in ToSet(answer) : line.says = "fact" => line.cites # {}
             /\ CitedIn(answer) \subseteq IdsOf(ledger)
             /\ desk.reply.fallback => CitedIn(answer) \subseteq IdsOf(chosen)
             /\ CitedIn(answer) \subseteq desk.reply.ids
                  \/ (desk.reply.fallback /\ desk.local /\ Trimmed)
             /\ chosen = <<>> =>
                  \A item \in ToSet(ledger) : item.fact.kind \notin KindsFor[IntentOf(desk.words)]
             /\ desk.reply.errors # {} <=> desk.reply.fallback /\ desk.local
             /\ answer # <<>>
  <2>1. /\ chosen = ChosenFor(ledger, desk.words)
        /\ desk.offered = IF desk.local THEN Bounded_(chosen) ELSE <<>>
    BY <1>0, <1>6 DEF InHand, ledger
  <2>2. /\ chosen \in Seq(ToSet(ledger))
        /\ chosen = <<>> =>
             \A item \in ToSet(ledger) : item.fact.kind \notin KindsFor[IntentOf(desk.words)]
    BY <1>2, <2>1, ChosenOnes
  <2>3. CASE FromEvidence
    <3>1. answer \in Seq(LinesOver(chosen)) /\ answer # <<>>
      BY <2>2, <2>3, MadeFromItems DEF FromEvidence
    <3>2. /\ \A line \in ToSet(answer) : line.says = "fact" => line.cites # {}
          /\ CitedIn(answer) \subseteq IdsOf(chosen)
      BY <2>2, <3>1, LinesCite
    <3>3. IdsOf(chosen) \subseteq IdsOf(ledger)
      <4> SUFFICES ASSUME NEW k \in DOMAIN chosen PROVE chosen[k].id \in IdsOf(ledger)
        BY DEF IdsOf
      <4>1. chosen[k] \in ToSet(ledger)
        BY <2>2
      <4>2. PICK j \in 1 .. Len(ledger) : chosen[k] = ledger[j]
        BY <1>2, <4>1, OwnMembers
      <4>3. j \in DOMAIN ledger
        BY <1>2
      <4> QED BY <4>2, <4>3 DEF IdsOf
    <3>4. CASE desk.local
      <4>1. Trimmed \/ desk.offered = chosen
        BY <2>1, <2>2, <3>4, WithinBound DEF Trimmed
      <4>2. /\ desk.reply.fallback = TRUE /\ desk.reply.errors # {}
            /\ desk.reply.ids = IdsOf(desk.offered)
        BY <2>3, <3>4 DEF FromEvidence
      <4> QED BY <2>2, <3>1, <3>2, <3>3, <3>4, <4>1, <4>2
    <3>5. CASE ~desk.local
      <4>1. /\ desk.reply.fallback = TRUE /\ desk.reply.errors = {}
            /\ desk.reply.ids = IdsOf(chosen)
        BY <2>3, <3>5 DEF FromEvidence
      <4> QED BY <2>2, <3>1, <3>2, <3>3, <3>5, <4>1
    <3> QED BY <3>4, <3>5
  <2>4. CASE FromModel
    <3>1. /\ desk.reply.fallback = FALSE /\ desk.reply.errors = {} /\ answer \in ModelTexts
          /\ Valid(answer, ledger) /\ desk.reply.ids = CitedIn(answer)
      BY <2>4 DEF FromModel, ledger
    <3>2. answer \in Seq(AnswerLine) /\ answer # <<>>
      BY <3>1, AssistantAssumption
    <3>3. CitedIn(answer) \subseteq IdsOf(ledger)
      BY <3>1 DEF Valid, Invalid
    <3>4. ASSUME NEW line \in ToSet(answer), line.says = "fact"
          PROVE  line.cites # {}
      <4>1. PICK k \in 1 .. Len(answer) : line = answer[k]
        BY <3>2, OwnMembers
      <4>2. k \in DOMAIN answer /\ k \notin Uncited(answer)
        BY <3>1, <3>2 DEF Valid
      <4> QED BY <3>4, <4>1, <4>2 DEF Uncited
    <3> QED BY <2>2, <3>1, <3>2, <3>3, <3>4
  <2> QED BY <1>0, <1>6, <2>3, <2>4
<1> QED BY <1>4, <1>5, <1>6 DEF AnswersGrounded, ledger

\* What AnswersGrounded says of an answer holds for any reports, any
\* questions in any order, whatever a local model says, and any bounds.
THEOREM AnswersAreGrounded == AssistantSpec => []AnswersGrounded
<1>1. AssistantSpec => []DeskInv
  BY InitDesk, NextDesk, PTL DEF AssistantSpec
<1> QED BY <1>1, DeskIsGrounded, PTL
=============================================================================
