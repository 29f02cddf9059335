----------------------------- MODULE Containers -----------------------------
(***************************************************************************)
(* How the analyzers take artifacts out of a container or a document       *)
(* (core/analyzers/base.py, structured.py, steganography.py,               *)
(* executable_formats.py): what is refused before it is read, what a read  *)
(* that fails costs, and which limits skip an artifact or end the loop.    *)
(* Each format is one rule; the loop is common to all.                     *)
(*   refuses   what is not chosen to be read                               *)
(*   passes    what is chosen, and counted, and passed over unread then    *)
(*   presum    a first pass over the declared sizes ends ("stop") or goes  *)
(*             on ("skip") past the total, or there is none ("no")         *)
(*   counted   that pass ends once MaxArtifacts are chosen                 *)
(*   named, other   a read error the analyzer names, and any other: the    *)
(*             artifact ("skip"), all of them ("lose") or the call         *)
(*             ("raise") is lost                                           *)
(*   full, over, big   what a limit on number, total or size does: "skip", *)
(*             "stop", "cut" the artifact, or "never" applied              *)
(*   dedup     content seen before is dropped: compared with all that was  *)
(*             "found", with what was "kept", or "no"                      *)
(*   collector names are made distinct by _Collector                       *)
(*   head      "summary" counts as an artifact, "metadata" does not        *)
(***************************************************************************)
EXTENDS Structures, FiniteSets

CONSTANTS
    Inputs,             \* [formats -> what a file of the format may hold]
    MaxArtifacts,       \* limits of the configuration
    MaxTotal

VARIABLE job            \* the running call of an analyzer

Rule(refuses, presum, counted, errors, limits, dedup, collector, head) ==
    [refuses |-> refuses, passes |-> {}, presum |-> presum, counted |-> counted,
     named |-> errors[1], other |-> errors[2],
     full |-> limits[1], over |-> limits[2], big |-> limits[3],
     dedup |-> dedup, collector |-> collector, head |-> head]

ZipRule == Rule({"dir", "outside", "bomb", "big"}, "skip", TRUE, <<"skip", "lose">>,
                <<"stop", "stop", "skip">>, "no", FALSE, "none")
TarRule == Rule({"dir", "link", "outside", "big"}, "skip", TRUE, <<"skip", "skip">>,
                <<"stop", "stop", "skip">>, "no", FALSE, "none")
OfficeRule == [Rule({"dir", "sealed", "bomb", "big", "empty"}, "stop", FALSE,
                    <<"skip", "raise">>, <<"skip", "skip", "cut">>, "no", TRUE, "summary")
               EXCEPT !.passes = {"dull"}]
SevenZipRule == Rule({"dir", "link", "outside", "bomb", "big", "empty"}, "skip", TRUE,
                     <<"lose", "lose">>, <<"skip", "skip", "skip">>, "no", TRUE, "none")
RarRule == Rule({"dir", "bomb", "big", "empty"}, "no", FALSE, <<"lose", "lose">>,
                <<"skip", "skip", "cut">>, "no", TRUE, "none")
CabRule == Rule({"empty"}, "no", FALSE, <<"lose", "lose">>,
                <<"skip", "skip", "skip">>, "no", TRUE, "none")
IsoRule == Rule({"big", "empty"}, "no", FALSE, <<"lose", "lose">>,
                <<"stop", "skip", "skip">>, "no", TRUE, "none")
EmailRule == Rule({"empty"}, "no", FALSE, <<"skip", "skip">>,
                  <<"skip", "skip", "cut">>, "no", TRUE, "summary")
\* A part of an RTF file is a text, the document's or the name of an object's
\* class, or an object; one byte of a text that cp1252 lacks, one surrogate or
\* one number too long raises, and so does such a number in an object.
RtfRule == Rule({"empty"}, "no", FALSE, <<"raise", "raise">>,
                <<"skip", "skip", "cut">>, "found", TRUE, "summary")
MsiRule == Rule({"empty", "dull"}, "no", FALSE, <<"skip", "raise">>,
                <<"skip", "skip", "cut">>, "found", TRUE, "summary")
OneNoteRule == Rule({"big", "empty"}, "no", TRUE, <<"skip", "skip">>,
                    <<"skip", "skip", "cut">>, "found", TRUE, "summary")
ScriptRule == Rule({"dull"}, "no", FALSE, <<"skip", "skip">>,
                   <<"never", "never", "cut">>, "no", FALSE, "metadata")
PeRule == Rule({}, "no", FALSE, <<"skip", "skip">>,
               <<"skip", "skip", "skip">>, "kept", FALSE, "metadata")
DexRule == Rule({"empty"}, "no", FALSE, <<"skip", "skip">>,
                <<"never", "never", "never">>, "no", FALSE, "metadata")
VhdRule == Rule({}, "no", FALSE, <<"skip", "skip">>,
                <<"stop", "stop", "stop">>, "no", FALSE, "metadata")
VhdxRule == Rule({}, "no", FALSE, <<"skip", "skip">>,
                 <<"skip", "skip", "skip">>, "no", FALSE, "metadata")
MediaRule == Rule({}, "no", FALSE, <<"skip", "skip">>,
                  <<"stop", "stop", "cut">>, "kept", FALSE, "none")

Rules ==
    [zip |-> ZipRule, tar |-> TarRule, office |-> OfficeRule, seven_zip |-> SevenZipRule,
     rar |-> RarRule, cab |-> CabRule, iso |-> IsoRule, email |-> EmailRule,
     rtf |-> RtfRule, msi |-> MsiRule, onenote |-> OneNoteRule, script |-> ScriptRule,
     pe |-> PeRule, elf |-> PeRule, macho |-> PeRule, dex |-> DexRule,
     vhd |-> VhdRule, vhdx |-> VhdxRule,
     png |-> MediaRule, bmp |-> MediaRule, riff |-> MediaRule, jpeg |-> MediaRule,
     gif |-> MediaRule, tiff |-> MediaRule, mp3 |-> MediaRule, mp4 |-> MediaRule]

MediaFormats == {"png", "bmp", "riff", "jpeg", "gif", "tiff", "mp3", "mp4"}
DiskFormats == {"vhd", "vhdx"}
ExecutableFormats == {"pe", "elf", "macho", "dex"}

ASSUME ContainersAssumption ==
    /\ {MaxArtifacts, MaxTotal} \subseteq Nat \ {0}
    /\ DOMAIN Inputs \subseteq DOMAIN Rules
    /\ \A format \in DOMAIN Inputs : \A file \in Inputs[format] :
         /\ format \in MediaFormats => {file.parts, file.tail, file.streams} \subseteq Seq(FilePart)
         /\ format \in DiskFormats => file.parts \in Seq(FilePart) /\ file.disk \in FilePart
         /\ format \in ExecutableFormats => file.parts \in Seq(FilePart)
         /\ format \notin MediaFormats \cup DiskFormats \cup ExecutableFormats =>
              file \in Seq(FilePart)

-----------------------------------------------------------------------------
\* An executable that cannot be parsed gives not even metadata.
Readable(format, file) ==
    /\ format = "pe" => "header" \notin file.faults
    /\ format = "elf" => ElfParsed(file)
    /\ format = "macho" => MachOParsed(file)
    /\ format = "dex" => DexParsed(file)

\* sorted: by name, entries of one name in the order of the file.
Place(sorted, part) == 1 + Cardinality({i \in DOMAIN sorted : sorted[i].name <= part.name})
ByName(file) ==
    FoldLeft(LAMBDA sorted, part : InsertAt(sorted, Place(sorted, part), part), <<>>, file)

Found(format, file) ==
    CASE format \in {"cab", "seven_zip"} -> ByName(file)
      [] format = "pe" -> PeFinds(file)
      [] format \in {"elf", "macho"} -> <<>>
      [] format = "dex" -> SubSeq(DexStrings(file), 1, IF DexStrings(file) = <<>> THEN 0 ELSE 1)
      [] format = "vhd" -> VhdFinds(file)
      [] format = "vhdx" -> VhdxFinds(file)
      [] format = "png" -> PngFinds(file)
      [] format = "bmp" -> BmpFinds(file)
      [] format = "riff" -> RiffFinds(file)
      [] format = "jpeg" -> JpegFinds(file)
      [] format = "gif" -> GifFinds(file)
      [] format = "tiff" -> TiffFinds(file)
      [] format = "mp3" -> Mp3Finds(file)
      [] format = "mp4" -> Mp4Finds(file)
      [] OTHER -> file

Refused(part, rule) ==
    \/ part.kind \in rule.refuses
    \/ ~part.inside /\ "outside" \in rule.refuses
    \/ part.size > MaxItem /\ "big" \in rule.refuses
    \/ part.size = 0 /\ "empty" \in rule.refuses

\* What can be had of the parts chosen.
Obtained(part, rule) == part.kind \notin rule.passes /\ part.reads = "ok"

\* _pre_scan_zip, _pre_scan_tar, _safe_infos: by what the headers declare.
Choose(rule, acc, part) ==
    IF acc.over \/ Refused(part, rule) THEN acc
    ELSE IF rule.presum # "no" /\ acc.total + part.size > MaxTotal
         THEN [acc EXCEPT !.over = rule.presum = "stop"]
    ELSE [parts |-> Append(acc.parts, part), total |-> acc.total + part.size,
          over |-> rule.counted /\ Len(acc.parts) + 1 >= MaxArtifacts]
Chosen(rule, parts) ==
    FoldLeft(LAMBDA acc, part : Choose(rule, acc, part),
             [parts |-> <<>>, total |-> 0, over |-> FALSE], parts).parts

-----------------------------------------------------------------------------
Idle == [pc |-> "idle", format |-> "zip", file |-> <<>>, todo |-> <<>>, items |-> <<>>,
         names |-> {}, total |-> 0, seen |-> {}, stored |-> {}]

ContainersInit == job = Idle

OpenContainer ==
    /\ job.pc = "idle"
    /\ \E format \in DOMAIN Inputs : \E file \in Inputs[format] :
          job' = [Idle EXCEPT
              !.pc = IF Readable(format, file) THEN "reading" ELSE "done",
              !.format = format, !.file = file,
              !.todo = Chosen(Rules[format], Found(format, file)),
              !.names = IF Rules[format].head = "summary" THEN {<<0, 1>>} ELSE {}]
\* Variant: a second name, and no third.
FreshNameOnce(name, names) == <<name, IF <<name, 1>> \in names THEN 2 ELSE 1>>

\* _Collector.add: name, name_2, name_3, ... until one is new.
FreshName(name, names) ==
    <<name, CHOOSE n \in 1 .. Cardinality(names) + 1 :
                /\ <<name, n>> \notin names
                /\ \A k \in 1 .. n - 1 : <<name, k>> \in names>>

\* An artifact is kept, skipped or cut, or it ends the loop.
Take(part) ==
    LET rule == Rules[job.format]
        size == IF rule.big = "cut" /\ part.real > MaxItem THEN MaxItem ELSE part.real
        full == rule.full # "never" /\ Len(job.items) >= MaxArtifacts
        over == rule.over # "never" /\ job.total + size > MaxTotal
        large == rule.big \in {"skip", "stop"} /\ size > MaxItem
        known == rule.dedup # "no" /\ part.body \in job.seen
        kept == ~full /\ ~over /\ ~large /\ ~known
        stops == \/ full /\ rule.full = "stop"
                 \/ over /\ rule.over = "stop"
                 \/ large /\ rule.big = "stop"
        name == IF rule.collector THEN FreshName(part.name, job.names) ELSE <<part.name, 1>>
    IN job' = [job EXCEPT
           !.todo = IF stops THEN <<>> ELSE Tail(@),
           !.items = IF kept THEN Append(@, [name |-> name, size |-> size, body |-> part.body])
                     ELSE @,
           !.names = IF kept THEN @ \cup {name} ELSE @,
           !.total = IF kept THEN @ + size ELSE @,
           !.seen = IF kept \/ rule.dedup = "found" THEN @ \cup {part.body} ELSE @,
           !.stored = IF kept THEN @ \cup {part.body} ELSE @]

ReadPart ==
    /\ job.pc = "reading" /\ job.todo # <<>>
    /\ LET part == Head(job.todo)
           rule == Rules[job.format]
           effect == CASE part.kind \in rule.passes -> "skip"
                       [] part.reads = "named" -> rule.named
                       [] part.reads = "other" -> rule.other
                       [] OTHER -> "none" IN
       \/ effect = "none" /\ Take(part)
       \/ effect = "skip" /\ job' = [job EXCEPT !.todo = Tail(@)]
       \/ effect \in {"lose", "raise"}
          /\ job' = [job EXCEPT !.pc = "lost", !.todo = <<>>, !.items = <<>>]

Head_ == [name |-> <<0, 1>>, size |-> 0, body |-> 0]

\* The summary is put in front and what is then one too many is dropped.
Headed(head, items) ==
    LET all == <<Head_>> \o items IN
    CASE head = "none" -> items
      [] head = "metadata" -> all
      [] OTHER -> SubSeq(all, 1, IF Len(all) > MaxArtifacts THEN MaxArtifacts ELSE Len(all))

FinishContainer ==
    /\ job.pc = "reading" /\ job.todo = <<>>
    /\ job' = [job EXCEPT !.pc = "done", !.items = Headed(Rules[job.format].head, @)]

\* The engine takes the artifacts and calls the next analyzer.
NextAnalyzer ==
    /\ job.pc \in {"done", "lost"} /\ job' = Idle

ContainersNext == OpenContainer \/ ReadPart \/ FinishContainer \/ NextAnalyzer

-----------------------------------------------------------------------------
(* Properties *)

\* What the call gives back, the summary or metadata at the head of it aside.
Artifacts(head, items) == SubSeq(items, IF head = "none" THEN 1 ELSE 2, Len(items))
Sizes(items) == FoldLeft(LAMBDA total, item : total + item.size, 0, items)
RealSizes(parts) == FoldLeft(LAMBDA total, part : total + part.real, 0, parts)

\* What is wanted of a container: its parts that the rule admits and that can
\* be read.
Wanted(rule, parts) ==
    {part \in ToSet(parts) : /\ Obtained(part, rule) /\ ~Refused(part, rule)
                             /\ part.real \in 1 .. MaxItem}

\* Whatever the container declares, what comes out of it stays within the
\* limits, in number, in size and in total; a name is given once and never
\* the one of the summary; nothing refused comes out.  A container that is
\* within all limits by itself loses no readable part, in no order of entries
\* and whatever lies between them, unless reading one failed in a way that
\* ends the call.  An artifact recorded as stored is there, except the one
\* that the summary pushes out of a full list.
NothingLostWithinLimits ==
    job.pc = "done" =>
        LET rule == Rules[job.format]
            found == Found(job.format, job.file)
            limited == rule.full # "never"
            artifacts == Artifacts(rule.head, job.items)
            bodies == {artifacts[i].body : i \in DOMAIN artifacts} IN
        /\ limited => Len(artifacts) <= MaxArtifacts /\ Sizes(artifacts) <= MaxTotal
        /\ \A i \in DOMAIN artifacts : rule.big # "never" => artifacts[i].size <= MaxItem
        /\ rule.collector => IsInjective([i \in DOMAIN job.items |-> job.items[i].name])
        /\ \A i \in DOMAIN artifacts : \E j \in DOMAIN found :
              /\ found[j].body = artifacts[i].body
              /\ ~Refused(found[j], rule) /\ Obtained(found[j], rule)
        /\ Cardinality(job.stored \ bodies) <= (IF rule.head = "summary" THEN 1 ELSE 0)
        /\ /\ Len(found) < MaxArtifacts /\ Readable(job.format, job.file)
           /\ Sizes(found) <= MaxTotal /\ RealSizes(found) <= MaxTotal
           => {part.body : part \in Wanted(rule, found)} \subseteq bodies

ContainersSpec == ContainersInit /\ [][ContainersNext]_job
=============================================================================
