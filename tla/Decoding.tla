------------------------------ MODULE Decoding ------------------------------
(***************************************************************************)
(* What the decoders give back (decoders/base.py, advanced.py, pdf.py,     *)
(* cfb.py, core/emulation.py, core/smart_detection.py).  An input is the   *)
(* sequence of the parts its decoder meets: streams, blocks, lines or      *)
(* objects; each is "good", "cut" (it ends too early), "bad" or "deep"     *)
(* (nested too far).  Each decoder is one rule:                            *)
(*   bad, cut  what a part in that state does, when it is the first and    *)
(*             when it is a later one: "fail" the decode, "stop" with what *)
(*             there is, "skip" it, or "keep" it                           *)
(*   more      a second part is "read", "ignored" or makes it "fail"       *)
(*   over      output past MaxOutput: "fail", "room" (cut to the room      *)
(*             left), or "none" (no limit)                                 *)
(*   joint     bytes between two parts, and whether they count             *)
(*   needs     success asks for "some" output, "changed" or "text"         *)
(***************************************************************************)
EXTENDS Naturals, Sequences, FiniteSets, SequencesExt

CONSTANTS
    Encoded,            \* [decoders -> what they may be given]
    MaxOutput,          \* limit of the configuration
    MaxNumber           \* object numbers of a PDF

VARIABLE decode         \* the running call of a decoder

Codec(bad, cut, more, over, joint, needs) ==
    [bad |-> bad, cut |-> cut, more |-> more, over |-> over, joint |-> joint, needs |-> needs]

Fails == <<"fail", "fail">>
Skips == <<"skip", "skip">>
Keeps == <<"keep", "keep">>
Stops == <<"stop", "stop">>
FirstCounts == <<"fail", "stop">>

Single(needs) == Codec(Fails, Fails, "read", "none", "none", needs)
Rewriting(needs) == Codec(Keeps, Keeps, "read", "none", "none", needs)
\* Variant: what a stream that is cut off gave is kept.
StreamRuleKeepsCut == Codec(FirstCounts, <<"fail", "keep">>, "read", "fail", "none", {})

StreamRule == Codec(FirstCounts, FirstCounts, "read", "fail", "none", {})
Base64Rule == Single({})
RecursiveRule == Codec(FirstCounts, FirstCounts, "read", "none", "none", {})
Base64UrlRule == Single({"some", "changed"})
PemRule == Codec(Skips, Skips, "read", "none", "none", {"some"})
HexRule == Single({})
Rot13Rule == Single({"text"})
XorRule == Single({"text"})
PdfRule == Codec(Keeps, Keeps, "read", "room", "counted", {"some"})
OleRule == Codec(Skips, Keeps, "read", "room", "free", {"some"})
UuRule == Codec(Skips, Keeps, "read", "none", "none", {"some"})
Asn1Rule == Codec(Stops, Stops, "read", "none", "free", {"some"})
QuotedRule == Rewriting({"changed"})
Base32Rule == Single({})
UrlRule == Rewriting({"some", "changed"})
HtmlRule == Rewriting({"changed"})
UnicodeRule == Rewriting({"changed"})
Utf16Rule == Codec(Skips, Skips, "read", "none", "none", {"some", "changed"})
Ascii85Rule == Single({"some", "changed"})
DeflateRule == Codec(Fails, Fails, "fail", "fail", "none", {"some", "changed"})
PowerShellRule == Codec(Fails, Fails, "ignored", "none", "none", {"changed", "text"})
JsEscapeRule == Rewriting({"changed"})
JsEvalRule == Codec(Fails, Fails, "read", "none", "none", {"some", "changed"})
Base58Rule == Single({"some", "changed", "text"})
Base91Rule == Single({"some", "changed", "text"})
BrotliRule == Codec(Fails, Fails, "fail", "fail", "none", {"some", "changed"})
ZstdRule == Codec(Fails, Keeps, "ignored", "fail", "none", {"some"})

Codecs ==
    [gzip |-> StreamRule, bz2 |-> StreamRule, lzma |-> StreamRule, zlib |-> StreamRule,
     base64 |-> Base64Rule, recursive |-> RecursiveRule, base64url |-> Base64UrlRule,
     pem |-> PemRule, hex |-> HexRule, rot13 |-> Rot13Rule, xor |-> XorRule,
     pdf |-> PdfRule, ole |-> OleRule, uu |-> UuRule, asn1 |-> Asn1Rule,
     quoted |-> QuotedRule, base32 |-> Base32Rule, url |-> UrlRule, html |-> HtmlRule,
     unicode |-> UnicodeRule, utf16 |-> Utf16Rule, ascii85 |-> Ascii85Rule,
     deflate |-> DeflateRule, powershell |-> PowerShellRule, jsescape |-> JsEscapeRule,
     jseval |-> JsEvalRule, base58 |-> Base58Rule, base91 |-> Base91Rule,
     brotli |-> BrotliRule, zstd |-> ZstdRule]

-----------------------------------------------------------------------------
(* What the decoders are given *)

\* A part and the size of what it gives, 0 for one that gives nothing.
Piece == [state : {"good", "cut", "bad"}, size : Nat]
Nested == [state : {"good", "cut", "bad", "deep"}, size : Nat]

\* An object of a PDF; one that is packed in a stream packs none itself.  A
\* "long" one has a number of more digits than int() takes.  A stream has raw
\* bytes and gives size bytes, of which its filter finds the state.
Numbered(holding) ==
    [num : 1 .. MaxNumber, kind : {"stream", "packed", "dict", "null", "ref", "long"},
     filter : {"flate", "hex", "lzw"}, state : {"good", "cut", "bad"}, size : Nat, raw : Nat,
     js : Nat, to : Nat, holds : holding]
PdfObject == Numbered(Seq(Numbered({<<>>})))

Chunk == [kind : {"raw", "packed", "unsigned"}, size : Nat]
Statement == [kind : {"let", "eval", "other"}, steps : Nat, size : Nat]

ASSUME DecodingAssumption ==
    /\ MaxOutput \in Nat \ {0} /\ MaxNumber \in Nat
    /\ DOMAIN Encoded \subseteq DOMAIN Codecs
    /\ \A codec \in DOMAIN Encoded : \A input \in Encoded[codec] :
          CASE codec = "xor" -> input.file.size \in Nat
            [] codec = "pdf" -> input.file \in Seq(PdfObject)
            [] codec = "ole" ->
                 /\ input.file.fat \in Seq(Nat) /\ Len(input.file.entries) \in Nat
                 /\ \A n \in DOMAIN input.file.entries :
                       /\ input.file.entries[n].size \in Nat
                       /\ input.file.entries[n].chunks \in Seq(Chunk)
            [] codec = "jseval" -> input.file \in Seq(Statement)
            [] codec = "asn1" -> input.file \in Seq(Nested)
            [] OTHER -> input.file \in Seq(Piece)

-----------------------------------------------------------------------------
(* How the parts of a structured input are found *)

Part(state, size) == [state |-> state, size |-> size]
Lesser(a, b) == IF a < b THEN a ELSE b
UpTo_(n) == [i \in 1 .. n |-> i]

\* RecursiveBase64: up to three layers are peeled and the innermost is given.
Peel(acc, layer) ==
    IF acc.ends \/ layer.state # "good" THEN [ends |-> TRUE, last |-> acc.last]
    ELSE [ends |-> FALSE, last |-> <<layer>>]
Peeled(layers) ==
    FoldLeft(LAMBDA acc, layer : Peel(acc, layer), [ends |-> FALSE, last |-> <<>>], layers).last
Layers(file) ==
    IF file = <<>> THEN <<>>
    ELSE LET last == Peeled(SubSeq(file, 1, Lesser(3, Len(file)))) IN
         IF last = <<>> THEN <<Part("bad", 0)>> ELSE last

\* XOR: the key that reads best once longer keys are charged 3 points a byte,
\* taken only if it reads well and 20 points better than the data as it is.
TryKey(file, best, len) ==
    LET score == file.keys[len]
        charged == IF score > 3 * (len - 1) THEN score - 3 * (len - 1) ELSE 0 IN
    IF charged > best.charged THEN [charged |-> charged, score |-> score] ELSE best
XorKeys(file) ==
    LET best == FoldLeft(LAMBDA best, len : TryKey(file, best, len),
                         [charged |-> file.raw, score |-> 0], UpTo_(Len(file.keys)))
    IN IF best.score >= 70 /\ best.score >= file.raw + 20
       THEN <<Part("good", file.size)>> ELSE <<Part("bad", 0)>>

\* The object table of a PDF: the last definition of a number that is not
\* null stands, and an object packed in a stream never replaces one.
Define(table, object) ==
    IF object.kind = "null" /\ object.num \in DOMAIN table THEN table
    ELSE [n \in DOMAIN table \cup {object.num} |-> IF n = object.num THEN object ELSE table[n]]
Add(table, object) == IF object.num \in DOMAIN table THEN table ELSE Define(table, object)
Scanned(file) == FoldLeft(LAMBDA table, object : Define(table, object), <<>>, file)
Added(table, objects) == FoldLeft(LAMBDA t, object : Add(t, object), table, objects)

\* decode_stream: a Flate stream that is corrupt or gives too much leaves the
\* raw bytes, and one that is cut off gives what it has; LZW and ASCII85 give
\* what they have of any; hexadecimal that is corrupt gives nothing.
PdfBody(object) ==
    CASE object.kind \notin {"stream", "packed"} -> Part("good", 0)
      [] object.filter = "flate" /\ (object.state = "bad" \/ object.size > MaxOutput) ->
           Part("bad", object.raw)
      [] object.filter = "hex" /\ object.state = "bad" -> Part("good", 0)
      [] object.filter = "lzw" /\ (object.state = "bad" \/ object.size > MaxOutput) ->
           Part("cut", Lesser(object.size, MaxOutput))
      [] OTHER -> Part(object.state, object.size)

\* _expand_object_streams: in the order in which the numbers first appear; a
\* stream that is cut off is searched for what it has.
Opens(stream) ==
    stream.kind = "packed" /\ PdfBody(stream).state # "bad" /\ PdfBody(stream).size > 0
Unpack(top, table, object) ==
    LET stream == top[object.num] IN
    IF Opens(stream) THEN Added(table, stream.holds) ELSE table
PdfTable(file) ==
    FoldLeft(LAMBDA table, object : Unpack(Scanned(file), table, object), Scanned(file), file)

\* PDFDocument: int() raises for a number too long, in the file or in a stream
\* that is expanded, and nothing is decoded.
Parsable(codec, file) ==
    codec = "pdf" =>
        \A i \in DOMAIN file :
            LET stream == Scanned(file)[file[i].num] IN
            /\ file[i].kind # "long"
            /\ Opens(stream) => \A j \in DOMAIN stream.holds : stream.holds[j].kind # "long"

\* resolve: a reference is followed MaxFollow times; a cycle leads nowhere.
MaxFollow == 3
Follow(table, n) == IF n \in DOMAIN table /\ table[n].kind = "ref" THEN table[n].to ELSE n
Resolved(table, ref) ==
    LET end == FoldLeft(LAMBDA n, step : Follow(table, n), ref, UpTo_(MaxFollow))
    IN IF end \in DOMAIN table /\ table[end].kind # "ref" THEN end ELSE 0

\* What an object gives: its own stream, and in a second pass its script.
Script(table, n) ==
    LET target == Resolved(table, table[n].js) IN
    IF table[n].kind = "null" \/ table[n].js = 0 \/ target = 0 THEN Part("good", 0)
    ELSE PdfBody(table[target])
Labelled(part) == IF part.size = 0 THEN <<>> ELSE <<Part("good", 1), part>>
Gives(table, scripts, n) ==
    IF n \notin DOMAIN table THEN <<>>
    ELSE Labelled(IF scripts THEN Script(table, n) ELSE PdfBody(table[n]))
Pass(table, scripts) ==
    FoldLeft(LAMBDA parts, n : parts \o Gives(table, scripts, n), <<>>, UpTo_(MaxNumber))
PdfParts(file) == Pass(PdfTable(file), FALSE) \o Pass(PdfTable(file), TRUE)

\* CFBReader._chain: it ends at a sector that is out of range or was met.
Walk(fat, start, chain) ==
    LET next == IF chain = <<>> THEN start ELSE fat[chain[Len(chain)]] IN
    IF next \in 1 .. Len(fat) /\ \A i \in DOMAIN chain : chain[i] # next
    THEN Append(chain, next) ELSE chain
Chain(fat, start) ==
    FoldLeft(LAMBDA chain, k : Walk(fat, start, chain), <<>>, UpTo_(Len(fat)))

\* streams: every directory entry reached from the root, once.
Directory(file) ==
    LET Reach(seen, k) == seen \cup UNION {file.entries[n].links : n \in seen}
        reached == FoldLeft(Reach, file.root, UpTo_(Len(file.entries)))
    IN {n \in reached : n \in DOMAIN file.entries /\ file.entries[n].kind # "storage"}

\* decompress_ovba: stops at a chunk without signature; a raw chunk is taken
\* whole, even past the limit.
AddChunk(acc, chunk) ==
    IF acc.ends \/ acc.size >= MaxOutput \/ chunk.kind = "unsigned"
    THEN [ends |-> TRUE, size |-> acc.size]
    ELSE [ends |-> FALSE, size |-> IF chunk.kind = "raw" THEN acc.size + chunk.size
                                   ELSE Lesser(acc.size + chunk.size, MaxOutput)]
Macro(chunks) ==
    FoldLeft(LAMBDA acc, chunk : AddChunk(acc, chunk), [ends |-> FALSE, size |-> 0], chunks).size

OleStream(file, n) ==
    LET entry == file.entries[n]
        held == Lesser(entry.size, Len(Chain(file.fat, entry.start)))
        source == IF entry.kind = "module" THEN Macro(entry.chunks) ELSE 0
    IN IF n \notin Directory(file) \/ held = 0 THEN <<>>
       ELSE <<Part(IF held < entry.size THEN "cut" ELSE "good",
                   1 + (IF source > 0 THEN source ELSE held))>>
OleParts(file) ==
    FoldLeft(LAMBDA parts, n : parts \o OleStream(file, n), <<>>, UpTo_(Len(file.entries)))

\* The first eval of a text that is not empty; an expression out of steps or
\* not understood before it fails everything.
MaxSteps == 2
Run(acc, statement) ==
    IF acc # <<>> \/ statement.kind = "other" THEN acc
    ELSE IF statement.steps > MaxSteps \/ statement.size > MaxOutput THEN <<Part("bad", 0)>>
    ELSE IF statement.kind = "eval" /\ statement.size > 0 THEN <<Part("good", statement.size)>>
    ELSE acc
Emulated(file) == FoldLeft(LAMBDA acc, statement : Run(acc, statement), <<>>, file)

\* The parts of a sequence that are in one of the given states.
InState(parts, states) ==
    FoldLeft(LAMBDA kept, part : IF part.state \in states THEN Append(kept, part) ELSE kept,
             <<>>, parts)

\* A constituted value deeper than ten levels is dropped, the rest is kept.
Shallow(file) == InState(file, {"good", "cut", "bad"})

PartsOf(codec, file) ==
    CASE codec = "recursive" -> Layers(file)
      [] codec = "xor" -> XorKeys(file)
      [] codec = "pdf" -> PdfParts(file)
      [] codec = "ole" -> OleParts(file)
      [] codec = "jseval" -> IF Emulated(file) = <<>> THEN <<Part("bad", 0)>> ELSE Emulated(file)
      [] codec = "asn1" -> Shallow(file)
      [] OTHER -> file

\* SmartDetectionEngine: what makes an optional decoder be tried.
Detected(codec, signs) ==
    CASE codec = "uu" -> signs.header /\ signs.count >= 2
      [] codec = "asn1" -> signs.header /\ signs.count >= 1
      [] codec = "quoted" -> signs.count >= 3 /\ signs.share >= 70
      [] codec = "base32" -> signs.header /\ signs.count >= 20 /\ signs.share >= 95
      [] OTHER -> signs.header

-----------------------------------------------------------------------------
Resting == [pc |-> "idle", codec |-> "gzip", file |-> <<>>, todo |-> <<>>, kept |-> <<>>,
            size |-> 0, read |-> 0, changed |-> FALSE, text |-> FALSE]

DecodingInit == decode = Resting

OpenEncoded ==
    /\ decode.pc = "idle"
    /\ \E codec \in DOMAIN Encoded : \E input \in Encoded[codec] :
          decode' = [Resting EXCEPT
              !.pc = IF Detected(codec, input.signs) /\ Parsable(codec, input.file)
                     THEN "decoding" ELSE "failed",
              !.codec = codec, !.file = input.file, !.todo = PartsOf(codec, input.file),
              !.changed = input.changed, !.text = input.text]

\* What reading the next part does: take it, skip it, stop, or fail.
Effect(part) ==
    LET rule == Codecs[decode.codec]
        which == IF decode.read = 0 THEN 1 ELSE 2
        joint == IF rule.joint = "counted" /\ decode.kept # <<>> THEN 1 ELSE 0
        over == part.state # "bad" /\ decode.size + joint + part.size > MaxOutput
    IN IF rule.more = "fail" /\ decode.read > 0 THEN "fail"
       ELSE IF rule.more = "ignored" /\ decode.read > 0 THEN "stop"
       ELSE IF over /\ rule.over = "fail" THEN "fail"
       ELSE IF rule.over = "room" /\ decode.size + joint >= MaxOutput THEN "stop"
       ELSE CASE part.state = "bad" -> rule.bad[which]
              [] part.state = "cut" -> rule.cut[which]
              [] OTHER -> "keep"

DecodePart ==
    /\ decode.pc = "decoding" /\ decode.todo # <<>>
    /\ LET part == Head(decode.todo)
           rule == Codecs[decode.codec]
           effect == Effect(part)
           joint == IF rule.joint = "counted" /\ decode.kept # <<>> THEN 1 ELSE 0
           size == IF rule.over = "room"
                   THEN Lesser(part.size, MaxOutput - decode.size - joint) ELSE part.size IN
       decode' = [decode EXCEPT
           !.pc = IF effect = "fail" THEN "failed" ELSE @,
           !.todo = IF effect \in {"fail", "stop"} THEN <<>> ELSE Tail(@),
           !.kept = IF effect = "keep" THEN Append(@, Part(part.state, size)) ELSE @,
           !.size = IF effect = "keep" THEN @ + joint + size ELSE @,
           !.read = @ + 1]

\* The output is given back, or the input with FALSE.
DecodeEnds ==
    /\ decode.pc = "decoding" /\ decode.todo = <<>>
    /\ LET needs == Codecs[decode.codec].needs IN
       decode' = [decode EXCEPT !.pc =
           IF /\ "some" \in needs => decode.size > 0
              /\ "changed" \in needs => decode.changed
              /\ "text" \in needs => decode.text
              /\ decode.codec = "recursive" => decode.kept # <<>>
           THEN "decoded" ELSE "failed"]

NextDecoder == decode.pc \in {"decoded", "failed"} /\ decode' = Resting

DecodingNext == OpenEncoded \/ DecodePart \/ DecodeEnds \/ NextDecoder

-----------------------------------------------------------------------------
(* Properties *)

Good(parts) == InState(parts, {"good"})
Usable(rule, parts) == InState(parts, IF rule.cut = Keeps THEN {"good", "cut"} ELSE {"good"})
Total(parts) == FoldLeft(LAMBDA total, item : total + item.size, 0, parts)
Whole(parts, n) == \A i \in 1 .. n : parts[i].state = "good"

\* What is given back of the parts.
GivenHonestly(codec, parts, kept) ==
    LET rule == Codecs[codec] IN
    /\ rule.over # "none" => Total(kept) <= MaxOutput
    /\ rule.bad # Keeps =>
          /\ \A i \in DOMAIN kept : kept[i].state # "bad"
          /\ rule.cut # Keeps => \A i \in DOMAIN kept : kept[i].state = "good"
    /\ rule.bad = FirstCounts /\ rule.over = "fail" =>
          /\ kept = SubSeq(parts, 1, Len(kept))
          /\ Len(kept) < Len(parts) => parts[Len(kept) + 1].state # "good"
    /\ rule.bad = Skips /\ rule.over = "none" => kept = Usable(rule, parts)

\* Why reading the parts may fail.
FailsForReason(rule, parts) ==
    \/ parts[1].state # "good" /\ rule.bad # Skips
    \/ Total(Good(parts)) = 0
    \/ rule.over = "fail" /\ Total(parts) > MaxOutput
    \/ rule.more = "fail" /\ Len(parts) > 1
    \/ rule.more = "ignored" /\ parts[1].size = 0
    \/ rule.bad = Fails /\ ~Whole(parts, Len(parts))
    \/ rule.bad = Stops /\ \E n \in DOMAIN parts :
          parts[n].state # "good" /\ Whole(parts, n - 1) /\ Total(SubSeq(parts, 1, n - 1)) = 0

\* A decoder that succeeds gives back no more than the limit, joints apart; no
\* part it could not read, except the text rewriters and PDF, which give such a
\* part as it is; no part that ends too early, except those, OLE, Zstandard and
\* uuencoding, which fills a short line up with zeros; and, of a sequence of
\* streams, the whole ones up to the first that is not.  Once it reads the parts
\* (a PDF must have been parsed: one number too long and nothing is decoded), a
\* decoder fails only for a reason of the first part, of the limit or of what
\* success needs: what comes after a part that gave something never takes it
\* away, and a block or line that is corrupt takes away no other.  A walk
\* through the sectors of a compound file meets none of them twice, whatever
\* the allocation table says.
DecodesHonestly ==
    LET rule == Codecs[decode.codec]
        parts == PartsOf(decode.codec, decode.file)
        met == /\ "changed" \in rule.needs => decode.changed
               /\ "text" \in rule.needs => decode.text IN
    /\ decode.pc = "decoded" => GivenHonestly(decode.codec, parts, decode.kept)
    /\ decode.pc = "failed" /\ met /\ decode.read > 0 => FailsForReason(rule, parts)
    /\ decode.codec = "ole" /\ decode.pc = "decoding" =>
          \A n \in DOMAIN decode.file.entries :
              IsInjective(Chain(decode.file.fat, decode.file.entries[n].start))

DecodingSpec == DecodingInit /\ [][DecodingNext]_decode
=============================================================================
