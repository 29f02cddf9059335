----------------------------- MODULE Structures -----------------------------
(***************************************************************************)
(* What the parsers of media carriers, disk images and executables find in *)
(* a file, in the order they find it and before any limit on artifacts     *)
(* (core/analyzers/steganography.py, executable_formats.py, base.py).      *)
(* Offsets, fields and checksums are reduced to the outcome of the check   *)
(* that the code makes with them: a part fits the file or does not, and    *)
(* "faults" names the checks that fail.                                    *)
(***************************************************************************)
EXTENDS Naturals, Sequences, SequencesExt

CONSTANTS
    MaxItem,            \* largest artifact an analyzer stores
    MaxBlocks           \* blocks of a virtual disk that are put together (128)

ASSUME StructuresAssumption == {MaxItem, MaxBlocks} \subseteq Nat \ {0}

\* What the walk over a file meets: an entry, a chunk, a partition, a resource.
FilePart ==
    [name : Nat, kind : STRING, inside : BOOLEAN, size : Nat, real : Nat,
     reads : {"ok", "named", "other"}, body : Nat \ {0}, fits : BOOLEAN, suspicious : BOOLEAN]

\* The parts of s that are among those in meant.
Only(s, meant) ==
    FoldLeft(LAMBDA found, part : IF part \in meant THEN Append(found, part) ELSE found, <<>>, s)
Fitting(s) == {part \in ToSet(s) : part.fits}
Suspicious(s) == {part \in ToSet(s) : part.suspicious}

\* The parts of s before the first that does not fit the file.
Walked(s) ==
    LET cut == SelectInSeq(s, LAMBDA part : ~part.fits) IN
    IF cut = 0 THEN s ELSE SubSeq(s, 1, cut - 1)
CutShort(s) == Walked(s) # s

-----------------------------------------------------------------------------
(* Media carriers [parts, ended, tail, plain, streams]: chunks, frames or   *)
(* atoms; whether an end marker is there; what follows it (at most one      *)
(* part); an uncompressed carrier within its cap; what the two bit orders   *)
(* of its lowest bits hold ("noise" is a part of size 0).                   *)

\* _is_suspicious
Hidden(parts) == Only(parts, Suspicious(parts))

\* _recover_lsb_payload: the first bit order with framed or known content.
Recovered(streams) ==
    LET found == Only(streams, {part \in ToSet(streams) : part.real > 0}) IN
    SubSeq(found, 1, IF found = <<>> THEN 0 ELSE 1)
PngLsb(c) == IF c.plain THEN Recovered(c.streams) ELSE <<>>

\* One chunk that does not fit discards what the chunks before it hid.
PngFinds(c) ==
    IF CutShort(c.parts) THEN <<>>
    ELSE Hidden(c.parts) \o (IF c.ended THEN c.tail ELSE <<>>) \o PngLsb(c)

\* The size in the header tells where the trailer starts.
BmpFinds(c) == c.tail \o (IF c.plain THEN Recovered(c.streams) ELSE <<>>)
RiffFinds(c) ==
    c.tail \o Hidden(Walked(c.parts)) \o (IF c.plain THEN Recovered(c.streams) ELSE <<>>)

JpegFinds(c) ==
    Hidden(Walked(c.parts)) \o (IF c.ended /\ ~CutShort(c.parts) THEN c.tail ELSE <<>>)
GifFinds(c) ==
    Hidden(Walked(c.parts)) \o (IF c.ended /\ ~CutShort(c.parts) THEN c.tail ELSE <<>>)

\* An entry out of range is passed over; no trailer is looked for.
TiffFinds(c) == Only(c.parts, Fitting(c.parts) \cap Suspicious(c.parts))
Mp3Finds(c) == Hidden(Walked(c.parts))

\* The trailer starts at the first atom that is not one.
Mp4Finds(c) ==
    Hidden(Walked(c.parts)) \o
    (IF CutShort(c.parts) THEN <<c.parts[Len(Walked(c.parts)) + 1]>> ELSE c.tail)

-----------------------------------------------------------------------------
(* Disk images [type, faults, scheme, tableFaults, parts, blocks, parent]   *)

MbrPartitions(d) == Only(d.parts, {part \in Fitting(d.parts) : part.real <= MaxItem})

\* Any fault of the header or the entry array leaves no partition.
GptPartitions(d) ==
    IF d.tableFaults # {} THEN <<>>
    ELSE Only(d.parts, {part \in Fitting(d.parts) : part.real <= MaxItem})

PartitionTable(d) ==
    CASE d.scheme = "mbr" -> MbrPartitions(d)
      [] d.scheme = "gpt" -> GptPartitions(d)
      [] OTHER -> <<>>

VhdFinds(d) == IF d.type = "fixed" /\ d.faults = {} THEN PartitionTable(d) ELSE <<>>

\* _parse_vhdx_regions of both copies: the first valid table counts.
ActiveRegions(d) == d.regions # {}
\* _parse_vhdx_metadata
MetadataValid(d) == "metadata" \in d.regions /\ "metadata" \notin d.faults

\* _parse_vhdx_bat: a block is present, zero, absent or wrong (reserved bits,
\* a reserved state, out of range, or partial without a parent).  One block
\* that is not there in full leaves the disk unread.
DiskSize(d) == FoldSeq(LAMBDA block, total : total + block.real, 0, d.blocks)
Reconstructed(d) ==
    /\ ~d.parent /\ Len(d.blocks) <= MaxBlocks /\ DiskSize(d) <= MaxItem
    /\ "bat" \notin d.faults
    /\ \A i \in DOMAIN d.blocks : d.blocks[i].state \in {"present", "zero"}

\* The disk as a part of its own, and then the partitions cut from it.
VhdxFinds(d) ==
    IF ActiveRegions(d) /\ MetadataValid(d) /\ "bat" \in d.regions /\ Reconstructed(d)
    THEN <<d.disk>> \o PartitionTable(d)
    ELSE <<>>

-----------------------------------------------------------------------------
(* Executables [faults, parts, tables, ...].  "header" is a fault that ends *)
(* the parse with nothing, the others leave an anomaly in the metadata.     *)

\* The checks of _parse_dotnet_metadata that end it at once.
DotnetStops ==
    {"clr_header_range", "metadata_root_range", "metadata_signature",
     "metadata_version_range", "stream_count", "excessive_streams",
     "stream_header", "stream_name"}

\* The first table of a kind that is unknown or larger than the stream ends
\* the layout: where the later ones start is not known.
TablesLaidOut(e) ==
    LET bad == SelectInSeq(e.tables, LAMBDA table : table.state # "fits") IN
    IF "tables_header" \in e.faults \/ "row_counts" \in e.faults THEN {}
    ELSE {e.tables[i].kind : i \in 1 .. (IF bad = 0 THEN Len(e.tables) ELSE bad - 1)}

ManifestResources(e) ==
    IF e.faults \cap DotnetStops # {} \/ "resources" \notin TablesLaidOut(e)
    THEN <<>> ELSE e.parts

DotnetValid(e) ==
    /\ e.faults = {}
    /\ \A i \in DOMAIN e.tables : e.tables[i].state = "truncated" =>
          \E j \in 1 .. i - 1 : e.tables[j].state = "unsupported"
    /\ \A i \in DOMAIN ManifestResources(e) : ManifestResources(e)[i].fits

\* PEAnalyzer.analyze: the resources whose range was validated.
PeFinds(e) ==
    IF e.managed THEN Only(ManifestResources(e), Fitting(ManifestResources(e))) ELSE <<>>

\* A command that is cut or miscounted ends a Mach-O parse without result.
MachOParsed(e) == "header" \notin e.faults /\ "command" \notin e.faults

\* Strings of a DEX file; one that cannot be read is passed over.
DexParsed(e) == e.faults \cap {"header", "table"} = {}
DexStrings(e) == Only(e.parts, Fitting(e.parts))

\* ELF tables that do not fit are left out of the metadata.
ElfParsed(e) == "header" \notin e.faults
ElfSections(e) == IF "section_table" \in e.faults THEN <<>> ELSE e.parts
=============================================================================
