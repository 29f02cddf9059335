-------------------------- MODULE MCAnalysisEngine --------------------------
(* A small instance of AnalysisEngine: an archive that holds a nested        *)
(* archive, a copy of an encoded member, an analyzer's summary and an empty  *)
(* member; a decoder that only smart detection enables; a tie between two    *)
(* decoders; a content that decodes to one of its own ancestors.             *)
EXTENDS AnalysisEngine

MCContent == {"", "archive", "inner", "armored", "text", "summary", "loop"}
MCOpaque == {"armored"}
MCAnalyzers == {"TAR", "ZIP"}
MCDecoders == {"ASN1", "Base64", "ROT13"}
MCBaseline == {"Base64", "ROT13"}
MCRank == [h \in MCAnalyzers \cup MCDecoders |->
             CASE h \in {"TAR", "ASN1"} -> 1
               [] h \in {"ZIP", "Base64"} -> 2
               [] OTHER -> 3]
MCDetects == [c \in MCContent |-> IF c = "loop" THEN {"ASN1"} ELSE {}]

Member(c) == [content |-> c, meta |-> FALSE]

MCExtract == [a \in MCAnalyzers |-> [c \in MCContent |->
    CASE a = "ZIP" /\ c = "archive" ->
           <<Member("armored"), Member("inner"), [content |-> "summary", meta |-> TRUE]>>
      [] a = "TAR" /\ c = "inner" ->
           <<Member(""), Member("armored"), Member("loop")>>
      [] OTHER -> <<>>]]

Refused == [out |-> "", score |-> 0]

MCDecode == [d \in MCDecoders |-> [c \in MCContent |->
    CASE d = "ASN1" /\ c \in {"armored", "loop"} -> [out |-> "inner", score |-> 3]
      [] d \in {"Base64", "ROT13"} /\ c = "armored" -> [out |-> "text", score |-> 2]
      [] d = "ROT13" /\ c = "loop" -> [out |-> "text", score |-> 2]
      [] d = "ROT13" /\ c = "archive" -> [out |-> "text", score |-> 2]
      [] d = "Base64" /\ c = "text" -> [out |-> "loop", score |-> 1]
      [] OTHER -> Refused]]

MCFaults == FaultKinds
=============================================================================
