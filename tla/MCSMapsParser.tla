--------------------------- MODULE MCSMapsParser ---------------------------
(* Up to three entries, wanted or not, of a mapping, at most two fields    *)
(* and the flags, each a line of one byte, and a buffer that holds one and *)
(* a half of them.                                                         *)
EXTENDS SMapsParser, SequencesExt

MCDelim == <<1>>
Entries == {<<h, 1>> \o f \o <<3, 1>> : h \in {0, 4}, f \in {<<2, 1>>, <<2, 1, 2, 1>>}}
MCFiles == UNION {{FlattenSeq(e) : e \in [1..n -> Entries]} : n \in 0..3}
=============================================================================
