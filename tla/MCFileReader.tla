---------------------------- MODULE MCFileReader ----------------------------
(* Every file of up to seven bytes over CR, LF and one other byte, read     *)
(* with a buffer of four and the delimiter CRLF.                            *)
EXTENDS FileReader

MCDelim == <<1, 2>>
MCFiles == UNION {[1..n -> {0, 1, 2}] : n \in 0..7}
=============================================================================
