------------------------------- MODULE MCOnLoad -------------------------------
(* Every layout of libart.so, at a base that fits all alignments and at one  *)
(* that is only a multiple of the page.                                      *)
EXTENDS OnLoad, ArtLayouts

MCLayouts == {OnPages, LargePages, MidPage}
=============================================================================
