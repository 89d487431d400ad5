------------------------------ MODULE MCArtRemap ------------------------------
(* Code that begins within a page and is aligned for larger pages.          *)
EXTENDS ArtRemap, ArtLayouts

MidPageOnly == {MidPageLong}
=============================================================================
