------------------------------ MODULE ArtLayouts ------------------------------
(* Program headers for pages of two units.  A library whose segments begin  *)
(* on pages, with code before and behind its data.  Two that are aligned    *)
(* for larger pages: one whose code begins in the middle of such a page and *)
(* that has writable code, one whose code begins within a small page.  And  *)
(* the last with longer code.                                               *)
Seg(v, n, a, o, fl) ==
  [p_vaddr |-> v, p_memsz |-> n, p_align |-> a, p_offset |-> o, p_flags |-> fl]

OnPages == <<Seg(0, 1, 2, 0, {"R", "X"}), Seg(2, 1, 2, 2, {"R", "W"}), Seg(4, 1, 2, 4, {"X"})>>
LargePages == <<Seg(0, 1, 4, 0, {"R"}), Seg(6, 2, 4, 2, {"R", "X"}), Seg(8, 1, 4, 4, {"R", "W", "X"})>>
MidPage == <<Seg(0, 1, 4, 0, {"R"}), Seg(5, 2, 4, 1, {"R", "X"}), Seg(8, 1, 4, 4, {"R", "W"})>>
MidPageLong == <<Seg(0, 1, 4, 0, {"R"}), Seg(5, 4, 4, 1, {"R", "X"}), Seg(12, 1, 4, 8, {"R", "W"})>>
=============================================================================
