---------------------------- MODULE MCHookRestore ----------------------------
(* A class with a copied method whose index collides with a declared one,  *)
(* two frameworks chained on that declared method, a third hook elsewhere. *)
EXTENDS HookRestore, TLC

CONSTANTS m1, m2, copied, c1, c2, h1, h2, h3, lsposed, other, p1, o1, list, hooker, null

MCMethods == {m1, m2, copied}
MCDeclared == {m1, m2}
MCClasses == {c1, c2}
MCClass == (m1 :> c1) @@ (m2 :> c2) @@ (copied :> c2)
MCIndex == (m1 :> 7) @@ (m2 :> 9) @@ (copied :> 7)
MCLayout == (c1 :> <<m1, copied>>) @@ (c2 :> <<m2>>)
MCTarget == (h1 :> m1) @@ (h2 :> m1) @@ (h3 :> m2)
MCFramework == (h1 :> lsposed) @@ (h2 :> other) @@ (h3 :> lsposed)
MCReflects == (p1 :> m1)
=============================================================================
