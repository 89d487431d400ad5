--------------------------- MODULE MCFrameworkSweep ---------------------------
(* The interface, a context that lists it, a context that only inherits it, *)
(* a bridge whose RegisterNatives fails, one with a native to replace and   *)
(* one that does not load; any order of the six.                            *)
EXTENDS FrameworkSweep, TLC

CONSTANTS iface, direct, context, bridge, hooker, ghost, fd, fc, fb, k1, k2

MCClassSet == {iface, direct, context, bridge, hooker, ghost}
MCSimpleName == [c \in ClassSet |-> CASE c = iface -> "XposedInterface"
                                        [] c = bridge -> "XposedBridge"
                                        [] c = hooker -> "none"
                                        [] OTHER -> "other"]
MCHolder == (fd :> direct) @@ (fc :> context) @@ (fb :> bridge)
MCAccepts == (fd :> {k1}) @@ (fc :> {k1}) @@ (fb :> {k1, k2})
MCUnwrap == (k1 :> k1) @@ (k2 :> k1)
=============================================================================
