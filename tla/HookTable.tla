------------------------------ MODULE HookTable ------------------------------
(***************************************************************************)
(* What the library promises about the methods of the process, seen from   *)
(* outside (README.md:12 and :14): frameworks admit hooks while their      *)
(* hookMethod entry is open, an admitted hook may make its target run the  *)
(* framework's code, and the library only ever closes an entry or gives    *)
(* targets their own code back.  Nothing reopens an entry.                 *)
(***************************************************************************)
EXTENDS FiniteSets

CONSTANTS Methods,     \* the methods of the process
          Hooks,       \* the hooks that frameworks ask for
          Target,      \* the method each hook intercepts
          Frameworks,
          Framework    \* the framework each hook comes from

VARIABLES hooked,      \* the methods that run a trampoline
          admitted,    \* hooks that entered hookMethod and may still land
          closed       \* frameworks whose hookMethod is replaced

tableVars == <<hooked, admitted, closed>>

Init == hooked = {} /\ admitted = {} /\ closed = {}

Admit(h) == /\ Framework[h] \notin closed
            /\ admitted' = admitted \cup {h}
            /\ UNCHANGED <<hooked, closed>>

\* An admitted hook lands once.
Land(h) == /\ h \in admitted
           /\ admitted' = admitted \ {h}
           /\ hooked' = hooked \cup {Target[h]}
           /\ UNCHANGED closed

Close(f) == closed' = closed \cup {f} /\ UNCHANGED <<hooked, admitted>>

Restore(m) == hooked' = hooked \ {m} /\ UNCHANGED <<admitted, closed>>

Next == \/ \E h \in Hooks : Admit(h) \/ Land(h)
        \/ \E f \in Frameworks : Close(f)
        \/ \E m \in Methods : Restore(m)

Spec == Init /\ [][Next]_tableVars
=============================================================================
