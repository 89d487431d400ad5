-------------------------- MODULE HookRestoreProofs --------------------------
(* Proofs about HookRestore for any methods, hooks, chains and tables.     *)
EXTENDS HookRestore, TLAPS

USE DEF Refs, Others, Begun

\* The search by dex_method_index (main.cc:798-800) ends at the target.
LEMMA MatchIsTarget ==
  ASSUME NEW h \in Hooks
  PROVE  MatchOf(h) = Target[h] /\ Target[h] \in Methods
<1> DEFINE m == Target[h]
           row == Layout[Class[m]]
           hits == {j \in DOMAIN row : Index[row[j]] = Index[m]}
<1>1. m \in Declared /\ m \in Methods BY HooksAssumption, MethodsAssumption
<1>2. row \in Seq(Methods) BY <1>1, MethodsAssumption
<1>3. PICK j \in DOMAIN row : row[j] = m /\ \A k \in DOMAIN row : Index[row[k]] = Index[m] => j <= k
  BY <1>1, LayoutAssumption
<1>4. j \in hits /\ \A k \in hits : j <= k BY <1>3
<1>5. DOMAIN row \subseteq Nat BY <1>2
<1>6. \A c \in hits : (\A k \in hits : c <= k) => c = j BY <1>4, <1>5
<1>7. (CHOOSE c \in hits : \A k \in hits : c <= k) = j BY <1>4, <1>6
<1>8. MatchOf(h) = row[CHOOSE c \in hits : \A k \in hits : c <= k] BY DEF MatchOf, MethodOf
<1> QED BY <1>1, <1>3, <1>7, <1>8

\* Only a backup's reflected object disagrees with its ArtMethod about the
\* declaring class (main.cc:791-794).
LEMMA BackupsAreHooks ==
  ASSUME NEW r \in Refs \cup {Null}
  PROVE  IsBackup(r) <=> r \in Hooks
<1>1. CASE r \in Hooks
  BY <1>1, HooksAssumption, MethodsAssumption DEF IsBackup, MethodOf, DeclaringClass
<1>2. CASE r \notin Hooks
  BY <1>2 DEF IsBackup, MethodOf, DeclaringClass
<1> QED BY <1>1, <1>2

\* Adding a reference moves none of the others.
LEMMA PlacedKeeps ==
  ASSUME globals \in Seq(Refs \cup {Null}), NEW r \in Refs, NEW g \in PlacedIn(r)
  PROVE  /\ g \in Seq(Refs \cup {Null})
         /\ Len(globals) <= Len(g)
         /\ DOMAIN globals \subseteq DOMAIN g
         /\ \A i \in DOMAIN globals : globals[i] # Null => g[i] = globals[i]
         /\ \A i \in DOMAIN g : g[i] = r \/ (i \in DOMAIN globals /\ g[i] = globals[i])
         /\ \E i \in DOMAIN g : g[i] = r
<1>1. CASE g = Append(globals, r)
  <2>1. Len(g) = Len(globals) + 1 /\ g[Len(globals) + 1] = r BY <1>1
  <2>2. DOMAIN g = 1..(Len(globals) + 1) /\ DOMAIN globals = 1..Len(globals) BY <1>1
  <2>3. \A i \in 1..Len(globals) : g[i] = globals[i] BY <1>1
  <2>4. Len(globals) + 1 \in DOMAIN g BY <2>2
  <2>5. g \in Seq(Refs \cup {Null}) BY <1>1
  <2> QED BY <2>1, <2>2, <2>3, <2>4, <2>5
<1>2. ASSUME NEW i \in DOMAIN globals, globals[i] = Null, g = [globals EXCEPT ![i] = r]
      PROVE  /\ g \in Seq(Refs \cup {Null})
             /\ Len(globals) <= Len(g)
             /\ DOMAIN globals = DOMAIN g
             /\ \A j \in DOMAIN globals : globals[j] # Null => g[j] = globals[j]
             /\ \A j \in DOMAIN g : g[j] = r \/ g[j] = globals[j]
             /\ g[i] = r
  BY <1>2
<1> QED BY <1>1, <1>2 DEF PlacedIn

\* The initial state satisfies every part of the invariant.
LEMMA InitInv == Init => IInv
<1> SUFFICES ASSUME Init PROVE IInv OBVIOUS
<1> USE HooksAssumption, MethodsAssumption, RefsAssumption DEF Init
<1>1. TypeOK
  <2>1. slot \in [Methods -> ArtMethods] BY DEF ArtMethods
  <2>2. backup \in [Hooks -> ArtMethods] BY MatchIsTarget DEF ArtMethods
  <2>3. globals \in Seq(Refs \cup {Null}) /\ report \in Seq(Entries) OBVIOUS
  <2> QED BY <2>1, <2>2, <2>3 DEF TypeOK
<1>2. TableInv /\ NoForeignCode /\ BackupInv /\ BottomInv
  BY DEF TableInv, NoForeignCode, BackupInv, BottomInv
<1>3. CursorInv /\ AheadInv BY DEF CursorInv, AheadInv, Handling, ReadsTable
<1>4. FlagsInv BY DEF FlagsInv, FlagsKept, Handling
<1> QED BY <1>1, <1>2, <1>3, <1>4 DEF IInv

\* hookMethod is entered: its target is not settled until the hook is published.
LEMMA EnterInv ==
  ASSUME IInv, NEW h \in Hooks, EnterHook(h)
  PROVE  IInv'
<1> USE DEF IInv, EnterHook, loader
<1>1. TypeOK' BY DEF TypeOK
<1>2. TableInv' BY DEF TableInv, TypeOK
<1>3. NoForeignCode' /\ BackupInv' BY DEF NoForeignCode, BackupInv
<1>4. BottomInv' BY DEF BottomInv, TypeOK
<1>5. CursorInv' BY DEF CursorInv, Handling
<1>6. \A m \in Methods : Settled(m)' => Settled(m) BY DEF Settled, TypeOK
<1>7. AheadInv' BY <1>6 DEF AheadInv, ReadsTable
<1>8. FlagsInv' BY DEF FlagsInv, FlagsKept, Handling, MatchOf, MethodOf
<1> QED BY <1>1, <1>2, <1>3, <1>4, <1>5, <1>7, <1>8

\* The swap either meets the target's own code and becomes the bottom of its
\* chain, or leaves the bottom where it was.
LEMMA SwapInv ==
  ASSUME IInv, NEW h \in Hooks, SwapHook(h)
  PROVE  IInv'
<1> USE DEF IInv, SwapHook, loader
<1> DEFINE m == Target[h]
<1>m. m \in Methods BY MatchIsTarget
<1>1. TypeOK' BY <1>m DEF TypeOK, ArtMethods
<1>2. TableInv' BY DEF TableInv, TypeOK
<1>3. NoForeignCode' BY <1>m DEF NoForeignCode, TypeOK, ArtMethods
<1>4. BackupInv' BY <1>m DEF BackupInv, NoForeignCode, TypeOK
<1>5. BottomInv'
  <2> SUFFICES ASSUME NEW n \in Methods, slot'[n].entry # n
               PROVE  \E g \in Hooks : /\ Target[g] = n /\ backup'[g].entry = n
                                       /\ phase'[g] \in {"swapped", "published"}
    BY DEF BottomInv
  <2>1. CASE n = m /\ slot[m].entry = m BY <2>1, <1>m DEF TypeOK
  <2>2. CASE slot[n].entry # n
    <3>1. PICK g \in Hooks : /\ Target[g] = n /\ backup[g].entry = n
                             /\ phase[g] \in {"swapped", "published"}
      BY <2>2 DEF BottomInv
    <3>2. g # h BY <3>1
    <3> QED BY <3>1, <3>2 DEF TypeOK
  <2>3. CASE n # m BY <2>2, <2>3, <1>m DEF TypeOK
  <2> QED BY <2>1, <2>2, <2>3
<1>6. \A i \in DOMAIN globals : globals[i] \in Hooks => globals[i] # h
  BY DEF TableInv
<1>7. CursorInv'
  <2>1. Handling => cursor \in DOMAIN globals BY DEF CursorInv, TypeOK, Handling
  <2>2. Handling => cur # h BY <2>1, <1>6 DEF CursorInv
  <2> QED BY <2>2 DEF CursorInv, Handling, TypeOK
<1>8. h \notin seen BY DEF TableInv
<1>9. \A n \in Methods : Settled(n)' => Settled(n) /\ n # m BY <1>8 DEF Settled, TypeOK
<1>10. AheadInv'
  <2>1. \A n \in Methods : n # m => slot'[n] = slot[n] BY DEF TypeOK
  <2>2. \A g \in seen : backup'[g] = backup[g] BY <1>8 DEF TypeOK
  <2> QED BY <1>9, <2>1, <2>2 DEF AheadInv, ReadsTable
<1>11. FlagsInv'
  <2>1. \A n \in Methods : slot'[n].flags = slot[n].flags BY DEF TypeOK
  <2> QED BY <2>1 DEF FlagsInv, FlagsKept, Handling, MatchOf, MethodOf
<1> QED BY <1>1, <1>2, <1>3, <1>4, <1>5, <1>7, <1>10, <1>11

\* A table that only gains a reference keeps what the invariant says of it.
LEMMA PlaceInv ==
  ASSUME IInv, NEW r \in Refs, globals' \in PlacedIn(r),
         r \in Hooks => phase'[r] = "published",
         phase' \in [Hooks -> {"idle", "entered", "swapped", "published"}],
         \A h \in Hooks : phase[h] = "published" => phase'[h] = "published",
         \A h \in Hooks : phase'[h] = "published" => phase[h] = "published" \/ h = r,
         UNCHANGED <<slot, backup, pc, cursor, cur, access_flags, report, loader>>,
         \A h \in Hooks : phase'[h] = phase[h] \/ (phase[h] = "swapped" /\ phase'[h] = "published")
  PROVE  IInv'
<1> USE DEF IInv, loader
<1>p. /\ globals' \in Seq(Refs \cup {Null})
      /\ Len(globals) <= Len(globals')
      /\ DOMAIN globals \subseteq DOMAIN globals'
      /\ \A i \in DOMAIN globals : globals[i] # Null => globals'[i] = globals[i]
      /\ \A i \in DOMAIN globals' : globals'[i] = r \/ (i \in DOMAIN globals /\ globals'[i] = globals[i])
      /\ \E i \in DOMAIN globals' : globals'[i] = r
  BY PlacedKeeps DEF TypeOK
<1>n. Null \notin Hooks BY RefsAssumption
<1>l. Len(globals) \in Nat /\ Len(globals') \in Nat /\ DOMAIN globals = 1..Len(globals) /\ limit \in Nat /\ cursor \in Nat
  BY <1>p DEF TypeOK
<1>1. TypeOK' BY <1>p DEF TypeOK
<1>2. TableInv'
  <2>1. (\A i \in DOMAIN globals : globals[i] \in Hooks => phase[globals[i]] = "published")'
    BY <1>p DEF TableInv
  <2>2. (\A h \in Hooks : phase[h] = "published" => \E i \in DOMAIN globals : globals[i] = h)'
    BY <1>p, <1>n DEF TableInv
  <2>3. (\A h \in seen : phase[h] = "published")' BY DEF TableInv, TypeOK
  <2> QED BY <2>1, <2>2, <2>3 DEF TableInv
<1>3. NoForeignCode' /\ BackupInv' BY DEF NoForeignCode, BackupInv
<1>4. BottomInv' BY DEF BottomInv
<1>5. CursorInv'
  <2>1. Handling => cursor \in DOMAIN globals /\ globals[cursor] # Null
    BY <1>l, <1>n DEF CursorInv, Handling
  <2>2. Handling => globals'[cursor] = globals[cursor] BY <2>1, <1>p
  <2>3. Begun => limit <= Len(globals') BY <1>p, <1>l DEF CursorInv
  <2> QED BY <2>2, <2>3 DEF CursorInv, Handling
<1>6. \A m \in Methods : Settled(m)' => Settled(m)
  BY DEF Settled, TableInv
<1>7. AheadInv'
  <2>1. \A i \in 1..limit : Begun /\ globals[i] \in seen => globals'[i] = globals[i]
    BY <1>p, <1>l, <1>n DEF CursorInv, TypeOK
  <2> QED BY <1>6, <2>1 DEF AheadInv, ReadsTable
<1>8. FlagsInv' BY SMTT(30) DEF FlagsInv, FlagsKept, Handling, MatchOf, MethodOf
<1> QED BY <1>1, <1>2, <1>3, <1>4, <1>5, <1>7, <1>8

LEMMA PublishInv ==
  ASSUME IInv, NEW h \in Hooks, PublishHook(h)
  PROVE  IInv'
<1>1. phase' = [phase EXCEPT ![h] = "published"] /\ phase[h] = "swapped" BY DEF PublishHook
<1>2. phase \in [Hooks -> {"idle", "entered", "swapped", "published"}] BY DEF IInv, TypeOK
<1>3. /\ phase' \in [Hooks -> {"idle", "entered", "swapped", "published"}]
      /\ phase'[h] = "published"
      /\ \A g \in Hooks : g # h => phase'[g] = phase[g]
  BY <1>1, <1>2
<1>4. globals' \in PlacedIn(h)
      /\ UNCHANGED <<slot, backup, pc, cursor, cur, access_flags, report, loader>>
  BY DEF PublishHook
<1>5. h \in Refs OBVIOUS
<1> QED BY <1>1, <1>3, <1>4, <1>5, PlaceInv

LEMMA AddInv ==
  ASSUME IInv, NEW r \in Others, AddRef(r)
  PROVE  IInv'
<1>1. phase' = phase BY DEF AddRef, env
<1>2. phase \in [Hooks -> {"idle", "entered", "swapped", "published"}] BY DEF IInv, TypeOK
<1>3. r \in Refs /\ r \notin Hooks BY RefsAssumption
<1>4. globals' \in PlacedIn(r)
      /\ UNCHANGED <<slot, backup, pc, cursor, cur, access_flags, report, loader>>
  BY DEF AddRef, env
<1> QED BY <1>1, <1>2, <1>3, <1>4, PlaceInv

\* Another owner's reference goes; no hook's reference moves.
LEMMA DeleteInv ==
  ASSUME IInv, NEW i \in DOMAIN globals, DeleteRef(i)
  PROVE  IInv'
<1> USE DEF IInv, DeleteRef, env, loader
<1>1. TypeOK' BY DEF TypeOK
<1>2. Null \notin Hooks /\ globals[i] \notin Hooks BY RefsAssumption
<1>3. DOMAIN globals' = DOMAIN globals /\ Len(globals') = Len(globals)
      /\ \A k \in DOMAIN globals : k # i => globals'[k] = globals[k]
      /\ globals'[i] = Null
  BY DEF TypeOK
<1>4. \A k \in DOMAIN globals : globals[k] \in Hooks => globals'[k] = globals[k]
  BY <1>2, <1>3
<1>5. TableInv'
  <2>1. (\A k \in DOMAIN globals : globals[k] \in Hooks => phase[globals[k]] = "published")'
    BY <1>2, <1>3 DEF TableInv
  <2>2. (\A h \in Hooks : phase[h] = "published" => \E k \in DOMAIN globals : globals[k] = h)'
    BY <1>3, <1>4 DEF TableInv
  <2> QED BY <2>1, <2>2 DEF TableInv
<1>6. NoForeignCode' /\ BackupInv' /\ BottomInv' BY DEF NoForeignCode, BackupInv, BottomInv
<1>7. Begun => 1..limit \subseteq DOMAIN globals BY DEF CursorInv, TypeOK
<1>8. CursorInv' BY <1>3, <1>4, <1>7 DEF CursorInv, Handling
<1>9. \A m \in Methods : Settled(m)' => Settled(m) BY DEF Settled
<1>10. AheadInv'
  <2>1. \A k \in 1..limit : Begun /\ globals[k] \in seen => globals'[k] = globals[k]
    BY <1>4, <1>7 DEF TypeOK
  <2> QED BY <1>9, <2>1 DEF AheadInv, ReadsTable
<1>11. FlagsInv' BY DEF FlagsInv, FlagsKept, Handling, MatchOf, MethodOf
<1> QED BY <1>1, <1>5, <1>6, <1>8, <1>10, <1>11

LEMMA ReplaceInv ==
  ASSUME IInv, ReplaceNatives
  PROVE  IInv'
<1> USE DEF IInv, ReplaceNatives, env
<1>1. TypeOK' BY DEF TypeOK
<1>2. TableInv' /\ NoForeignCode' /\ BackupInv' /\ BottomInv'
  BY DEF TableInv, NoForeignCode, BackupInv, BottomInv
<1>3. CursorInv' /\ AheadInv' BY DEF CursorInv, AheadInv, Handling, ReadsTable
<1>4. FlagsInv' BY DEF FlagsInv, FlagsKept, Handling
<1> QED BY <1>1, <1>2, <1>3, <1>4

\* The list's reference is one more in the table, and nobody reads it yet.
LEMMA MakeInv ==
  ASSUME IInv, MakeList
  PROVE  IInv'
<1> USE DEF IInv, MakeList, env, loader
<1>n. Null \notin Hooks /\ ListRef \notin Hooks BY RefsAssumption
<1>p. /\ globals' \in Seq(Refs \cup {Null})
      /\ DOMAIN globals \subseteq DOMAIN globals'
      /\ \A i \in DOMAIN globals : globals[i] # Null => globals'[i] = globals[i]
      /\ \A i \in DOMAIN globals' : globals'[i] = ListRef \/ (i \in DOMAIN globals /\ globals'[i] = globals[i])
  BY PlacedKeeps DEF TypeOK
<1>1. TypeOK' BY <1>p DEF TypeOK
<1>2. TableInv'
  <2>1. (\A i \in DOMAIN globals : globals[i] \in Hooks => phase[globals[i]] = "published")'
    BY <1>p, <1>n DEF TableInv
  <2>2. (\A h \in Hooks : phase[h] = "published" => \E i \in DOMAIN globals : globals[i] = h)'
    BY <1>p, <1>n DEF TableInv
  <2>3. (\A h \in seen : phase[h] = "published")' BY DEF TableInv
  <2> QED BY <2>1, <2>2, <2>3 DEF TableInv
<1>3. NoForeignCode' /\ BackupInv' /\ BottomInv' BY DEF NoForeignCode, BackupInv, BottomInv
<1>4. CursorInv' /\ AheadInv' BY DEF CursorInv, AheadInv, Handling, ReadsTable
<1>5. FlagsInv' BY DEF FlagsInv, FlagsKept, Handling
<1> QED BY <1>1, <1>2, <1>3, <1>4, <1>5

\* The visit begins: the bottom hook of a settled method is published, its
\* backup is in the table and so within the limit.
LEMMA StartInv ==
  ASSUME IInv, NEW p \in {"VisitRoots", "table", "none"}, StartVisit(p)
  PROVE  IInv'
<1> USE DEF IInv, StartVisit, env
<1>l. /\ globals \in Seq(Refs \cup {Null}) /\ Len(globals) \in Nat
      /\ DOMAIN globals = 1..Len(globals)
  BY DEF TypeOK
<1>1. TypeOK'
  <2>1. limit' \in Nat /\ seen' \subseteq Hooks BY <1>l
  <2> QED BY <2>1 DEF TypeOK
<1>2. TableInv' BY DEF TableInv
<1>3. NoForeignCode' /\ BackupInv' /\ BottomInv' BY DEF NoForeignCode, BackupInv, BottomInv
<1>4. CursorInv' BY <1>l DEF CursorInv, Handling
<1>5. AheadInv'
  <2> SUFFICES ASSUME p # "none", NEW m \in Methods, Settled(m)', slot[m].entry # m
               PROVE  \E i \in 1..limit' :
                        /\ globals[i] \in seen'
                        /\ Target[globals[i]] = m /\ backup[globals[i]].entry = m
                        /\ i > cursor \/ i = cursor
    BY DEF AheadInv, ReadsTable
  <2>1. PICK h \in Hooks : /\ Target[h] = m /\ backup[h].entry = m
                           /\ phase[h] \in {"swapped", "published"}
    BY DEF BottomInv
  <2>2. phase[h] = "published" /\ h \in seen' BY <2>1 DEF Settled
  <2>3. PICK i \in DOMAIN globals : globals[i] = h BY <2>2 DEF TableInv
  <2>4. i \in 1..limit' BY <2>3, <1>l
  <2>5. i > cursor \/ i = cursor BY <2>4, <1>l DEF CursorInv
  <2> QED BY <2>1, <2>2, <2>3, <2>4, <2>5
<1>6. FlagsInv' BY DEF FlagsInv, FlagsKept, Handling
<1> QED BY <1>1, <1>2, <1>3, <1>4, <1>5, <1>6

\* What the cursor stands on.
LEMMA AtCursor ==
  ASSUME IInv, Begun, cursor \in 1..limit
  PROVE  /\ cursor \in DOMAIN globals
         /\ globals[cursor] \in Refs \cup {Null}
         /\ IsBackup(globals[cursor]) <=> globals[cursor] \in Hooks
<1>1. cursor \in DOMAIN globals /\ globals[cursor] \in Refs \cup {Null}
  BY DEF IInv, TypeOK, CursorInv
<1> QED BY <1>1, BackupsAreHooks

LEMMA SkipInv ==
  ASSUME IInv, SkipRef
  PROVE  IInv'
<1> USE DEF IInv, SkipRef, env, loader
<1>1. TypeOK' BY DEF TypeOK
<1>2. TableInv' /\ NoForeignCode' /\ BackupInv' /\ BottomInv'
  BY DEF TableInv, NoForeignCode, BackupInv, BottomInv
<1>3. CursorInv' BY DEF CursorInv, Handling, TypeOK
<1>4. cursor \in 1..limit BY DEF CursorInv, TypeOK
<1>5. globals[cursor] \notin Hooks BY <1>4, AtCursor
<1>6. AheadInv'
  <2>1. \A i \in 1..limit : globals[i] \in seen => i # cursor BY <1>5 DEF TypeOK
  <2>2. \A i \in 1..limit : i > cursor => i > cursor + 1 \/ i = cursor + 1 BY DEF TypeOK
  <2>3. \A m \in Methods : Settled(m)' <=> Settled(m) BY DEF Settled
  <2> QED BY <2>1, <2>2, <2>3 DEF AheadInv, ReadsTable
<1>7. FlagsInv' BY DEF FlagsInv, FlagsKept, Handling
<1> QED BY <1>1, <1>2, <1>3, <1>6, <1>7

\* A backup that is a trampoline itself is no bottom, so nothing is lost by
\* leaving its target alone.
LEMMA TakeInv ==
  ASSUME IInv, TakeBackup
  PROVE  IInv'
<1> USE DEF IInv, TakeBackup, env, loader
<1>1. cursor \in 1..limit BY DEF CursorInv, TypeOK
<1>2. cursor \in DOMAIN globals /\ cur' \in Hooks /\ cur' = globals[cursor]
  BY <1>1, AtCursor
<1>3. MatchOf(cur') = Target[cur'] /\ Target[cur'] \in Methods BY <1>2, MatchIsTarget
<1>4. ArtMethodOf(cur') = backup[cur'] BY <1>2 DEF ArtMethodOf
<1>5. access_flags' = "own" BY <1>3 DEF FlagsInv, FlagsKept, TypeOK, ArtMethods
<1>6. TypeOK' BY <1>2, <1>5 DEF TypeOK
<1>7. TableInv' /\ NoForeignCode' /\ BackupInv' /\ BottomInv'
  BY DEF TableInv, NoForeignCode, BackupInv, BottomInv
<1>8. pc' = "copy" <=> backup[cur'].entry \notin Hooks BY <1>4 DEF IsTrampoline
<1>9. CursorInv'
  <2>1. backup[cur'].entry \notin Hooks => backup[cur'].entry = Target[cur']
    BY <1>2 DEF BackupInv
  <2> QED BY <1>1, <1>2, <1>8, <2>1 DEF CursorInv, Handling
<1>10. AheadInv'
  <2>1. \A m \in Methods : m \notin Hooks BY HooksAssumption
  <2>2. \A m \in Methods : Settled(m)' <=> Settled(m) BY DEF Settled
  <2> QED BY <1>2, <1>8, <2>1, <2>2 DEF AheadInv, ReadsTable
<1>11. FlagsInv' BY <1>5 DEF FlagsInv, FlagsKept
<1> QED BY <1>6, <1>7, <1>9, <1>10, <1>11

\* The copy gives the target of cur its own code and disturbs no other method.
LEMMA CopyInv ==
  ASSUME IInv, CopyBackup
  PROVE  IInv'
<1> USE DEF IInv, CopyBackup, env, loader
<1> DEFINE t == Target[cur]
<1>1. cur \in Hooks /\ cur = globals[cursor] /\ cursor \in 1..limit /\ backup[cur].entry = t
  BY DEF CursorInv, Handling
<1>2. MatchOf(cur) = t /\ t \in Methods BY <1>1, MatchIsTarget
<1>3. ArtMethodOf(cur) = backup[cur] BY <1>1 DEF ArtMethodOf
<1>4. slot' = [slot EXCEPT ![t] = backup[cur]] BY <1>2, <1>3
<1>5. slot'[t].entry = t /\ \A m \in Methods : m # t => slot'[m] = slot[m]
  BY <1>1, <1>2, <1>4 DEF TypeOK
<1>6. TypeOK' BY <1>1, <1>2, <1>4 DEF TypeOK
<1>7. TableInv' /\ BackupInv' BY DEF TableInv, BackupInv
<1>8. NoForeignCode' BY <1>5 DEF NoForeignCode
<1>9. BottomInv' BY <1>5 DEF BottomInv
<1>10. CursorInv' BY DEF CursorInv, Handling
<1>11. AheadInv'
  <2>1. \A m \in Methods : Settled(m)' <=> Settled(m) BY DEF Settled
  <2> QED BY <1>1, <1>5, <2>1 DEF AheadInv, ReadsTable
<1>12. FlagsInv' BY <1>2, <1>5 DEF FlagsInv, FlagsKept, Handling, MatchOf, MethodOf
<1> QED BY <1>6, <1>7, <1>8, <1>9, <1>10, <1>11, <1>12

LEMMA PutInv ==
  ASSUME IInv, PutFlags
  PROVE  IInv'
<1> USE DEF IInv, PutFlags, env, loader
<1> DEFINE t == Target[cur]
<1>1. cur \in Hooks BY DEF CursorInv, Handling
<1>2. MatchOf(cur) = t /\ t \in Methods BY <1>1, MatchIsTarget
<1>3. slot' = [slot EXCEPT ![t] = [entry |-> slot[t].entry, flags |-> access_flags]] BY <1>2
<1>4. access_flags = "own" BY DEF FlagsInv, Handling
<1>5. \A m \in Methods : slot'[m].entry = slot[m].entry BY <1>3 DEF TypeOK
<1>6. slot'[t].flags = "own" /\ \A m \in Methods : m # t => slot'[m] = slot[m]
  BY <1>2, <1>3, <1>4 DEF TypeOK
<1>7. TypeOK' BY <1>2, <1>3, <1>4 DEF TypeOK, ArtMethods
<1>8. TableInv' /\ BackupInv' BY DEF TableInv, BackupInv
<1>9. NoForeignCode' /\ BottomInv' BY <1>5 DEF NoForeignCode, BottomInv
<1>10. CursorInv' BY DEF CursorInv, Handling
<1>11. AheadInv'
  <2>1. \A m \in Methods : Settled(m)' <=> Settled(m) BY DEF Settled
  <2> QED BY <1>5, <2>1 DEF AheadInv, ReadsTable
<1>12. FlagsInv' BY <1>2, <1>4, <1>6 DEF FlagsInv, FlagsKept, Handling
<1> QED BY <1>7, <1>8, <1>9, <1>10, <1>11, <1>12

LEMMA ReportInv ==
  ASSUME IInv, Report
  PROVE  IInv'
<1> USE DEF IInv, Report, env, loader
<1>1. cur \in Hooks BY DEF CursorInv, Handling
<1>2. MatchOf(cur) \in Methods BY <1>1, MatchIsTarget
<1>3. TypeOK' BY <1>2 DEF TypeOK, Entries, IsTrampoline
<1>4. TableInv' /\ NoForeignCode' /\ BackupInv' /\ BottomInv'
  BY DEF TableInv, NoForeignCode, BackupInv, BottomInv
<1>5. CursorInv' BY DEF CursorInv, Handling, TypeOK
<1>6. AheadInv'
  <2>1. \A i \in 1..limit : i > cursor => i > cursor + 1 \/ i = cursor + 1 BY DEF TypeOK
  <2>2. \A m \in Methods : Settled(m)' <=> Settled(m) BY DEF Settled
  <2> QED BY <2>1, <2>2 DEF AheadInv, ReadsTable
<1>7. FlagsInv' BY DEF FlagsInv, FlagsKept, Handling
<1> QED BY <1>3, <1>4, <1>5, <1>6, <1>7

LEMMA EndInv ==
  ASSUME IInv, EndVisit
  PROVE  IInv'
<1> USE DEF IInv, EndVisit, env, loader
<1>1. TypeOK' BY DEF TypeOK
<1>2. TableInv' /\ NoForeignCode' /\ BackupInv' /\ BottomInv'
  BY DEF TableInv, NoForeignCode, BackupInv, BottomInv
<1>3. CursorInv' BY DEF CursorInv, Handling
<1>4. AheadInv'
  <2>1. \A i \in 1..limit : ~(i > cursor) /\ i # cursor BY DEF TypeOK
  <2>2. \A m \in Methods : Settled(m)' <=> Settled(m) BY DEF Settled
  <2> QED BY <2>1, <2>2 DEF AheadInv, ReadsTable
<1>5. FlagsInv' BY DEF FlagsInv, FlagsKept, Handling
<1> QED BY <1>1, <1>2, <1>3, <1>4, <1>5

\* IInv is inductive.
LEMMA NextInv == IInv /\ [Next]_vars => IInv'
<1> SUFFICES ASSUME IInv, [Next]_vars PROVE IInv' OBVIOUS
<1>1. CASE Loader
  BY <1>1, ReplaceInv, MakeInv, StartInv, SkipInv, TakeInv, CopyInv, PutInv, ReportInv, EndInv DEF Loader
<1>2. CASE Process
  BY <1>2, EnterInv, SwapInv, PublishInv, AddInv, DeleteInv DEF Process
<1>3. CASE UNCHANGED vars
  <2> USE <1>3 DEF IInv, vars
  <2>1. TypeOK' BY DEF TypeOK
  <2>2. TableInv' /\ NoForeignCode' /\ BackupInv' /\ BottomInv'
    BY DEF TableInv, NoForeignCode, BackupInv, BottomInv
  <2>3. CursorInv' /\ AheadInv' BY DEF CursorInv, AheadInv, Handling, ReadsTable, Settled
  <2>4. FlagsInv' BY DEF FlagsInv, FlagsKept, Handling, MatchOf, MethodOf
  <2> QED BY <2>1, <2>2, <2>3, <2>4
<1> QED BY <1>1, <1>2, <1>3 DEF Next

THEOREM Invariance == Spec => []IInv
<1> QED BY InitInv, NextInv, PTL DEF Spec

\* TypeOK of every value a run of JNI_OnLoad and the frameworks gives the
\* state (main.cc:742-836).
THEOREM TypeCorrect == Spec => []TypeOK
<1>1. IInv => TypeOK BY DEF IInv
<1> QED BY <1>1, Invariance, PTL

\* Restore methods: for any number of methods, hooks, frameworks and chain
\* orders, and any traffic in the table of global references.
THEOREM RestoreCorrect == Spec => []RestoredAtEnd
<1>1. IInv => RestoredAtEnd
  <2> SUFFICES ASSUME IInv, pc = "done", path # "none",
                      NEW m \in Methods, Settled(m), slot[m].entry # m
               PROVE  FALSE
    BY DEF RestoredAtEnd
  <2>1. PICK i \in 1..limit : i > cursor
    BY DEF IInv, AheadInv, ReadsTable
  <2> QED BY <2>1 DEF IInv, CursorInv, TypeOK
<1> QED BY <1>1, Invariance, PTL

\* The copy never lands on a method that the backup was not made for.
THEOREM CopyCorrect == Spec => []NoForeignCode
<1>1. IInv => NoForeignCode BY DEF IInv
<1> QED BY <1>1, Invariance, PTL

\* Access flags are those of the target outside the two stores of a restore.
THEOREM FlagsCorrect == Spec => []FlagsKept
<1>1. IInv => FlagsKept BY DEF IInv, FlagsInv
<1> QED BY <1>1, Invariance, PTL

\* A step of the loader gives a method its own code or leaves its code alone.
THEOREM LoaderCorrect == Spec => LoaderNeverHooks
<1>1. IInv /\ [Next]_vars =>
        [Loader => \A m \in Methods : slot'[m].entry \in {slot[m].entry, m}]_vars
  <2> SUFFICES ASSUME IInv, Loader, NEW m \in Methods
               PROVE  slot'[m].entry \in {slot[m].entry, m}
    OBVIOUS
  <2>1. CASE CopyBackup
    <3>1. cur \in Hooks /\ backup[cur].entry = Target[cur]
      BY <2>1 DEF IInv, CursorInv, Handling, CopyBackup
    <3>2. slot' = [slot EXCEPT ![Target[cur]] = backup[cur]]
      BY <2>1, <3>1, MatchIsTarget DEF CopyBackup, ArtMethodOf
    <3> QED BY <3>1, <3>2 DEF IInv, TypeOK
  <2>2. CASE PutFlags
    <3>1. slot' = [slot EXCEPT ![MatchOf(cur)] = [entry |-> slot[MatchOf(cur)].entry,
                                                  flags |-> access_flags]]
      BY <2>2 DEF PutFlags
    <3> QED BY <3>1 DEF IInv, TypeOK
  <2>3. CASE ~CopyBackup /\ ~PutFlags
    BY <2>3 DEF Loader, ReplaceNatives, MakeList, StartVisit, SkipRef, TakeBackup, Report, EndVisit
  <2> QED BY <2>1, <2>2, <2>3
<1> QED BY <1>1, Invariance, PTL DEF Spec, LoaderNeverHooks

\* HookRestore implements HookTable: the loader closes and restores, only the
\* frameworks admit and land hooks, and none is admitted after the close.
THEOREM PromiseKept == Spec => KeepsPromise
<1> DEFINE hookedNow == {m \in Methods : slot[m].entry # m}
           admittedNow == {h \in Hooks : phase[h] = "entered"}
<1>1. Init => Promise!Init
  BY DEF Init, Promise!Init
<1>2. ASSUME IInv, [Next]_vars
      PROVE  Promise!Next \/ UNCHANGED Promise!tableVars
  <2> USE <1>2 DEF IInv
  <2>a. \A h \in Hooks : Target[h] \in Methods /\ Target[h] # h /\ h \notin Methods
    BY MatchIsTarget, HooksAssumption
  <2>1. ASSUME NEW h \in Hooks, EnterHook(h) PROVE Promise!Admit(h)
    BY <2>1 DEF EnterHook, Promise!Admit, TypeOK, loader
  <2>2. ASSUME NEW h \in Hooks, SwapHook(h) PROVE Promise!Land(h)
    <3>1. admittedNow' = admittedNow \ {h} BY <2>2 DEF SwapHook, TypeOK
    <3>2. hookedNow' = hookedNow \cup {Target[h]} BY <2>2, <2>a DEF SwapHook, TypeOK
    <3> QED BY <2>2, <3>1, <3>2 DEF SwapHook, Promise!Land, loader
  <2>3. ASSUME NEW h \in Hooks, PublishHook(h) PROVE UNCHANGED Promise!tableVars
    BY <2>3 DEF PublishHook, TypeOK, Promise!tableVars, loader
  <2>4. ASSUME ReplaceNatives PROVE Promise!Close(Found)
    BY <2>4 DEF ReplaceNatives, TypeOK, Promise!Close, env
  <2>5. ASSUME CopyBackup PROVE \E m \in Methods : Promise!Restore(m)
    <3>1. cur \in Hooks /\ backup[cur].entry = Target[cur]
      BY <2>5 DEF CursorInv, Handling, CopyBackup
    <3>2. slot' = [slot EXCEPT ![Target[cur]] = backup[cur]]
      BY <2>5, <3>1, MatchIsTarget DEF CopyBackup, ArtMethodOf
    <3>3. hookedNow' = hookedNow \ {Target[cur]} BY <3>1, <3>2, <2>a DEF TypeOK
    <3> QED BY <2>5, <3>1, <3>3, <2>a DEF CopyBackup, Promise!Restore, loader, env
  <2>6. ASSUME PutFlags PROVE UNCHANGED Promise!tableVars
    <3>1. \A m \in Methods : slot'[m].entry = slot[m].entry BY <2>6 DEF PutFlags, TypeOK
    <3> QED BY <2>6, <3>1 DEF PutFlags, Promise!tableVars, loader, env
  <2>7. ASSUME \/ MakeList
               \/ \E p \in {"VisitRoots", "table", "none"} : StartVisit(p)
               \/ SkipRef \/ TakeBackup \/ Report \/ EndVisit
               \/ \E r \in Others : AddRef(r)
               \/ \E i \in DOMAIN globals : DeleteRef(i)
               \/ UNCHANGED vars
        PROVE  UNCHANGED Promise!tableVars
    BY <2>7 DEF MakeList, StartVisit, SkipRef, TakeBackup, Report, EndVisit, AddRef, DeleteRef, vars,
                Promise!tableVars, loader, env
  <2>8. CASE Loader
    <3>1. CASE ReplaceNatives BY <2>4, <3>1, HooksAssumption DEF Promise!Next
    <3>2. CASE CopyBackup BY <2>5, <3>2 DEF Promise!Next
    <3> QED BY <2>6, <2>7, <2>8, <3>1, <3>2 DEF Loader
  <2>9. CASE Process
    <3>1. CASE \E h \in Hooks : EnterHook(h) BY <2>1, <3>1 DEF Promise!Next
    <3>2. CASE \E h \in Hooks : SwapHook(h) BY <2>2, <3>2 DEF Promise!Next
    <3>3. CASE \E h \in Hooks : PublishHook(h) BY <2>3, <3>3
    <3> QED BY <2>7, <2>9, <3>1, <3>2, <3>3 DEF Process
  <2> QED BY <1>2, <2>7, <2>8, <2>9 DEF Next
<1>3. IInv /\ [Next]_vars => [Promise!Next]_(Promise!tableVars) BY <1>2
<1> QED BY <1>1, <1>3, Invariance, PTL DEF Spec, KeepsPromise, Promise!Spec

LEMMA DisabledInvariant == Spec => []DisabledInv
<1>1. Init => DisabledInv BY DEF Init, DisabledInv
<1>2. DisabledInv /\ [Next]_vars => DisabledInv'
  <2> SUFFICES ASSUME DisabledInv, [Next]_vars PROVE DisabledInv' OBVIOUS
  <2>1. CASE ReplaceNatives BY <2>1 DEF ReplaceNatives, DisabledInv
  <2>2. CASE ~ReplaceNatives
    <3>1. UNCHANGED <<replaced, is_lsposed_disabled_>>
      BY <2>2 DEF Next, Loader, Process, EnterHook, SwapHook, PublishHook, AddRef, DeleteRef,
                  MakeList, StartVisit, SkipRef, TakeBackup, CopyBackup, PutFlags, Report,
                  EndVisit, loader, vars
    <3> QED BY <3>1 DEF DisabledInv
  <2> QED BY <2>1, <2>2
<1> QED BY <1>1, <1>2, PTL DEF Spec

\* Prevent new hooks: after the replacement a settled method keeps its code
\* whatever the frameworks and the other threads still do.
THEOREM DisableCorrect == Spec => NoHookAfterDisable
<1> DEFINE Quiet(m) == \A h \in Hooks : Target[h] = m =>
                         \/ phase[h] = "published"
                         \/ phase[h] = "idle" /\ Framework[h] = Found
           Kept(m) == slot'[m] = slot[m] /\ \A h \in Hooks : Target[h] = m => phase'[h] = phase[h]
           Step == pc = "done" /\ is_lsposed_disabled_ => \A m \in Methods : Quiet(m) => Kept(m)
<1>1. IInv /\ DisabledInv /\ [Next]_vars => [Step]_vars
  <2> SUFFICES ASSUME IInv, DisabledInv, Next, pc = "done", is_lsposed_disabled_,
                      NEW m \in Methods, Quiet(m)
               PROVE  Kept(m)
    OBVIOUS
  <2>1. Found \in replaced BY DEF DisabledInv
  <2>2. ~Loader
    BY DEF Loader, ReplaceNatives, MakeList, StartVisit, SkipRef, TakeBackup, CopyBackup, PutFlags,
           Report, EndVisit
  <2>3. ASSUME NEW g \in Hooks, EnterHook(g) PROVE Kept(m)
    BY <2>1, <2>3 DEF EnterHook, IInv, TypeOK
  <2>4. ASSUME NEW g \in Hooks, SwapHook(g) PROVE Kept(m)
    BY <2>4 DEF SwapHook, IInv, TypeOK
  <2>5. ASSUME NEW g \in Hooks, PublishHook(g) PROVE Kept(m)
    BY <2>5 DEF PublishHook, IInv, TypeOK
  <2>6. ASSUME NEW r \in Others, AddRef(r) PROVE Kept(m)
    BY <2>6 DEF AddRef, env
  <2>7. ASSUME NEW i \in DOMAIN globals, DeleteRef(i) PROVE Kept(m)
    BY <2>7 DEF DeleteRef, env
  <2> HIDE DEF Kept
  <2> QED BY <2>2, <2>3, <2>4, <2>5, <2>6, <2>7 DEF Next, Process
<1> QED BY <1>1, Invariance, DisabledInvariant, PTL DEF Spec, NoHookAfterDisable

\* A backup that is published keeps its ArtMethod, so what was reported of
\* it stays true.
LEMMA BackupStays ==
  ASSUME IInv, [Next]_vars, NEW h \in Hooks, phase[h] = "published"
  PROVE  phase'[h] = "published" /\ backup'[h] = backup[h]
<1>1. ASSUME NEW g \in Hooks, EnterHook(g) \/ SwapHook(g) \/ PublishHook(g)
      PROVE  phase'[h] = "published" /\ backup'[h] = backup[h]
  BY <1>1 DEF EnterHook, SwapHook, PublishHook, IInv, TypeOK
<1>2. (\A g \in Hooks : ~EnterHook(g) /\ ~SwapHook(g) /\ ~PublishHook(g)) => UNCHANGED env
  BY DEF Next, Loader, Process, AddRef, DeleteRef, ReplaceNatives, MakeList, StartVisit, SkipRef,
         TakeBackup, CopyBackup, PutFlags, Report, EndVisit, env, vars
<1> QED BY <1>1, <1>2 DEF env

\* Once the visit has begun, a backup seen at its start stays where it is.
LEMMA SeenStays ==
  ASSUME IInv, [Next]_vars, Begun, NEW i \in 1..limit, globals[i] \in Hooks
  PROVE  globals'[i] = globals[i] /\ i \in 1..limit'
<1>1. i \in DOMAIN globals BY DEF IInv, CursorInv, TypeOK
<1>n. Null \notin Hooks /\ Hooks \cap Others = {} BY RefsAssumption
<1>2. limit' = limit
  BY DEF Next, Loader, Process, EnterHook, SwapHook, PublishHook, AddRef, DeleteRef,
         ReplaceNatives, MakeList, StartVisit, SkipRef, TakeBackup, CopyBackup, PutFlags, Report,
         EndVisit, loader, vars
<1>3. ASSUME NEW r \in Refs, globals' \in PlacedIn(r) PROVE globals'[i] = globals[i]
  BY <1>1, <1>n, <1>3, PlacedKeeps DEF IInv, TypeOK
<1>4. ASSUME NEW k \in DOMAIN globals, DeleteRef(k) PROVE globals'[i] = globals[i]
  BY <1>1, <1>n, <1>4 DEF DeleteRef, IInv, TypeOK
<1>5. \/ \E r \in Refs : globals' \in PlacedIn(r)
      \/ \E k \in DOMAIN globals : DeleteRef(k)
      \/ globals' = globals
  BY DEF Next, Loader, Process, EnterHook, SwapHook, PublishHook, AddRef,
         ReplaceNatives, MakeList, StartVisit, SkipRef, TakeBackup, CopyBackup, PutFlags, Report,
         EndVisit, loader, env, vars
<1> QED BY <1>2, <1>3, <1>4, <1>5

\* The report lists exactly the backups that were met, and no backup that
\* was published before the visit is missing when JNI_OnLoad returns.
THEOREM ReportCorrect == Spec => []ReportExact
<1>1. Init => ReportedInv
  BY DEF Init, ReportedInv, Reported, ReadsTable
<1>2. IInv /\ IInv' /\ ReportedInv /\ [Next]_vars => ReportedInv'
  <2> SUFFICES ASSUME IInv, IInv', ReportedInv, [Next]_vars PROVE ReportedInv' OBVIOUS
  <2>t. report \in Seq(Entries) /\ cursor \in Nat /\ limit \in Nat BY DEF IInv, TypeOK
  <2>1. \A h \in Hooks : phase[h] = "published" =>
          phase'[h] = "published" /\ ReportOf(h)' = ReportOf(h)
    BY BackupStays DEF ReportOf, IsTrampoline
  <2>2. CASE Report
    <3>1. cur \in Hooks /\ cursor \in 1..limit /\ cur = globals[cursor]
      BY <2>2 DEF Report, IInv, CursorInv, Handling
    <3>2. cursor \in DOMAIN globals BY <2>2, <3>1 DEF Report, IInv, CursorInv, TypeOK
    <3>3. phase[cur] = "published" BY <3>1, <3>2 DEF IInv, TableInv
    <3>4. report' = Append(report, ReportOf(cur))
      BY <2>2, <3>1, MatchIsTarget DEF Report, ReportOf, ArtMethodOf
    <3>5. Reported' = Reported \cup {ReportOf(cur)} BY <3>4, <2>t DEF Reported
    <3>6. (\A e \in Reported : \E h \in Hooks : phase[h] = "published" /\ e = ReportOf(h))'
      BY <2>1, <3>1, <3>3, <3>5 DEF ReportedInv
    <3>7. ASSUME ReadsTable, NEW h \in seen
          PROVE  ReportOf(h)' \in Reported' \/ \E i \in 1..limit : globals[i] = h /\ i >= cursor + 1
      <4>1. h \in Hooks /\ phase[h] = "published" BY DEF IInv, TableInv, TypeOK
      <4>2. CASE ReportOf(h) \in Reported BY <2>1, <3>5, <4>1, <4>2
      <4>3. ASSUME NEW i \in 1..limit, globals[i] = h, i >= cursor
            PROVE  h = cur \/ i >= cursor + 1
        BY <4>3, <3>1, <2>t
      <4> QED BY <2>1, <3>1, <3>5, <4>1, <4>2, <4>3, <3>7 DEF ReportedInv
    <3>8. /\ ReadsTable' = ReadsTable /\ seen' = seen /\ limit' = limit
          /\ globals' = globals /\ cursor' = cursor + 1
      BY <2>2 DEF Report, ReadsTable, loader
    <3> QED BY <3>6, <3>7, <3>8 DEF ReportedInv
  <2>3. CASE ~Report
    <3>1. report' = report
      BY <2>3 DEF Next, Loader, Process, EnterHook, SwapHook, PublishHook, AddRef, DeleteRef,
                  ReplaceNatives, MakeList, StartVisit, SkipRef, TakeBackup, CopyBackup, PutFlags,
                  EndVisit, vars
    <3>2. Reported' = Reported BY <3>1 DEF Reported
    <3>3. (\A e \in Reported : \E h \in Hooks : phase[h] = "published" /\ e = ReportOf(h))'
      BY <2>1, <3>2 DEF ReportedInv
    <3>4. ASSUME ReadsTable', NEW h \in seen'
          PROVE  ReportOf(h)' \in Reported' \/ (\E i \in 1..limit : globals[i] = h /\ i >= cursor)'
      <4>1. CASE ~Begun
        <5>1. h \in Hooks /\ phase'[h] = "published" BY DEF IInv, TableInv, TypeOK
        <5>2. PICK i \in DOMAIN globals' : globals'[i] = h BY <5>1 DEF IInv, TableInv
        <5>3. \E p \in {"VisitRoots", "table"} : StartVisit(p)
          BY <3>4, <4>1 DEF ReadsTable, Next, Loader, Process, EnterHook, SwapHook, PublishHook,
            AddRef, DeleteRef, ReplaceNatives, MakeList, StartVisit, SkipRef, TakeBackup, CopyBackup,
            PutFlags, Report, EndVisit, vars
        <5>4. limit' = Len(globals') /\ cursor' = 1
          BY <4>1, <5>3 DEF StartVisit, IInv, CursorInv
        <5>5. DOMAIN globals' = 1..limit' BY <5>4 DEF IInv, TypeOK
        <5>6. i \in 1..limit' /\ i >= cursor' BY <5>2, <5>4, <5>5
        <5> QED BY <5>2, <5>6
      <4>2. CASE Begun
        <5>1. ReadsTable /\ seen' = seen
          BY <3>4, <4>2 DEF ReadsTable, Next, Loader, Process, EnterHook, SwapHook, PublishHook,
            AddRef, DeleteRef, ReplaceNatives, MakeList, StartVisit, SkipRef, TakeBackup, CopyBackup,
            PutFlags, Report, EndVisit, loader, vars
        <5>2. h \in Hooks /\ phase[h] = "published" BY <5>1 DEF IInv, TableInv, TypeOK
        <5>3. CASE ReportOf(h) \in Reported BY <2>1, <3>2, <5>2, <5>3
        <5>4. ASSUME NEW i \in 1..limit, globals[i] = h, i >= cursor
              PROVE  (\E k \in 1..limit : globals[k] = h /\ k >= cursor)'
          <6>1. globals'[i] = h /\ i \in 1..limit' BY <4>2, <5>2, <5>4, SeenStays
          <6>2. CASE SkipRef
            <7>1. cursor \in 1..limit /\ ~IsBackup(globals[cursor])
              BY <6>2 DEF SkipRef, IInv, CursorInv, TypeOK
            <7>2. i # cursor BY <4>2, <5>2, <5>4, <7>1, AtCursor
            <7>3. i >= cursor + 1 /\ cursor' = cursor + 1 BY <2>t, <5>4, <6>2, <7>2 DEF SkipRef
            <7> QED BY <6>1, <7>3
          <6>3. CASE ~SkipRef
            <7>1. cursor' = cursor
              BY <2>3, <6>3 DEF Next, Loader, Process, EnterHook, SwapHook, PublishHook, AddRef,
                DeleteRef, ReplaceNatives, MakeList, StartVisit, TakeBackup, CopyBackup, PutFlags,
                EndVisit, vars
            <7> QED BY <5>4, <6>1, <7>1
          <6> QED BY <6>2, <6>3
        <5> QED BY <5>1, <5>3, <5>4 DEF ReportedInv
      <4> QED BY <4>1, <4>2
    <3> QED BY <3>3, <3>4 DEF ReportedInv
  <2> QED BY <2>2, <2>3
<1>3. IInv /\ ReportedInv => ReportExact
  BY DEF ReportedInv, ReportExact, IInv, CursorInv, TypeOK, ReadsTable
<1> QED BY <1>1, <1>2, <1>3, Invariance, PTL DEF Spec

=============================================================================
