-------------------------- MODULE MatchStoreProofs --------------------------
(***************************************************************************)
(* Proofs about MatchStore, for any runners and ids.                       *)
(***************************************************************************)
EXTENDS MatchStore, TLAPS

Inv == TypeOK /\ FoundIdsStay /\ ListedIdsAreKnown /\ StrongFirstIsUnique

\* The match that AddMatch makes.
LEMMA NewMatch ==
    ASSUME TypeOK, NEW r \in Runners, NEW id \in Ids
    PROVE  [runner |-> r, id |-> id, nr |-> made] \in Match
BY RunnersAssumption DEF TypeOK, Match

LEMMA InitInv == Init => Inv
BY RunnersAssumption
DEF Init, Inv, TypeOK, FoundIdsStay, ListedIdsAreKnown, StrongFirstIsUnique, NoIds,
    Known, SameId

\* A duplicate replaces a match of its own id, or nothing.
LEMMA DuplicateStep ==
    ASSUME Inv, NEW m \in Match, AddDuplicate(m)
    PROVE  /\ UNCHANGED uniqueIds
           /\ \A id \in Ids \ {m.id} : SameId(id)' = SameId(id)
           /\ \/ SameId(m.id)' = SameId(m.id)
              \/ IsWeak(uniqueIds[m.id]) /\ m \in SameId(m.id)'
<1>0. TypeOK /\ m.id \in Ids /\ m.runner \in Unique /\ Known(m.id)
  BY DEF Inv, Match, AddDuplicate
<1>1. PICK k \in Match : k = uniqueIds[m.id] /\ k.id = m.id
  BY <1>0 DEF TypeOK, Known
<1>2. UNCHANGED uniqueIds
  BY DEF AddDuplicate
<1>3. CASE ~IsWeak(uniqueIds[m.id])
  <2>1. matches' = matches
    BY <1>3 DEF AddDuplicate
  <2>. QED  BY <1>2, <2>1 DEF SameId
<1>4. CASE IsWeak(uniqueIds[m.id])
  <2>1. matches' = (matches \ {k}) \cup {m}
    BY <1>1, <1>4 DEF AddDuplicate
  <2>2. \A id \in Ids \ {m.id} : SameId(id)' = SameId(id)
    BY <1>1, <2>1 DEF SameId
  <2>3. m \in SameId(m.id)'
    BY <1>0, <2>1 DEF SameId
  <2>. QED  BY <1>2, <1>4, <2>2, <2>3
<1>. QED  BY <1>3, <1>4

LEMMA NextInv == Inv /\ [Next]_vars => Inv'
<1>. SUFFICES ASSUME Inv, [Next]_vars PROVE Inv'
  OBVIOUS
<1>0. TypeOK /\ FoundIdsStay /\ ListedIdsAreKnown /\ StrongFirstIsUnique
  BY DEF Inv
<1>1. ASSUME NEW r \in Runners, NEW id \in Ids, AddMatch(r, id) PROVE Inv'
  <2>. DEFINE m == [runner |-> r, id |-> id, nr |-> made]
  <2>1. m \in Match /\ m.id = id /\ m.runner = r /\ m.nr = made
    BY <1>0, NewMatch
  <2>2. /\ made' = made + 1 /\ made' \in 0..MaxMatches /\ UNCHANGED loaded
        /\ AddDuplicate(m) \/ AddNew(m) \/ AddPlain(m)
    BY <1>0, <1>1, RunnersAssumption DEF AddMatch, TypeOK
  <2>. HIDE DEF m
  <2>3. matches' \subseteq matches \cup {m}
    BY <2>2 DEF AddDuplicate, AddNew, AddPlain
  <2>4. /\ matches' \subseteq Match /\ loaded' \subseteq Runners
        /\ \A n \in matches' : n.nr < made'
    <3>1. \A n \in matches : n.nr \in Nat /\ n.nr < made
      BY <1>0 DEF TypeOK, Match
    <3>. QED  BY <1>0, <2>1, <2>2, <2>3, <3>1 DEF TypeOK
  <2>5. CASE AddDuplicate(m)
    <3>1. /\ UNCHANGED uniqueIds
          /\ \A i \in Ids \ {id} : SameId(i)' = SameId(i)
          /\ \/ SameId(id)' = SameId(id)
             \/ IsWeak(uniqueIds[id]) /\ m \in SameId(id)'
      BY <2>1, <2>5, DuplicateStep
    <3>2. Known(id)
      BY <2>1, <2>5 DEF AddDuplicate
    <3>3. \A i \in Ids : Known(i)' = Known(i)
      BY <3>1 DEF Known
    <3>4. TypeOK'
      <4>1. \A i \in Ids : Known(i) => uniqueIds[i].nr \in Nat
        BY <1>0 DEF TypeOK, Match, Known
      <4>. QED  BY <1>0, <2>2, <2>4, <3>1, <3>3, <4>1 DEF TypeOK
    <3>5. FoundIdsStay'
      BY <1>0, <3>1, <3>3 DEF FoundIdsStay
    <3>6. ListedIdsAreKnown'
      BY <1>0, <3>1, <3>2, <3>3 DEF ListedIdsAreKnown
    <3>7. StrongFirstIsUnique'
      BY <1>0, <3>1, <3>3 DEF StrongFirstIsUnique, IsWeak
    <3>. QED  BY <3>4, <3>5, <3>6, <3>7 DEF Inv
  <2>6. CASE AddNew(m)
    <3>1. /\ r \in Unique /\ ~Known(id)
          /\ matches' = matches \cup {m} /\ uniqueIds' = [uniqueIds EXCEPT ![id] = m]
      BY <2>1, <2>6 DEF AddNew
    <3>2. uniqueIds' \in [Ids -> Match \cup {NoMatch}] /\ uniqueIds'[id] = m
      BY <1>0, <2>1, <3>1 DEF TypeOK
    <3>3. Known(id)' /\ \A i \in Ids \ {id} : Known(i)' = Known(i) /\ uniqueIds'[i] = uniqueIds[i]
      BY <1>0, <2>1, <3>1, RunnersAssumption DEF TypeOK, Known
    <3>4. \A i \in Ids \ {id} : SameId(i)' = SameId(i)
      BY <2>1, <3>1 DEF SameId
    <3>5. SameId(id)' = {m}
      <4>1. SameId(id) = {}
        BY <1>0, <3>1 DEF ListedIdsAreKnown
      <4>. QED  BY <2>1, <3>1, <4>1 DEF SameId
    <3>6. TypeOK'
      <4>1. \A i \in Ids : Known(i) => uniqueIds[i].nr \in Nat
        BY <1>0 DEF TypeOK, Match, Known
      <4>2. /\ \A i \in Ids : Known(i)' => uniqueIds'[i].nr < made'
            /\ \A i \in Ids : Known(i)' => /\ uniqueIds'[i].id = i
                                           /\ uniqueIds'[i].runner \in Unique
        BY <1>0, <2>1, <2>2, <3>1, <3>2, <3>3, <4>1 DEF TypeOK
      <4>. QED  BY <2>2, <2>4, <3>2, <4>2 DEF TypeOK
    <3>7. FoundIdsStay'
      BY <1>0, <3>3, <3>4, <3>5 DEF FoundIdsStay
    <3>8. ListedIdsAreKnown'
      BY <1>0, <3>3, <3>4 DEF ListedIdsAreKnown
    <3>9. StrongFirstIsUnique'
      BY <1>0, <3>2, <3>3, <3>4, <3>5 DEF StrongFirstIsUnique
    <3>. QED  BY <3>6, <3>7, <3>8, <3>9 DEF Inv
  <2>7. CASE AddPlain(m)
    <3>1. r \notin Unique /\ matches' = matches \cup {m} /\ UNCHANGED uniqueIds
      BY <2>1, <2>7 DEF AddPlain
    <3>2. \A i \in Ids : SameId(i)' = SameId(i) /\ Known(i)' = Known(i)
      BY <2>1, <3>1 DEF SameId, Known
    <3>3. TypeOK'
      <4>1. \A i \in Ids : Known(i) => uniqueIds[i].nr \in Nat
        BY <1>0 DEF TypeOK, Match, Known
      <4>. QED  BY <1>0, <2>2, <2>4, <3>1, <3>2, <4>1 DEF TypeOK
    <3>. QED
      BY <1>0, <3>1, <3>2, <3>3
      DEF Inv, FoundIdsStay, ListedIdsAreKnown, StrongFirstIsUnique
  <2>. QED  BY <2>2, <2>5, <2>6, <2>7
<1>2. CASE Reset
  BY <1>0, <1>2, RunnersAssumption
  DEF Reset, Inv, TypeOK, FoundIdsStay, ListedIdsAreKnown, StrongFirstIsUnique, NoIds,
      Known, SameId
<1>3. ASSUME NEW r \in Runners, DeleteRunner(r) PROVE Inv'
  BY <1>0, <1>3
  DEF DeleteRunner, Inv, TypeOK, FoundIdsStay, ListedIdsAreKnown, StrongFirstIsUnique,
      Known, SameId
<1>4. CASE UNCHANGED vars
  BY <1>0, <1>4
  DEF vars, Inv, TypeOK, FoundIdsStay, ListedIdsAreKnown, StrongFirstIsUnique,
      Known, SameId
<1>. QED  BY <1>1, <1>2, <1>3, <1>4 DEF Next

\* Every known id has a match of a runner with unique results, and every match is newer
\* than those that were made before it.
THEOREM TypeTheorem == Spec => []TypeOK
<1>1. Inv => TypeOK
  BY DEF Inv
<1>. QED  BY <1>1, InitInv, NextInv, PTL DEF Spec

\* A match of a runner with unique results is only listed with its id being known, so that
\* a later duplicate of it is recognised.
THEOREM ListedIdsTheorem == Spec => []ListedIdsAreKnown
<1>1. Inv => ListedIdsAreKnown
  BY DEF Inv
<1>. QED  BY <1>1, InitInv, NextInv, PTL DEF Spec

\* An id that was found stays in the list until the next reset, whichever runners
\* add duplicates of it in whatever order and whichever of them are deleted.
THEOREM FoundIdsStayTheorem == Spec => []FoundIdsStay
<1>1. Inv => FoundIdsStay
  BY DEF Inv
<1>. QED  BY <1>1, InitInv, NextInv, PTL DEF Spec

\* A strong match that was found first remains the only one of its id.
THEOREM StrongFirstTheorem == Spec => []StrongFirstIsUnique
<1>1. Inv => StrongFirstIsUnique
  BY DEF Inv
<1>. QED  BY <1>1, InitInv, NextInv, PTL DEF Spec

\* Between resets a match only leaves the list when it is weak and a newer match of
\* its id takes its place.
THEOREM OnlyWeakTheorem == Spec => OnlyWeakIsReplaced
<1>. DEFINE Replaced ==
       \A m \in matches \ matches' :
          \/ matches' = {} /\ uniqueIds' = NoIds
          \/ /\ m.runner \in Unique \cap Weak
             /\ \E n \in matches' : n.id = m.id /\ n.nr >= made /\ n.runner \in Unique
<1>1. ASSUME Inv, Next PROVE Replaced
  <2>1. ASSUME NEW r \in Runners, NEW id \in Ids, AddMatch(r, id) PROVE Replaced
    <3>. DEFINE m == [runner |-> r, id |-> id, nr |-> made]
    <3>1. /\ m.id = id /\ m.runner = r /\ m.nr = made /\ made \in Nat
          /\ AddDuplicate(m) \/ AddNew(m) \/ AddPlain(m)
      BY <1>1, <2>1, RunnersAssumption DEF AddMatch, Inv, TypeOK
    <3>. HIDE DEF m
    <3>2. CASE AddNew(m) \/ AddPlain(m)
      BY <3>2 DEF AddNew, AddPlain
    <3>3. CASE AddDuplicate(m)
      <4>1. /\ r \in Unique /\ Known(id)
            /\ matches' = IF IsWeak(uniqueIds[id])
                          THEN (matches \ {uniqueIds[id]}) \cup {m} ELSE matches
        BY <3>1, <3>3 DEF AddDuplicate
      <4>2. uniqueIds[id].id = id /\ uniqueIds[id].runner \in Unique
        BY <1>1, <4>1 DEF Inv, TypeOK
      <4>3. CASE IsWeak(uniqueIds[id])
        <5>1. m \in matches' /\ m.nr >= made
          BY <3>1, <4>1, <4>3
        <5>2. \A x \in matches \ matches' : x = uniqueIds[id]
          BY <4>1, <4>3
        <5>. QED  BY <3>1, <4>1, <4>2, <4>3, <5>1, <5>2 DEF IsWeak
      <4>. QED  BY <4>1, <4>3
    <3>. QED  BY <3>1, <3>2, <3>3
  <2>2. CASE Reset
    BY <2>2 DEF Reset
  <2>3. ASSUME NEW r \in Runners, DeleteRunner(r) PROVE Replaced
    BY <2>3 DEF DeleteRunner
  <2>. QED  BY <1>1, <2>1, <2>2, <2>3 DEF Next
<1>2. Inv /\ [Next]_vars => [Replaced]_vars
  BY <1>1
<1>. QED  BY <1>2, InitInv, NextInv, PTL DEF Spec, OnlyWeakIsReplaced

=============================================================================
