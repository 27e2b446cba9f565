---------------------------- MODULE SurfaceProofs ----------------------------
(***************************************************************************)
(* What Surface guarantees for any number of attributes, values, buffers    *)
(* and mappings.                                                            *)
(***************************************************************************)
EXTENDS Surface, FiniteSetTheorems, TLAPS

\* Buffers and mappings: the counts are right, a buffer that is gone is in no mapping, and a
\* pool that is in use has one.
RefsOK ==
  /\ held \subseteq Buffers /\ refs \in [Buffers -> Nat]
  /\ area \in [Buffers -> Areas \cup {NoArea}]
  /\ pool \in BOOLEAN /\ failed \in BOOLEAN
  /\ poolArea \in Areas \cup {NoArea} /\ areaRefs \in [Areas -> Nat]
  /\ buffer \in Buffers \cup {NoBuffer} /\ pendingBuffer \in Buffers \cup {NoBuffer}
  /\ RefsCounted
  /\ \A b \in Buffers : refs[b] = 0 => area[b] = NoArea
  /\ pool /\ ~ failed => poolArea # NoArea
  /\ ~ pool => poolArea = NoArea

\* The surface's states, and the buffers surfaces that are gone have not given back, none of
\* which it shows.
StateOK ==
  /\ alive \in BOOLEAN
  /\ pending \in [Attrs -> AttrValues] /\ current \in [Attrs -> AttrValues]
  /\ marked \subseteq Fields
  /\ buffer \in Buffers \cup {NoBuffer} /\ pendingBuffer \in Buffers \cup {NoBuffer}
  /\ busy \subseteq Buffers
  /\ stranded \subseteq Buffers \ {buffer}
  /\ windowed \in BOOLEAN /\ viewSize \in Sizes
  /\ viewport \in BOOLEAN /\ left \in BOOLEAN /\ undefined \in BOOLEAN
  /\ DifferencesAreMarked /\ BusyIsCurrent /\ ViewFitsContent

IInv == RefsOK /\ StateOK

-----------------------------------------------------------------------------
(* Reference counts.                                                        *)

LEMMA UsersFinite ==
  ASSUME NEW a
  PROVE  IsFiniteSet(Users(a)) /\ Cardinality(Users(a)) \in Nat
<1>1. Users(a) \in SUBSET Buffers
  BY DEF Users
<1>2. IsFiniteSet(Buffers)
  BY BuffersAssumption
<1>3. IsFiniteSet(Users(a))
  BY <1>1, <1>2, FS_Subset
<1> QED BY <1>3, FS_CardinalityType

\* Buffers get counts that revive none: the mappings' counts stay right.
LEMMA SetRefsCounts ==
  ASSUME RefsOK, NEW r \in [Buffers -> Nat], \A b \in Buffers : r[b] > 0 => refs[b] > 0,
         SetRefs(r), UNCHANGED poolArea
  PROVE  /\ refs' = r
         /\ area' \in [Buffers -> Areas \cup {NoArea}]
         /\ areaRefs' \in [Areas -> Nat]
         /\ \A a \in Areas : areaRefs'[a] = Cardinality(Users(a)') + One(a = poolArea')
         /\ \A b \in Buffers : r[b] > 0 => area'[b] # NoArea
         /\ \A b \in Buffers : r[b] = 0 => area'[b] = NoArea
<1> DEFINE dead == {b \in Buffers : refs[b] > 0 /\ r[b] = 0}
<1>1. /\ refs' = r
      /\ area' = [b \in Buffers |-> IF b \in dead THEN NoArea ELSE area[b]]
      /\ areaRefs' = [a \in Areas |-> areaRefs[a] - Cardinality({b \in dead : area[b] = a})]
  BY DEF SetRefs
<1>2. area' \in [Buffers -> Areas \cup {NoArea}]
  BY <1>1 DEF RefsOK
<1>3. ASSUME NEW a \in Areas
      PROVE  /\ areaRefs'[a] \in Nat
             /\ areaRefs'[a] = Cardinality(Users(a)') + One(a = poolArea')
  <2> DEFINE gone == {b \in dead : area[b] = a}
  <2>1. Users(a)' = Users(a) \ gone /\ Users(a) \cap gone = gone
    BY <1>1, AreasAssumption DEF Users
  <2>2. Cardinality(Users(a) \ gone) = Cardinality(Users(a)) - Cardinality(Users(a) \cap gone)
    BY UsersFinite, FS_Difference
  <2>3. IsFiniteSet(Users(a) \ gone)
    BY UsersFinite, FS_Difference
  <2>4. Cardinality(Users(a)') \in Nat
    BY <2>1, <2>3, FS_CardinalityType
  <2>5. IsFiniteSet(gone)
    BY <2>1, UsersFinite, FS_Intersection
  <2>6. Cardinality(gone) \in Nat /\ Cardinality(Users(a)) \in Nat
    BY <2>5, UsersFinite, FS_CardinalityType
  <2>7. areaRefs[a] = Cardinality(Users(a)) + One(a = poolArea)
    BY DEF RefsOK, RefsCounted
  <2>8. areaRefs'[a] = areaRefs[a] - Cardinality(gone)
    BY <1>1
  <2> HIDE DEF gone
  <2>9. Cardinality(Users(a)') = Cardinality(Users(a)) - Cardinality(gone)
    BY <2>1, <2>2
  <2>10. One(a = poolArea) \in Nat /\ One(a = poolArea') = One(a = poolArea)
    BY DEF One
  <2>11. areaRefs'[a] = Cardinality(Users(a)') + One(a = poolArea)
    BY <2>6, <2>7, <2>8, <2>9, <2>10
  <2> QED BY <2>4, <2>10, <2>11
<1>4. areaRefs' \in [Areas -> Nat]
  BY <1>1, <1>3
<1>5. \A b \in Buffers : r[b] > 0 => area'[b] # NoArea
  BY <1>1 DEF RefsOK, RefsCounted
<1>6. \A b \in Buffers : r[b] = 0 => area'[b] = NoArea
  BY <1>1 DEF RefsOK
<1> QED BY <1>1, <1>2, <1>3, <1>4, <1>5, <1>6

LEMMA RemapCounts ==
  ASSUME RefsOK, Remap, UNCHANGED area
  PROVE  /\ poolArea' \in Areas \cup {NoArea} /\ areaRefs' \in [Areas -> Nat]
         /\ \A a \in Areas : areaRefs'[a] = Cardinality(Users(a)') + One(a = poolArea')
         /\ failed' \in BOOLEAN
         /\ ~ failed' => poolArea' # NoArea
<1>0. \A a \in Areas : /\ areaRefs[a] = Cardinality(Users(a)) + One(a = poolArea)
                       /\ Cardinality(Users(a)) \in Nat /\ Users(a)' = Users(a)
  <2>1. \A a \in Areas : Users(a)' = Users(a)
    BY DEF Users
  <2> QED BY <2>1, UsersFinite DEF RefsOK, RefsCounted
<1>1. CASE UNCHANGED <<poolArea, areaRefs>> /\ failed'
  BY <1>0, <1>1 DEF RefsOK
<1>2. ASSUME NEW a \in Areas, areaRefs[a] = 0, areaRefs' = Rebind(areaRefs, poolArea, a),
             poolArea' = a, UNCHANGED failed
      PROVE  /\ areaRefs' \in [Areas -> Nat]
             /\ \A x \in Areas : areaRefs'[x] = Cardinality(Users(x)') + One(x = poolArea')
  <2>1. a # poolArea
    BY <1>0, <1>2 DEF One
  <2>2. \A x \in Areas : areaRefs'[x] = (areaRefs[x] + IF x = a THEN 1 ELSE 0) - IF x = poolArea THEN 1 ELSE 0
    BY <1>2 DEF Rebind, RefsOK
  <2>3. \A x \in Areas : areaRefs'[x] = Cardinality(Users(x)') + One(x = poolArea')
    BY <1>0, <1>2, <2>1, <2>2 DEF One
  <2>4. areaRefs' \in [Areas -> Nat]
    <3>1. areaRefs' = [x \in Areas |-> areaRefs'[x]]
      BY <1>2 DEF Rebind, RefsOK
    <3> QED BY <1>0, <2>3, <3>1 DEF One
  <2> QED BY <2>3, <2>4
<1>3. CASE failed' /\ poolArea' = NoArea /\ areaRefs' = Rebind(areaRefs, poolArea, NoArea)
  <2>1. \A x \in Areas : areaRefs'[x] = (areaRefs[x] + One(x = NoArea)) - One(x = poolArea)
    BY <1>3 DEF Rebind, RefsOK, One
  <2>2. \A x \in Areas : areaRefs'[x] = Cardinality(Users(x)') + One(x = poolArea')
    BY <1>0, <1>3, <2>1, AreasAssumption DEF One
  <2>3. areaRefs' = [x \in Areas |-> areaRefs'[x]]
    BY <1>3 DEF Rebind, RefsOK
  <2>4. areaRefs' \in [Areas -> Nat]
    BY <1>0, <2>2, <2>3 DEF One
  <2> QED BY <1>3, <2>2, <2>4 DEF Remap
<1> QED BY <1>1, <1>2, <1>3, AreasAssumption DEF Remap, RefsOK

\* The counts are set to what the client and the states hold.
LEMMA SetRefsOK ==
  ASSUME RefsOK, NEW r \in [Buffers -> Nat], \A b \in Buffers : r[b] > 0 => refs[b] > 0,
         SetRefs(r), UNCHANGED <<pool, poolArea, failed>>, held' \subseteq Buffers,
         buffer' \in Buffers \cup {NoBuffer}, pendingBuffer' \in Buffers \cup {NoBuffer},
         \A b \in Buffers : r[b] = One(b \in held') + One(b = buffer') + One(b = pendingBuffer')
  PROVE  RefsOK'
<1>1. /\ refs' = r
      /\ area' \in [Buffers -> Areas \cup {NoArea}]
      /\ areaRefs' \in [Areas -> Nat]
      /\ \A a \in Areas : areaRefs'[a] = Cardinality(Users(a)') + One(a = poolArea')
      /\ \A b \in Buffers : r[b] > 0 => area'[b] # NoArea
      /\ \A b \in Buffers : r[b] = 0 => area'[b] = NoArea
  BY SetRefsCounts
<1>2. RefsCounted'
  BY <1>1 DEF RefsCounted, One
<1> QED BY <1>1, <1>2 DEF RefsOK

\* Rebind, of the buffers' counts.
LEMMA RebindRefs ==
  ASSUME NEW c \in [Buffers -> Int], NEW old, NEW new
  PROVE  /\ Rebind(c, old, new) \in [Buffers -> Int]
         /\ \A b \in Buffers : Rebind(c, old, new)[b] = (c[b] + One(b = new)) - One(b = old)
  BY DEF Rebind, One

LEMMA ShmStep ==
  ASSUME RefsOK, ShmNext
  PROVE  RefsOK'
<1>1. CASE CreatePool \/ ResizePool
  <2>1. /\ Remap /\ pool' = TRUE
        /\ UNCHANGED <<pendingBuffer, buffer, held, refs, area>>
    BY <1>1 DEF CreatePool, ResizePool, RefsOK
  <2>2. /\ poolArea' \in Areas \cup {NoArea} /\ areaRefs' \in [Areas -> Nat]
        /\ \A a \in Areas : areaRefs'[a] = Cardinality(Users(a)') + One(a = poolArea')
        /\ failed' \in BOOLEAN
        /\ ~ failed' => poolArea' # NoArea
    BY <2>1, RemapCounts
  <2>3. RefsCounted'
    BY <2>1, <2>2 DEF RefsOK, RefsCounted, One
  <2> QED BY <2>1, <2>2, <2>3 DEF RefsOK
<1>2. CASE DestroyPool
  <2>1. /\ pool' = FALSE /\ poolArea' = NoArea /\ areaRefs' = Rebind(areaRefs, poolArea, NoArea)
        /\ UNCHANGED <<pendingBuffer, buffer, held, refs, area, failed>>
    BY <1>2 DEF DestroyPool
  <2>2. \A a \in Areas : Users(a)' = Users(a)
    BY <2>1 DEF Users
  <2>3. \A a \in Areas : /\ areaRefs[a] = Cardinality(Users(a)) + One(a = poolArea)
                         /\ Cardinality(Users(a)) \in Nat
    BY UsersFinite DEF RefsOK, RefsCounted
  <2>4. \A a \in Areas : areaRefs'[a] = (areaRefs[a] + One(a = NoArea)) - One(a = poolArea)
    BY <2>1 DEF RefsOK, Rebind, One
  <2>5. \A a \in Areas : areaRefs'[a] = Cardinality(Users(a)') + One(a = poolArea')
    BY <2>1, <2>2, <2>3, <2>4, AreasAssumption DEF One
  <2>6. areaRefs' \in [Areas -> Nat]
    <3>1. areaRefs' = [x \in Areas |-> areaRefs'[x]]
      BY <2>1 DEF Rebind, RefsOK
    <3>2. \A a \in Areas : areaRefs'[a] \in Nat
      BY <2>2, <2>3, <2>5 DEF One
    <3> QED BY <3>1, <3>2
  <2>7. RefsCounted'
    BY <2>1, <2>5 DEF RefsOK, RefsCounted, One
  <2> QED BY <2>1, <2>6, <2>7 DEF RefsOK
<1>3. ASSUME NEW b \in Buffers, CreateBuffer(b)  PROVE RefsOK'
  <2>1. /\ pool /\ ~ failed /\ refs[b] = 0 /\ refs' = [refs EXCEPT ![b] = 1]
        /\ held' = held \cup {b} /\ area' = [area EXCEPT ![b] = poolArea]
        /\ areaRefs' = Rebind(areaRefs, NoArea, poolArea)
        /\ UNCHANGED <<pendingBuffer, buffer, pool, poolArea, failed>>
    BY <1>3 DEF CreateBuffer, Served
  <2>2. poolArea \in Areas /\ area[b] = NoArea
    BY <2>1 DEF RefsOK
  <2>3. Users(poolArea)' = Users(poolArea) \cup {b} /\ b \notin Users(poolArea)
    BY <2>1, <2>2, AreasAssumption DEF Users, RefsOK
  <2>4. \A a \in Areas \ {poolArea} : Users(a)' = Users(a)
    BY <2>1, <2>2, AreasAssumption DEF Users, RefsOK
  <2>5. \A a \in Areas : Cardinality(Users(a)') = Cardinality(Users(a)) + One(a = poolArea)
    <3>1. ASSUME NEW a \in Areas  PROVE Cardinality(Users(a)') = Cardinality(Users(a)) + One(a = poolArea)
      <4>1. CASE a = poolArea
        <5>1. Cardinality(Users(a) \cup {b}) = Cardinality(Users(a)) + 1
          BY <2>3, <4>1, UsersFinite, FS_AddElement
        <5>2. Users(a)' = Users(a) \cup {b}
          BY <2>1, <2>3, <4>1 DEF Users
        <5> QED BY <4>1, <5>1, <5>2 DEF One
      <4>2. CASE a # poolArea
        <5>1. Users(a)' = Users(a) /\ Cardinality(Users(a)) \in Nat
          BY <2>4, <4>2, UsersFinite
        <5> QED BY <4>2, <5>1 DEF One
      <4> QED BY <4>1, <4>2
    <3> QED BY <3>1
  <2>6. \A a \in Areas : areaRefs'[a] = (areaRefs[a] + One(a = poolArea)) - One(a = NoArea)
    BY <2>1 DEF RefsOK, Rebind, One
  <2>7. \A a \in Areas : /\ areaRefs[a] = Cardinality(Users(a)) + One(a = poolArea)
                         /\ Cardinality(Users(a)) \in Nat
    BY UsersFinite DEF RefsOK, RefsCounted
  <2>8. \A a \in Areas : /\ areaRefs'[a] = Cardinality(Users(a)') + One(a = poolArea')
                         /\ areaRefs'[a] \in Nat
    BY <2>1, <2>5, <2>6, <2>7, AreasAssumption DEF One
  <2>9. areaRefs' \in [Areas -> Nat]
    BY <2>1, <2>8 DEF Rebind, RefsOK
  <2>10. \A x \in Buffers : refs'[x] = One(x \in held') + One(x = buffer') + One(x = pendingBuffer')
    BY <2>1 DEF RefsOK, RefsCounted, One
  <2>11. \A x \in Buffers : refs'[x] > 0 => area'[x] # NoArea
    BY <2>1, <2>2, AreasAssumption DEF RefsOK, RefsCounted
  <2>12. RefsCounted'
    BY <2>8, <2>10, <2>11 DEF RefsCounted
  <2>13. /\ refs' \in [Buffers -> Nat] /\ area' \in [Buffers -> Areas \cup {NoArea}]
         /\ \A x \in Buffers : refs'[x] = 0 => area'[x] = NoArea
    BY <2>1 DEF RefsOK
  <2> QED BY <2>1, <2>9, <2>12, <2>13 DEF RefsOK
<1>4. CASE CreateBufferFails
  <2>1. failed' /\ failed' \in BOOLEAN /\ UNCHANGED <<pendingBuffer, buffer, shm>>
    BY <1>4 DEF CreateBufferFails
  <2> QED BY <2>1 DEF shm, RefsOK, RefsCounted, Users
<1>5. ASSUME NEW b \in Buffers, DestroyBuffer(b)  PROVE RefsOK'
  <2> DEFINE r == Rebind(refs, b, NoBuffer)
  <2>1. /\ b \in held /\ held' = held \ {b} /\ SetRefs(r)
        /\ UNCHANGED <<pendingBuffer, buffer, pool, poolArea, failed>>
    BY <1>5 DEF DestroyBuffer
  <2>2. /\ r \in [Buffers -> Int]
        /\ \A x \in Buffers : r[x] = (refs[x] + One(x = NoBuffer)) - One(x = b)
    BY RebindRefs DEF RefsOK
  <2> HIDE DEF r
  <2>3. ASSUME NEW x \in Buffers
        PROVE  /\ r[x] = One(x \in held') + One(x = buffer') + One(x = pendingBuffer')
               /\ r[x] \in Nat
               /\ r[x] > 0 => refs[x] > 0
    <3>1. refs[x] = One(x \in held) + One(x = buffer) + One(x = pendingBuffer)
      BY DEF RefsOK, RefsCounted
    <3>2. r[x] = refs[x] - One(x = b)
      BY <2>2, BuffersAssumption DEF One, RefsOK
    <3>3. x \in held' <=> x \in held /\ x # b
      BY <2>1
    <3> QED BY <2>1, <3>1, <3>2, <3>3 DEF One
  <2>4. r \in [Buffers -> Nat]
    BY <2>2, <2>3
  <2>5. /\ held' \subseteq Buffers /\ buffer' \in Buffers \cup {NoBuffer}
        /\ pendingBuffer' \in Buffers \cup {NoBuffer}
        /\ \A x \in Buffers : r[x] > 0 => refs[x] > 0
        /\ \A x \in Buffers : r[x] = One(x \in held') + One(x = buffer') + One(x = pendingBuffer')
    BY <2>1, <2>3 DEF RefsOK
  <2> QED BY <2>1, <2>4, <2>5, SetRefsOK DEF One
<1> QED BY <1>1, <1>2, <1>3, <1>4, <1>5 DEF ShmNext

LEMMA AttachRefs ==
  ASSUME RefsOK, NEW b \in Buffers \cup {NoBuffer}, NEW v, HandleAttach(b, v)
  PROVE  RefsOK'
<1> DEFINE r == Rebind(refs, pendingBuffer, b)
<1>1. /\ b \in held \cup {NoBuffer} /\ pendingBuffer' = b /\ SetRefs(r)
      /\ UNCHANGED <<buffer, held, pool, poolArea, failed>>
  BY DEF HandleAttach
<1>2. /\ r \in [Buffers -> Int]
      /\ \A x \in Buffers : r[x] = (refs[x] + One(x = b)) - One(x = pendingBuffer)
  BY RebindRefs DEF RefsOK
<1> HIDE DEF r
<1>3. ASSUME NEW x \in Buffers
      PROVE  /\ r[x] = One(x \in held') + One(x = buffer') + One(x = pendingBuffer')
             /\ r[x] \in Nat
             /\ r[x] > 0 => refs[x] > 0
  <2>1. refs[x] = One(x \in held) + One(x = buffer) + One(x = pendingBuffer)
    BY DEF RefsOK, RefsCounted
  <2>2. x = b => x \in held
    BY <1>1, BuffersAssumption
  <2> QED BY <1>1, <1>2, <2>1, <2>2 DEF One
<1>4. r \in [Buffers -> Nat]
  BY <1>2, <1>3
<1> QED BY <1>1, <1>3, <1>4, SetRefsOK DEF RefsOK

LEMMA CommitRefs ==
  ASSUME RefsOK, HandleCommit
  PROVE  RefsOK'
<1> DEFINE r == Rebind(refs, buffer, pendingBuffer)
<1>1. UNCHANGED <<pendingBuffer, held, pool, poolArea, failed>>
  BY DEF HandleCommit
<1>2. CASE BufferField \in marked
  <2>1. buffer' = pendingBuffer /\ SetRefs(r)
    BY <1>2 DEF HandleCommit
  <2>2. /\ r \in [Buffers -> Int]
        /\ \A x \in Buffers : r[x] = (refs[x] + One(x = pendingBuffer)) - One(x = buffer)
    BY RebindRefs DEF RefsOK
  <2> HIDE DEF r
  <2>3. ASSUME NEW x \in Buffers
        PROVE  /\ r[x] = One(x \in held') + One(x = buffer') + One(x = pendingBuffer')
               /\ r[x] \in Nat
               /\ r[x] > 0 => refs[x] > 0
    <3>1. refs[x] = One(x \in held) + One(x = buffer) + One(x = pendingBuffer)
      BY DEF RefsOK, RefsCounted
    <3> QED BY <1>1, <2>1, <2>2, <3>1 DEF One
  <2>4. r \in [Buffers -> Nat]
    BY <2>2, <2>3
  <2> QED BY <1>1, <2>1, <2>3, <2>4, SetRefsOK DEF RefsOK
<1>3. CASE BufferField \notin marked
  <2>1. UNCHANGED <<buffer, refs, area, areaRefs>>
    BY <1>3 DEF HandleCommit
  <2> QED BY <1>1, <2>1 DEF RefsOK, RefsCounted, Users
<1> QED BY <1>2, <1>3

LEMMA DestroyRefs ==
  ASSUME RefsOK, DestroySurface
  PROVE  RefsOK'
<1> DEFINE m == Rebind(refs, buffer, NoBuffer)
           r == Rebind(m, pendingBuffer, NoBuffer)
<1>1. /\ buffer' = NoBuffer /\ pendingBuffer' = NoBuffer /\ SetRefs(r)
      /\ UNCHANGED <<held, pool, poolArea, failed>>
  BY DEF DestroySurface
<1>2. /\ m \in [Buffers -> Int]
      /\ \A x \in Buffers : m[x] = (refs[x] + One(x = NoBuffer)) - One(x = buffer)
  BY RebindRefs DEF RefsOK
<1> HIDE DEF m
<1>3. /\ r \in [Buffers -> Int]
      /\ \A x \in Buffers : r[x] = (m[x] + One(x = NoBuffer)) - One(x = pendingBuffer)
  BY <1>2, RebindRefs
<1> HIDE DEF r
<1>4. ASSUME NEW x \in Buffers
      PROVE  /\ r[x] = One(x \in held') + One(x = buffer') + One(x = pendingBuffer')
             /\ r[x] \in Nat
             /\ r[x] > 0 => refs[x] > 0
  <2>1. refs[x] = One(x \in held) + One(x = buffer) + One(x = pendingBuffer)
    BY DEF RefsOK, RefsCounted
  <2>2. x # NoBuffer
    BY BuffersAssumption
  <2> QED BY <1>1, <1>2, <1>3, <2>1, <2>2 DEF One
<1>5. r \in [Buffers -> Nat]
  BY <1>3, <1>4
<1> QED BY <1>1, <1>4, <1>5, SetRefsOK DEF RefsOK

-----------------------------------------------------------------------------
(* The surface's states.                                                    *)

LEMMA CommitState ==
  ASSUME StateOK, HandleCommit
  PROVE  StateOK'
<1>1. /\ marked' = {}
      /\ current' = [a \in Attrs |-> IF a \in marked THEN pending[a] ELSE current[a]]
      /\ pending' = [a \in Attrs |-> IF a \in marked \cap Regions THEN Moved ELSE pending[a]]
      /\ viewSize' = IF windowed THEN Size(current', buffer') ELSE viewSize
      /\ UNCHANGED <<alive, windowed, pendingBuffer, viewports>>
  BY DEF HandleCommit
<1>2. /\ pending' \in [Attrs -> AttrValues] /\ current' \in [Attrs -> AttrValues]
      /\ \A a \in Attrs : current'[a] # Moved /\ pending'[a] \in {current'[a], Moved}
  BY <1>1 DEF StateOK, AttrValues, DifferencesAreMarked
<1>3. /\ buffer' = pendingBuffer /\ BusyIsCurrent'
      /\ busy' \subseteq Buffers /\ stranded' \subseteq Buffers \ {pendingBuffer}
  <2>1. CASE BufferField \in marked
    <3>1. /\ buffer' = pendingBuffer /\ busy' = Busy(buffer, pendingBuffer)
          /\ stranded' = stranded \ {pendingBuffer}
      BY <2>1 DEF HandleCommit
    <3>2. /\ busy = ({buffer} \ {NoBuffer}) \cup stranded
          /\ stranded \subseteq Buffers \ {buffer}
          /\ buffer \in Buffers \cup {NoBuffer} /\ pendingBuffer \in Buffers \cup {NoBuffer}
      BY DEF StateOK, BusyIsCurrent
    <3>3. busy' = ({pendingBuffer} \ {NoBuffer}) \cup (stranded \ {pendingBuffer})
      BY <3>1, <3>2, BuffersAssumption DEF Busy
    <3> QED BY <3>1, <3>2, <3>3 DEF BusyIsCurrent
  <2>2. CASE BufferField \notin marked
    <3>1. UNCHANGED <<buffer, busy, stranded>>
      BY <2>2 DEF HandleCommit, given
    <3> QED BY <2>2, <3>1 DEF StateOK, BusyIsCurrent, DifferencesAreMarked
  <2> QED BY <2>1, <2>2
<1>4. DifferencesAreMarked'
  BY <1>1, <1>2, <1>3 DEF DifferencesAreMarked
<1>5. viewSize' \in Sizes
  BY <1>1, <1>2, <1>3, AttrsAssumption DEF Size, Sizes, AttrValues, StateOK
<1>6. ViewFitsContent'
  <2>1. pending'[Viewport] = pending[Viewport]
    BY <1>1, AttrsAssumption
  <2>2. current'[Viewport] = IF Viewport \in marked THEN pending[Viewport] ELSE current[Viewport]
    BY <1>1, AttrsAssumption
  <2> QED BY <1>1, <2>1, <2>2 DEF StateOK, ViewFitsContent, viewports
<1> QED BY <1>1, <1>2, <1>3, <1>4, <1>5, <1>6 DEF StateOK, viewports

LEMMA AttachState ==
  ASSUME StateOK, NEW b \in Buffers \cup {NoBuffer}, NEW v \in Values, HandleAttach(b, v)
  PROVE  StateOK'
<1>1. /\ pendingBuffer' = b /\ pending' = [pending EXCEPT ![Offset] = v]
      /\ marked' = marked \cup {BufferField, Offset}
      /\ UNCHANGED <<alive, current, windowed, viewSize, buffer, busy, stranded, viewports>>
  BY DEF HandleAttach, given
<1>2. /\ pending' \in [Attrs -> AttrValues] /\ marked' \subseteq Fields
      /\ \A a \in Attrs : pending'[a] = IF a = Offset THEN v ELSE pending[a]
  BY <1>1, AttrsAssumption DEF StateOK, AttrValues, Fields
<1>3. DifferencesAreMarked'
  BY <1>1, <1>2, ValuesAssumption, BufferFieldAssumption DEF StateOK, DifferencesAreMarked
<1>4. ViewFitsContent'
  BY <1>1, <1>2, AttrsAssumption DEF StateOK, ViewFitsContent, viewports, Size
<1> QED BY <1>1, <1>2, <1>3, <1>4 DEF StateOK, BusyIsCurrent, viewports

LEMMA SetAttrState ==
  ASSUME StateOK, NEW a \in Attrs, NEW v \in Values \cup {Unset}, SetAttr(a, v),
         viewport' \in BOOLEAN, UNCHANGED <<left, undefined>>,
         a = Viewport => viewport' \/ v = Unset,
         a # Viewport => viewport' = viewport
  PROVE  StateOK'
<1>1. /\ pending' = [pending EXCEPT ![a] = v] /\ marked' = marked \cup {a}
      /\ UNCHANGED <<alive, current, windowed, viewSize, pendingBuffer, buffer, busy, stranded>>
  BY DEF SetAttr, given
<1>2. /\ pending' \in [Attrs -> AttrValues] /\ marked' \subseteq Fields
      /\ \A x \in Attrs : pending'[x] = IF x = a THEN v ELSE pending[x]
  BY <1>1 DEF StateOK, AttrValues, Fields
<1>3. DifferencesAreMarked'
  BY <1>1, <1>2, ValuesAssumption, BufferFieldAssumption DEF StateOK, DifferencesAreMarked
<1>4. ViewFitsContent'
  BY <1>1, <1>2, AttrsAssumption DEF StateOK, ViewFitsContent, Size
<1> QED BY <1>1, <1>2, <1>3, <1>4 DEF StateOK, BusyIsCurrent

LEMMA DestroyState ==
  ASSUME StateOK, DestroySurface
  PROVE  StateOK'
<1>1. /\ alive' = FALSE /\ pending' = [a \in Attrs |-> Unset] /\ current' = [a \in Attrs |-> Unset]
      /\ marked' = {} /\ pendingBuffer' = NoBuffer /\ buffer' = NoBuffer
      /\ busy' = busy /\ stranded' = stranded \cup ({buffer} \ {NoBuffer})
      /\ windowed' = FALSE /\ viewSize' = Unset /\ viewport' = FALSE
      /\ left' = (left \/ viewport) /\ UNCHANGED undefined
  BY DEF DestroySurface
<1>2. DifferencesAreMarked' /\ ViewFitsContent'
  BY <1>1, ValuesAssumption, AttrsAssumption DEF DifferencesAreMarked, ViewFitsContent, Size
<1>3. pending' \in [Attrs -> AttrValues] /\ current' \in [Attrs -> AttrValues]
  BY <1>1 DEF AttrValues
<1>4. left' \in BOOLEAN
  BY <1>1
<1>5. BusyIsCurrent' /\ busy' \subseteq Buffers /\ stranded' \subseteq Buffers \ {buffer'}
  BY <1>1, BuffersAssumption DEF StateOK, BusyIsCurrent
<1> QED BY <1>1, <1>2, <1>3, <1>4, <1>5 DEF StateOK, Sizes

-----------------------------------------------------------------------------
(* The specification.                                                       *)

LEMMA InitIInv == Init => IInv
<1> SUFFICES ASSUME Init PROVE IInv
  OBVIOUS
<1>1. \A a : Users(a) = {} \/ a = NoArea
  BY DEF Init, Users
<1>2. \A a \in Areas : Cardinality(Users(a)) = 0
  BY <1>1, FS_EmptySet, AreasAssumption
<1>3. RefsCounted
  BY <1>2, BuffersAssumption, AreasAssumption DEF Init, RefsCounted, One
<1>4. DifferencesAreMarked /\ BusyIsCurrent /\ ViewFitsContent
  BY ValuesAssumption, AttrsAssumption DEF Init, DifferencesAreMarked, BusyIsCurrent, ViewFitsContent, Size
<1> QED BY <1>3, <1>4 DEF Init, IInv, RefsOK, StateOK, AttrValues, Sizes, Fields

LEMMA NextIInv == IInv /\ [Next]_vars => IInv'
<1> SUFFICES ASSUME IInv, [Next]_vars  PROVE IInv'
  OBVIOUS
<1>0. RefsOK /\ StateOK
  BY DEF IInv
<1>1. CASE UNCHANGED vars
  BY <1>1 DEF vars, state, shm, given, viewports, IInv, RefsOK, RefsCounted, Users, StateOK,
              DifferencesAreMarked, BusyIsCurrent, ViewFitsContent
<1>2. CASE ShmNext
  <2>1. UNCHANGED <<alive, state, pendingBuffer, buffer, viewports>>
    BY <1>2 DEF ShmNext, CreatePool, ResizePool, DestroyPool, CreateBuffer, DestroyBuffer, CreateBufferFails
  <2>2. /\ BusyIsCurrent' /\ busy' \subseteq Buffers
        /\ stranded' \subseteq Buffers \ {buffer}
    <3>1. CASE UNCHANGED given
      BY <1>0, <2>1, <3>1 DEF given, StateOK, BusyIsCurrent
    <3>2. ASSUME NEW b \in Buffers, CreateBuffer(b)
          PROVE  b # buffer /\ busy' = busy \ {b} /\ stranded' = stranded \ {b}
      BY <1>0, <3>2 DEF CreateBuffer, RefsOK, RefsCounted, One
    <3>3. ASSUME NEW b \in Buffers, CreateBuffer(b)
          PROVE  /\ BusyIsCurrent' /\ busy' \subseteq Buffers
                 /\ stranded' \subseteq Buffers \ {buffer}
      BY <1>0, <2>1, <3>2, <3>3 DEF StateOK, BusyIsCurrent
    <3> QED BY <1>2, <3>1, <3>3 DEF ShmNext, CreatePool, ResizePool, DestroyPool, DestroyBuffer, CreateBufferFails
  <2>3. StateOK'
    BY <1>0, <2>1, <2>2 DEF state, viewports, StateOK, DifferencesAreMarked, ViewFitsContent
  <2> QED BY <1>0, <1>2, <2>3, ShmStep DEF IInv
<1>3. ASSUME UNCHANGED <<pendingBuffer, buffer, shm, failed>>  PROVE RefsOK'
  BY <1>0, <1>3 DEF shm, RefsOK, RefsCounted, Users
<1>4. CASE CreateSurface \/ AttachView \/ LeaveWindow \/ GetViewport \/ DestroyLeftViewport
  <2>1. /\ UNCHANGED <<pending, current, marked, pendingBuffer, buffer, shm, busy, stranded, failed>>
        /\ alive' \in BOOLEAN /\ windowed' \in BOOLEAN /\ viewport' \in BOOLEAN
        /\ left' \in BOOLEAN /\ undefined' \in BOOLEAN
        /\ viewport => viewport'
        /\ viewSize' \in {viewSize, Unset} /\ (windowed' => windowed \/ viewSize' = Unset)
        /\ windowed /\ windowed' => viewSize' = viewSize
    <3>1. CASE CreateSurface
      BY <1>0, <3>1 DEF CreateSurface, given, state, viewports, StateOK
    <3>2. CASE GetViewport
      BY <1>0, <3>2 DEF GetViewport, given, state, StateOK
    <3>3. CASE DestroyLeftViewport
      BY <1>0, <3>3 DEF DestroyLeftViewport, given, state, StateOK
    <3>4. CASE AttachView
      BY <1>0, <3>4 DEF AttachView, given, viewports, StateOK
    <3>5. CASE LeaveWindow
      BY <1>0, <3>5 DEF LeaveWindow, given, viewports, StateOK
    <3> QED BY <1>4, <3>1, <3>2, <3>3, <3>4, <3>5
  <2>2. StateOK'
    BY <1>0, <2>1 DEF StateOK, DifferencesAreMarked, BusyIsCurrent, ViewFitsContent, Sizes
  <2> QED BY <1>3, <2>1, <2>2 DEF IInv
<1>5. CASE HandleCommit
  BY <1>0, <1>5, CommitRefs, CommitState DEF IInv
<1>6. CASE DestroySurface
  BY <1>0, <1>6, DestroyRefs, DestroyState DEF IInv
<1>7. ASSUME NEW a \in Attrs, NEW v \in Values \cup {Unset}, HandleSet(a, v)  PROVE IInv'
  <2>1. SetAttr(a, v) /\ a # Viewport /\ UNCHANGED <<viewport, left, undefined>>
    BY <1>7 DEF HandleSet, viewports
  <2> QED BY <1>0, <1>3, <2>1, SetAttrState DEF IInv, SetAttr, StateOK
<1>8. ASSUME NEW b \in Buffers \cup {NoBuffer}, NEW v \in Values, HandleAttach(b, v)  PROVE IInv'
  BY <1>0, <1>8, AttachRefs, AttachState DEF IInv
<1>9. ASSUME NEW v \in Values \cup {Unset}, SetViewport(v)  PROVE IInv'
  <2>1. SetAttr(Viewport, v) /\ viewport /\ UNCHANGED <<viewport, left, undefined>>
    BY <1>9 DEF SetViewport, viewports
  <2> QED BY <1>0, <1>3, <2>1, AttrsAssumption, SetAttrState DEF IInv, SetAttr, StateOK
<1>10. CASE DestroyViewport
  <2>1. SetAttr(Viewport, Unset) /\ viewport' = FALSE /\ UNCHANGED <<left, undefined>>
    BY <1>10 DEF DestroyViewport
  <2> QED BY <1>0, <1>3, <2>1, AttrsAssumption, SetAttrState DEF IInv, SetAttr
<1> QED BY <1>1, <1>2, <1>4, <1>5, <1>6, <1>7, <1>8, <1>9, <1>10 DEF Next, SurfaceNext, ViewportNext

\* The inductive invariant: the counts and the states before and after every request.
THEOREM Invariance == Spec => []IInv
<1>1. Init => IInv
  BY InitIInv
<1>2. IInv /\ [Next]_vars => IInv'
  BY NextIInv
<1> QED BY <1>1, <1>2, PTL DEF Spec

\* TypeOK holds; no count gets below 0.
THEOREM TypeCorrect == Spec => []TypeOK
<1>1. IInv => TypeOK
  BY DEF IInv, RefsOK, StateOK, TypeOK
<1> QED BY <1>1, Invariance, PTL

\* A commit misses nothing and takes nothing that was not asked for
\* (HaikuCompositor.cpp:401-502).
THEOREM DifferencesAreMarkedCorrect == Spec => []DifferencesAreMarked
<1>1. IInv => DifferencesAreMarked
  BY DEF IInv, StateOK
<1> QED BY <1>1, Invariance, PTL

\* A buffer is kept from the client exactly as long as its surface shows it, or was shown by
\* one that was destroyed and has not been shown and replaced since: destroying a surface is
\* the only thing that keeps a buffer from the client for ever
\* (HaikuCompositor.cpp:301-316, 473-476).
THEOREM BusyIsCurrentCorrect == Spec => []BusyIsCurrent
<1>1. IInv => BusyIsCurrent
  BY DEF IInv, StateOK
<1> QED BY <1>1, Invariance, PTL

\* Buffers and mappings live exactly as long as somebody has them, for any number of buffers,
\* pools and resizes one after the other (HaikuShm.cpp:77-122).
THEOREM RefsCountedCorrect == Spec => []RefsCounted
<1>1. IInv => RefsCounted
  BY DEF IInv, RefsOK
<1> QED BY <1>1, Invariance, PTL

\* A view that was sized has the size of what it shows (HaikuCompositor.cpp:318-327, 504-513).
THEOREM ViewFitsContentCorrect == Spec => []ViewFitsContent
<1>1. IInv => ViewFitsContent
  BY DEF IInv, StateOK
<1> QED BY <1>1, Invariance, PTL
=============================================================================
