------------------------ MODULE UpdateChecker_proofs ------------------------
(***************************************************************************)
(* Theorems about UpdateChecker for any threads, publications and times.   *)
(***************************************************************************)
EXTENDS UpdateChecker, TLAPS, FiniteSetTheorems, NaturalsInduction,
        WellFoundedInduction, SequenceTheorems

-----------------------------------------------------------------------------
(* The order of versions                                                   *)

\* A set of natural numbers has a least one, unless it is empty.
LEMMA LeastNumber ==
  ASSUME NEW T \in SUBSET Nat, T # {} PROVE \E n \in T : \A m \in T : n <= m
<1> DEFINE R == OpToRel(<, Nat)
<1>1. IsWellFoundedOn(R, Nat)
  BY NatLessThanWellFounded
<1>2. PICK n \in T : \A m \in T : ~(<<m, n>> \in R)
  BY <1>1, WFMin
<1>3. \A m \in T : ~(m < n)
  BY <1>2 DEF OpToRel
<1> QED
  BY <1>3

\* Two identifiers are equal or one of them precedes the other.
LEMMA IdentifiersOrdered ==
  /\ \A a \in Identifiers : ~IdentifierPrecedes(a, a)
  /\ \A a, b, c \in Identifiers :
       IdentifierPrecedes(a, b) /\ IdentifierPrecedes(b, c) => IdentifierPrecedes(a, c)
  /\ \A a, b \in Identifiers :
       a # b => IdentifierPrecedes(a, b) \/ IdentifierPrecedes(b, a)
<1>1. \A a \in Identifiers : ~IdentifierPrecedes(a, a)
  BY DEF Identifiers, IdentifierPrecedes
<1>2. ASSUME NEW a \in Identifiers, NEW b \in Identifiers, NEW c \in Identifiers,
             IdentifierPrecedes(a, b), IdentifierPrecedes(b, c)
      PROVE  IdentifierPrecedes(a, c)
  BY <1>2 DEF Identifiers, IdentifierPrecedes
<1>3. ASSUME NEW a \in Identifiers, NEW b \in Identifiers, a # b
      PROVE  IdentifierPrecedes(a, b) \/ IdentifierPrecedes(b, a)
  BY <1>3 DEF Identifiers, IdentifierPrecedes
<1> QED
  BY <1>1, <1>2, <1>3

\* A list of identifiers does not precede itself.
LEMMA ListIrreflexive == ASSUME NEW s \in Seq(Identifiers) PROVE ~LexPrecedes(s, s)
BY IdentifiersOrdered DEF LexPrecedes

\* Of three lists the first precedes the third.
LEMMA ListTransitive ==
  ASSUME NEW s \in Seq(Identifiers), NEW t \in Seq(Identifiers), NEW u \in Seq(Identifiers),
         LexPrecedes(s, t), LexPrecedes(t, u)
  PROVE  LexPrecedes(s, u)
<1>1. PICK i \in 1 .. Len(t) :
        /\ i <= Len(s) + 1
        /\ \A j \in 1 .. (i - 1) : s[j] = t[j]
        /\ i <= Len(s) => IdentifierPrecedes(s[i], t[i])
  BY DEF LexPrecedes
<1>2. PICK k \in 1 .. Len(u) :
        /\ k <= Len(t) + 1
        /\ \A j \in 1 .. (k - 1) : t[j] = u[j]
        /\ k <= Len(t) => IdentifierPrecedes(t[k], u[k])
  BY DEF LexPrecedes
<1>3. CASE i < k
  <2>1. i \in 1 .. Len(u) /\ t[i] = u[i] /\ \A j \in 1 .. (i - 1) : s[j] = u[j]
    BY <1>1, <1>2, <1>3
  <2> QED
    BY <1>1, <2>1 DEF LexPrecedes
<1>4. CASE k < i
  <2>1. k \in 1 .. Len(t) /\ k <= Len(s) + 1 /\ s[k] = t[k]
        /\ \A j \in 1 .. (k - 1) : s[j] = u[j]
    BY <1>1, <1>2, <1>4
  <2> QED
    BY <1>2, <2>1 DEF LexPrecedes
<1>5. CASE i = k
  <2>1. \A j \in 1 .. (k - 1) : s[j] = u[j]
    BY <1>1, <1>2, <1>5
  <2>2. ASSUME k <= Len(s) PROVE IdentifierPrecedes(s[k], u[k])
    <3>1. s[k] \in Identifiers /\ t[k] \in Identifiers /\ u[k] \in Identifiers
      BY <1>1, <1>2, <1>5, <2>2
    <3> QED
      BY <1>1, <1>2, <1>5, <2>2, <3>1, IdentifiersOrdered
  <2> QED
    BY <1>1, <1>2, <1>5, <2>1, <2>2 DEF LexPrecedes
<1> QED
  BY <1>1, <1>2, <1>3, <1>4, <1>5

\* Two different lists differ at a first place, and it decides.
LEMMA ListTotal ==
  ASSUME NEW s \in Seq(Identifiers), NEW t \in Seq(Identifiers), s # t
  PROVE  LexPrecedes(s, t) \/ LexPrecedes(t, s)
<1> DEFINE D == {i \in Nat \ {0} : i > Len(s) \/ i > Len(t) \/ s[i] # t[i]}
<1>1. D \in SUBSET Nat /\ Len(s) + 1 \in D /\ Len(t) + 1 \in D
  OBVIOUS
<1>2. PICK i \in D : \A j \in D : i <= j
  <2> HIDE DEF D
  <2> QED
    BY <1>1, LeastNumber
<1>3. i \in Nat \ {0} /\ i <= Len(s) + 1 /\ i <= Len(t) + 1
  BY <1>1, <1>2
<1>4. \A j \in 1 .. (i - 1) : s[j] = t[j]
  BY <1>2, <1>3
<1>5. CASE i <= Len(s) /\ i <= Len(t)
  <2>1. s[i] # t[i] /\ s[i] \in Identifiers /\ t[i] \in Identifiers
    BY <1>2, <1>3, <1>5
  <2>2. IdentifierPrecedes(s[i], t[i]) \/ IdentifierPrecedes(t[i], s[i])
    BY <2>1, IdentifiersOrdered
  <2> QED
    BY <1>3, <1>4, <1>5, <2>2 DEF LexPrecedes
<1>6. CASE i > Len(s) /\ i <= Len(t)
  BY <1>3, <1>4, <1>6 DEF LexPrecedes
<1>7. CASE i <= Len(s) /\ i > Len(t)
  BY <1>3, <1>4, <1>7 DEF LexPrecedes
<1>8. CASE i > Len(s) /\ i > Len(t)
  <2>1. Len(s) = Len(t) /\ \A j \in 1 .. Len(s) : s[j] = t[j]
    BY <1>3, <1>4, <1>8
  <2> QED
    BY <2>1
<1> QED
  BY <1>3, <1>5, <1>6, <1>7, <1>8

\* The core of a version is a list of identifiers.
LEMMA VersionParts ==
  ASSUME NEW v \in Versions
  PROVE  v.core \in Seq(Identifiers) /\ v.pre \in Seq(Identifiers)
<1>1. v.core \in [1 .. 3 -> Identifiers] /\ v.pre \in Seq(Identifiers)
  BY DEF Versions, Identifiers
<1> QED
  BY <1>1, SeqDef

\* Precedes is a strict total order of the versions.
THEOREM VersionsAreOrdered ==
  /\ \A v \in Versions : ~Precedes(v, v)
  /\ \A l, r, v \in Versions : Precedes(l, r) /\ Precedes(r, v) => Precedes(l, v)
  /\ \A l, r \in Versions : l # r => Precedes(l, r) \/ Precedes(r, l)
<1>1. ASSUME NEW v \in Versions PROVE ~Precedes(v, v)
  BY VersionParts, ListIrreflexive DEF Precedes
<1>2. ASSUME NEW l \in Versions, NEW r \in Versions, NEW v \in Versions,
             Precedes(l, r), Precedes(r, v)
      PROVE  Precedes(l, v)
  <2>1. CASE LexPrecedes(l.core, v.core)
    BY <2>1 DEF Precedes
  <2>2. CASE ~LexPrecedes(l.core, v.core)
    <3>1. l.core = r.core /\ r.core = v.core
      BY <1>2, <2>2, VersionParts, ListTransitive DEF Precedes
    <3>2. ~LexPrecedes(l.core, l.core)
      BY VersionParts, ListIrreflexive
    <3>3. /\ IsPrerelease(l) /\ IsPrerelease(r)
          /\ LexPrecedes(l.pre, r.pre)
          /\ IsPrerelease(v) => LexPrecedes(r.pre, v.pre)
      BY <1>2, <3>1, <3>2 DEF Precedes
    <3>4. IsPrerelease(v) => LexPrecedes(l.pre, v.pre)
      BY <3>3, VersionParts, ListTransitive
    <3> QED
      BY <3>1, <3>3, <3>4 DEF Precedes
  <2> QED
    BY <2>1, <2>2
<1>3. ASSUME NEW l \in Versions, NEW r \in Versions, l # r
      PROVE  Precedes(l, r) \/ Precedes(r, l)
  <2>1. CASE l.core # r.core
    BY <2>1, VersionParts, ListTotal DEF Precedes
  <2>2. CASE l.core = r.core
    <3>1. l.pre # r.pre
      BY <1>3, <2>2 DEF Versions
    <3>2. LexPrecedes(l.pre, r.pre) \/ LexPrecedes(r.pre, l.pre)
      BY <3>1, VersionParts, ListTotal
    <3> QED
      BY <2>2, <3>1, <3>2 DEF Precedes, IsPrerelease
  <2> QED
    BY <2>1, <2>2
<1> QED
  BY <1>1, <1>2, <1>3

\* Finitely many versions have a newest.
LEMMA ANewestExists ==
  ASSUME NEW S \in SUBSET Versions, IsFiniteSet(S), S # {}
  PROVE  \E v \in S : \A w \in S : ~Precedes(v, w)
<1> DEFINE Newer(T) == \E v \in T : \A w \in T : ~Precedes(v, w)
<1> DEFINE Bad == {n \in Nat : \E T \in SUBSET Versions :
                     IsFiniteSet(T) /\ T # {} /\ Cardinality(T) = n /\ ~Newer(T)}
<1>1. CASE Bad = {}
  <2>1. Cardinality(S) \in Nat
    BY FS_CardinalityType
  <2> QED
    BY <1>1, <2>1
<1>2. CASE Bad # {}
  <2>1. PICK n \in Bad : \A m \in Bad : n <= m
    <3>1. Bad \in SUBSET Nat
      OBVIOUS
    <3> HIDE DEF Bad
    <3> QED
      BY <1>2, <3>1, LeastNumber
  <2>2. PICK T \in SUBSET Versions :
          IsFiniteSet(T) /\ T # {} /\ Cardinality(T) = n /\ ~Newer(T)
    BY <2>1
  <2>3. PICK x \in T : TRUE
    BY <2>2
  <2>4. PICK W \in SUBSET Versions : W = T \ {x}
    BY <2>2
  <2>5. IsFiniteSet(W) /\ Cardinality(W) = n - 1 /\ n \in Nat /\ Cardinality(W) \in Nat
    BY <2>1, <2>2, <2>3, <2>4, FS_RemoveElement, FS_CardinalityType
  <2>6. x \in Versions /\ ~Precedes(x, x)
    BY <2>2, <2>3, VersionsAreOrdered
  <2>7. W # {}
    BY <2>2, <2>3, <2>4, <2>6
  <2>8. n - 1 \notin Bad
    BY <2>1, <2>5
  <2>9. PICK y \in W : \A w \in W : ~Precedes(y, w)
    BY <2>5, <2>7, <2>8
  <2>10. y \in T /\ y \in Versions
    BY <2>4, <2>9
  <2>11. CASE Precedes(y, x)
    <3>1. \A w \in T : ~Precedes(x, w)
      <4>1. ASSUME NEW w \in T, Precedes(x, w) PROVE FALSE
        <5>1. w \in W /\ w \in Versions
          BY <2>2, <2>4, <2>6, <4>1
        <5>2. Precedes(y, w)
          BY <2>6, <2>10, <2>11, <4>1, <5>1, VersionsAreOrdered
        <5> QED
          BY <2>9, <5>1, <5>2
      <4> QED
        BY <4>1
    <3> QED
      BY <2>2, <2>3, <3>1
  <2>12. CASE ~Precedes(y, x)
    <3>1. \A w \in T : ~Precedes(y, w)
      BY <2>4, <2>9, <2>12
    <3> QED
      BY <2>2, <2>10, <3>1
  <2> QED
    BY <2>11, <2>12
<1> QED
  BY <1>1, <1>2

\* Newest is the one version of the set that follows all others.
THEOREM NewestFollowsAll ==
  ASSUME NEW S \in SUBSET Versions, IsFiniteSet(S), S # {}
  PROVE  /\ Newest(S) \in S
         /\ \A w \in S : w # Newest(S) => Precedes(w, Newest(S))
<1>1. Newest(S) \in S /\ \A w \in S : ~Precedes(Newest(S), w)
  BY ANewestExists DEF Newest
<1> QED
  BY <1>1, VersionsAreOrdered
-----------------------------------------------------------------------------
(* The reference order                                                     *)

\* What stands at a place of a version.
LEMMA Places ==
  ASSUME NEW v \in Versions
  PROVE  /\ Len(v.pre) \in Nat
         /\ \A i \in 1 .. 3 : Kind(v, i) = 1 /\ Value(v, i) = v.core[i].value
         /\ \A k \in 1 .. Len(v.pre) :
              /\ v.pre[k] \in Identifiers
              /\ Kind(v, k + 3) = (IF v.pre[k].number THEN 1 ELSE 2)
              /\ Value(v, k + 3) = v.pre[k].value
         /\ \A i \in Nat :
              i > Len(v.pre) + 3 => /\ Kind(v, i) = (IF IsPrerelease(v) THEN 0 ELSE 3)
                                    /\ Value(v, i) = 0
         /\ \A i \in Nat \ {0} : Kind(v, i) \in 0 .. 3 /\ Value(v, i) \in Nat
<1>1. Len(v.pre) \in Nat /\ v.pre \in Seq(Identifiers)
  BY DEF Versions
<1>2. ASSUME NEW i \in 1 .. 3 PROVE Kind(v, i) = 1 /\ Value(v, i) = v.core[i].value
  BY DEF Kind, Value
<1>3. ASSUME NEW k \in 1 .. Len(v.pre)
      PROVE  /\ v.pre[k] \in Identifiers
             /\ Kind(v, k + 3) = (IF v.pre[k].number THEN 1 ELSE 2)
             /\ Value(v, k + 3) = v.pre[k].value
  <2>1. k + 3 \in 4 .. (Len(v.pre) + 3) /\ ~(k + 3 <= 3) /\ (k + 3) - 3 = k
    BY <1>1
  <2>2. v.pre[k] \in Identifiers
    BY <1>1
  <2> QED
    BY <2>1, <2>2 DEF Kind, Value
<1>4. ASSUME NEW i \in Nat, i > Len(v.pre) + 3
      PROVE  Kind(v, i) = (IF IsPrerelease(v) THEN 0 ELSE 3) /\ Value(v, i) = 0
  <2>1. ~(i <= 3) /\ i \notin 4 .. (Len(v.pre) + 3)
    BY <1>1, <1>4
  <2> QED
    BY <2>1 DEF Kind, Value
<1>5. ASSUME NEW i \in Nat \ {0} PROVE Kind(v, i) \in 0 .. 3 /\ Value(v, i) \in Nat
  <2>1. CASE i \in 1 .. 3
    <3>1. v.core[i].value \in Nat
      BY <2>1 DEF Versions
    <3> QED
      BY <1>2, <2>1, <3>1
  <2>2. CASE i \in 4 .. (Len(v.pre) + 3)
    <3>1. PICK k \in 1 .. Len(v.pre) : i = k + 3
      <4>1. i - 3 \in 1 .. Len(v.pre) /\ i = (i - 3) + 3
        BY <1>1, <2>2
      <4> QED
        BY <4>1
    <3> QED
      BY <1>3, <3>1 DEF Identifiers
  <2>3. CASE i > Len(v.pre) + 3
    BY <1>4, <2>3
  <2> QED
    BY <1>1, <2>1, <2>2, <2>3
<1> QED
  BY <1>1, <1>2, <1>3, <1>4, <1>5

\* Identifiers compare as the places they stand at.
LEMMA PlacesCompare ==
  ASSUME NEW l \in Versions, NEW r \in Versions,
         NEW k \in 1 .. Len(l.pre), k \in 1 .. Len(r.pre)
  PROVE  /\ l.pre[k] = r.pre[k] <=>
              Kind(l, k + 3) = Kind(r, k + 3) /\ Value(l, k + 3) = Value(r, k + 3)
         /\ IdentifierPrecedes(l.pre[k], r.pre[k]) <=>
              \/ Kind(l, k + 3) < Kind(r, k + 3)
              \/ Kind(l, k + 3) = Kind(r, k + 3) /\ Value(l, k + 3) < Value(r, k + 3)
<1>1. l.pre[k] \in Identifiers /\ r.pre[k] \in Identifiers
  BY Places
<1>2. /\ Kind(l, k + 3) = (IF l.pre[k].number THEN 1 ELSE 2)
      /\ Kind(r, k + 3) = (IF r.pre[k].number THEN 1 ELSE 2)
      /\ Value(l, k + 3) = l.pre[k].value
      /\ Value(r, k + 3) = r.pre[k].value
  BY Places
<1>3. ASSUME NEW a \in Identifiers, NEW b \in Identifiers
      PROVE  /\ a = b <=> /\ (IF a.number THEN 1 ELSE 2) = (IF b.number THEN 1 ELSE 2)
                          /\ a.value = b.value
             /\ IdentifierPrecedes(a, b) <=>
                  \/ (IF a.number THEN 1 ELSE 2) < (IF b.number THEN 1 ELSE 2)
                  \/ /\ (IF a.number THEN 1 ELSE 2) = (IF b.number THEN 1 ELSE 2)
                     /\ a.value < b.value
  BY DEF Identifiers, IdentifierPrecedes
<1> QED
  BY <1>1, <1>2, <1>3

\* Cores compare as their three numbers.
LEMMA CoresCompare ==
  ASSUME NEW l \in Versions, NEW r \in Versions
  PROVE  /\ l.core = r.core <=> \A i \in 1 .. 3 : Value(l, i) = Value(r, i)
         /\ LexPrecedes(l.core, r.core) <=>
              \E i \in 1 .. 3 : /\ \A j \in 1 .. (i - 1) : Value(l, j) = Value(r, j)
                               /\ Value(l, i) < Value(r, i)
<1> DEFINE Numbers == [number : {TRUE}, value : Nat]
<1>1. l.core \in [1 .. 3 -> Numbers] /\ r.core \in [1 .. 3 -> Numbers]
  BY DEF Versions
<1>2. \A i \in 1 .. 3 : Value(l, i) = l.core[i].value /\ Value(r, i) = r.core[i].value
  BY Places
<1>3. \A a, b \in Numbers : /\ a = b <=> a.value = b.value
                            /\ IdentifierPrecedes(a, b) <=> a.value < b.value
  <2> TAKE a, b \in Numbers
  <2>1. a.number = TRUE /\ b.number = TRUE
    OBVIOUS
  <2>2. a = [number |-> a.number, value |-> a.value] /\ b = [number |-> b.number, value |-> b.value]
    OBVIOUS
  <2> QED
    BY <2>1, <2>2 DEF IdentifierPrecedes
<1>4. Len(l.core) = 3 /\ Len(r.core) = 3
  <2>1. \A s \in Seq(Identifiers) : DOMAIN s = 1 .. 3 => Len(s) = 3
    OBVIOUS
  <2>2. DOMAIN l.core = 1 .. 3 /\ DOMAIN r.core = 1 .. 3
    BY <1>1
  <2> QED
    BY <2>1, <2>2, VersionParts
<1> HIDE DEF Numbers
<1>5. \A i \in 1 .. 3 :
        /\ l.core[i] = r.core[i] <=> Value(l, i) = Value(r, i)
        /\ IdentifierPrecedes(l.core[i], r.core[i]) <=> Value(l, i) < Value(r, i)
  <2> TAKE i \in 1 .. 3
  <2>1. PICK a \in Numbers, b \in Numbers : a = l.core[i] /\ b = r.core[i]
    BY <1>1
  <2>2. Value(l, i) = a.value /\ Value(r, i) = b.value
    BY <1>2, <2>1
  <2>3. /\ a = b <=> a.value = b.value
        /\ IdentifierPrecedes(a, b) <=> a.value < b.value
    BY <1>3
  <2>4. l.core[i] = r.core[i] <=> Value(l, i) = Value(r, i)
    BY <2>1, <2>2, <2>3
  <2>5. IdentifierPrecedes(l.core[i], r.core[i]) <=> Value(l, i) < Value(r, i)
    BY <2>1, <2>2, <2>3
  <2> QED
    BY <2>4, <2>5
<1>6. l.core = r.core <=> \A i \in 1 .. 3 : l.core[i] = r.core[i]
  BY <1>1
<1>7. LexPrecedes(l.core, r.core) <=>
        \E i \in 1 .. 3 : /\ \A j \in 1 .. (i - 1) : l.core[j] = r.core[j]
                         /\ IdentifierPrecedes(l.core[i], r.core[i])
  BY <1>4 DEF LexPrecedes
<1>8. \A i \in 1 .. 3 : \A j \in 1 .. (i - 1) : j \in 1 .. 3
  OBVIOUS
<1> QED
  BY <1>5, <1>6, <1>7, <1>8

\* What precedes is earlier.
LEMMA PrecedingIsEarlier ==
  ASSUME NEW l \in Versions, NEW r \in Versions, Precedes(l, r)
  PROVE  Earlier(l, r)
<1>0. PICK m \in Nat, n \in Nat : m = Len(l.pre) /\ n = Len(r.pre)
  BY Places
<1>1. \A i \in 1 .. 3 : Kind(l, i) = Kind(r, i)
  BY Places
<1>e. ASSUME NEW i \in 1 .. (m + 4),
             \A j \in 1 .. (i - 1) : Kind(l, j) = Kind(r, j) /\ Value(l, j) = Value(r, j),
             \/ Kind(l, i) < Kind(r, i)
             \/ Kind(l, i) = Kind(r, i) /\ Value(l, i) < Value(r, i)
      PROVE  Earlier(l, r)
  BY <1>0, <1>e DEF Earlier
<1>2. CASE LexPrecedes(l.core, r.core)
  <2>1. PICK i \in 1 .. 3 : /\ \A j \in 1 .. (i - 1) : Value(l, j) = Value(r, j)
                           /\ Value(l, i) < Value(r, i)
    BY <1>2, CoresCompare
  <2>2. i \in 1 .. (m + 4) /\ \A j \in 1 .. (i - 1) : j \in 1 .. 3
    OBVIOUS
  <2> QED
    BY <1>1, <1>e, <2>1, <2>2
<1>3. CASE ~LexPrecedes(l.core, r.core)
  <2>1. /\ IsPrerelease(l)
        /\ IsPrerelease(r) => LexPrecedes(l.pre, r.pre)
        /\ \A i \in 1 .. 3 : Value(l, i) = Value(r, i)
    BY <1>3, CoresCompare DEF Precedes
  <2>2. m >= 1
    <3>1. l.pre \in Seq(Identifiers) /\ l.pre # <<>>
      BY <2>1 DEF Versions, IsPrerelease
    <3>2. \A s \in Seq(Identifiers) : s # <<>> => Len(s) # 0
      OBVIOUS
    <3> QED
      BY <1>0, <3>1, <3>2
  <2>3. CASE ~IsPrerelease(r)
    <3>1. Kind(l, 4) \in {1, 2}
      <4>1. 1 \in 1 .. m /\ 1 + 3 = 4
        BY <2>2
      <4>2. PICK k \in 1 .. Len(l.pre) : k + 3 = 4
        BY <1>0, <4>1
      <4>3. Kind(l, k + 3) \in {1, 2}
        BY Places
      <4> QED
        BY <4>2, <4>3
    <3>2. n = 0
      BY <1>0, <2>3 DEF IsPrerelease
    <3>3. Kind(r, 4) = 3
      <4>1. 4 \in Nat /\ 4 > Len(r.pre) + 3
        BY <1>0, <3>2
      <4> QED
        BY <2>3, <4>1, Places
    <3>4. 4 \in 1 .. (m + 4) /\ \A j \in 1 .. (4 - 1) : j \in 1 .. 3
      OBVIOUS
    <3> QED
      BY <1>1, <1>e, <2>1, <3>1, <3>3, <3>4
  <2>4. CASE IsPrerelease(r)
    <3>1. PICK k \in 1 .. n :
            /\ k <= m + 1
            /\ \A j \in 1 .. (k - 1) : l.pre[j] = r.pre[j]
            /\ k <= m => IdentifierPrecedes(l.pre[k], r.pre[k])
      BY <1>0, <2>1, <2>4 DEF LexPrecedes
    <3>2. k + 3 \in 1 .. (m + 4)
      BY <3>1
    <3>3. ASSUME NEW j \in 1 .. ((k + 3) - 1)
          PROVE  Kind(l, j) = Kind(r, j) /\ Value(l, j) = Value(r, j)
      <4>1. CASE j <= 3
        BY <1>1, <2>1, <4>1
      <4>2. CASE j > 3
        <5>1. PICK i \in 1 .. (k - 1) : j = i + 3
          <6>1. j - 3 \in 1 .. (k - 1) /\ j = (j - 3) + 3
            BY <4>2
          <6> QED
            BY <6>1
        <5>2. i \in 1 .. m /\ i \in 1 .. n /\ l.pre[i] = r.pre[i]
          BY <3>1
        <5> QED
          BY <1>0, <5>1, <5>2, PlacesCompare
      <4> QED
        BY <4>1, <4>2
    <3>4. \/ Kind(l, k + 3) < Kind(r, k + 3)
          \/ Kind(l, k + 3) = Kind(r, k + 3) /\ Value(l, k + 3) < Value(r, k + 3)
      <4>1. CASE k <= m
        <5>1. k \in 1 .. m
          BY <4>1
        <5> QED
          BY <1>0, <3>1, <4>1, <5>1, PlacesCompare
      <4>2. CASE k > m
        <5>1. k + 3 \in Nat /\ k + 3 > m + 3
          BY <4>2
        <5>2. Kind(l, k + 3) = 0
          BY <1>0, <2>1, <5>1, Places
        <5>3. Kind(r, k + 3) \in {1, 2}
          BY <1>0, Places
        <5> QED
          BY <5>2, <5>3
      <4> QED
        BY <4>1, <4>2
    <3> QED
      BY <1>e, <3>2, <3>3, <3>4
  <2> QED
    BY <2>3, <2>4
<1> QED
  BY <1>2, <1>3

\* No version is earlier than one that precedes it, or than itself.
LEMMA EarlierAsymmetric ==
  ASSUME NEW l \in Versions, NEW r \in Versions, Earlier(l, r)
  PROVE  l # r /\ ~Earlier(r, l)
<1>1. \A i \in Nat \ {0} : /\ Kind(l, i) \in Int /\ Value(l, i) \in Int
                         /\ Kind(r, i) \in Int /\ Value(r, i) \in Int
  BY Places
<1>2. \A v \in Versions : \A i \in 1 .. (Len(v.pre) + 4) : i \in Nat \ {0}
  BY Places
<1>3. PICK i \in Nat \ {0} :
        /\ \A j \in 1 .. (i - 1) : Kind(l, j) = Kind(r, j) /\ Value(l, j) = Value(r, j)
        /\ \/ Kind(l, i) < Kind(r, i)
           \/ Kind(l, i) = Kind(r, i) /\ Value(l, i) < Value(r, i)
  BY <1>2 DEF Earlier
<1>4. l # r
  BY <1>1, <1>3
<1>5. ASSUME Earlier(r, l) PROVE FALSE
  <2>1. PICK k \in Nat \ {0} :
          /\ \A j \in 1 .. (k - 1) : Kind(r, j) = Kind(l, j) /\ Value(r, j) = Value(l, j)
          /\ \/ Kind(r, k) < Kind(l, k)
             \/ Kind(r, k) = Kind(l, k) /\ Value(r, k) < Value(l, k)
    BY <1>2, <1>5 DEF Earlier
  <2>2. CASE i < k
    <3>1. Kind(r, i) = Kind(l, i) /\ Value(r, i) = Value(l, i)
      BY <2>1, <2>2
    <3> QED
      BY <1>1, <1>3, <3>1
  <2>3. CASE k < i
    <3>1. Kind(r, k) = Kind(l, k) /\ Value(r, k) = Value(l, k)
      BY <1>3, <2>3
    <3> QED
      BY <1>1, <2>1, <3>1
  <2>4. CASE i = k
    BY <1>1, <1>3, <2>1, <2>4
  <2> QED
    BY <2>2, <2>3, <2>4
<1> QED
  BY <1>4, <1>5

\* The comparison of the code is the reference order.
THEOREM ComparesAsReference ==
  \A l, r \in Versions : Precedes(l, r) <=> Earlier(l, r)
<1> SUFFICES ASSUME NEW l \in Versions, NEW r \in Versions, Earlier(l, r)
             PROVE  Precedes(l, r)
  BY PrecedingIsEarlier
<1>1. l # r /\ ~Precedes(r, l)
  BY EarlierAsymmetric, PrecedingIsEarlier
<1> QED
  BY <1>1, VersionsAreOrdered

-----------------------------------------------------------------------------
(* What the states of the checker are                                      *)

Releases == {{}} \union {Offered(p) : p \in Publications}

State ==
  [checked : Int, validator : SUBSET Publications, retry : Int, error : Error,
   release : Releases, invalid : BOOLEAN]

File == [kind : {"absent", "foreign", "damaged", "record"}, state : State]

Thread ==
  [pc : {"idle", "lock", "ask", "waiting"}, force : BOOLEAN, at : Int,
   state : State, blind : BOOLEAN]

Holding == {"ask", "waiting"}

\* What the validators of a state name is what its release was taken from.
Named(s) == \A p \in s.validator : s.release = Offered(p)

\* A thread past the lock passed the gates with what the file still holds.
Sees(q) ==
  q.pc \in Holding =>
    /\ MayAsk(q.state, q.at, q.force)
    /\ ~q.blind => q.state = ReadCache(q.at)

\* The inductive invariant.
IInv ==
  /\ now \in Int
  /\ site \in Publications
  /\ file \in File /\ Named(file.state)
  /\ lock \in Threads \union {NoThread}
  /\ th \in [Threads -> Thread]
  /\ \A t \in Threads :
       /\ th[t].pc \in Holding <=> lock = t
       /\ Named(th[t].state)
       /\ Sees(th[t])

-----------------------------------------------------------------------------
(* States                                                                  *)

\* NoTime is a time.
LEMMA NoTimeIsInt == NoTime \in Int
BY DEF NoTime

\* The states without a release.
LEMMA NoRelease ==
  /\ EmptyState \in State /\ InvalidState \in State
  /\ Named(EmptyState) /\ Named(InvalidState)
  /\ EmptyState.invalid = FALSE /\ InvalidState.invalid
  /\ EmptyState.error = "none" /\ EmptyState.release = {} /\ EmptyState.validator = {}
<1>1. {} \in Releases
  BY DEF Releases
<1>2. /\ EmptyState \in State /\ EmptyState.validator = {} /\ EmptyState.invalid = FALSE
      /\ EmptyState.error = "none" /\ EmptyState.release = {}
  BY <1>1 DEF EmptyState, State, Error, NoTime
<1>3. PICK s \in State : s = EmptyState /\ s.validator = {}
  BY <1>2
<1>4. PICK u : u = [s EXCEPT !.error = "invalid_cache", !.invalid = TRUE]
  OBVIOUS
<1>5. u \in State /\ u.validator = {} /\ u.invalid
  BY <1>3, <1>4 DEF State, Error
<1>6. InvalidState = u
  BY <1>3, <1>4 DEF InvalidState
<1> QED
  BY <1>2, <1>5, <1>6 DEF Named

\* What a thread that does nothing holds.
LEMMA Resting == IdleThread \in Thread /\ IdleThread.pc = "idle" /\ Named(IdleThread.state)
BY NoRelease DEF IdleThread, Thread, NoTime

\* The channel decides what a publication offers, and it does not change.
LEMMA SameOffer ==
  ASSUME channel' = channel
  PROVE  /\ State' = State /\ Thread' = Thread /\ File' = File
         /\ \A p : Offered(p)' = Offered(p)
         /\ \A s : Named(s)' = Named(s)
<1>1. \A p : Offered(p)' = Offered(p)
  BY DEF Offered, Accepted, Acceptable
<1>2. State' = State
  BY <1>1 DEF State, Releases
<1>3. \A s : Named(s)' = Named(s)
  BY <1>1 DEF Named
<1> QED
  BY <1>1, <1>2, <1>3 DEF Thread, File

\* Reading the file.
LEMMA ReadingOK ==
  ASSUME IInv, NEW at \in Int
  PROVE  ReadCache(at) \in State /\ Named(ReadCache(at))
<1>1. file.state \in State /\ MaxBackoff \in Int
  BY UpdateAssumption DEF IInv, File, UpdateAssumption
<1>2. PICK s : s = [file.state EXCEPT
                      !.retry = IF @ > at + MaxBackoff THEN at + MaxBackoff ELSE @]
  OBVIOUS
<1>3. s \in State /\ s.validator = file.state.validator /\ s.release = file.state.release
  BY <1>1, <1>2 DEF State
<1>4. Named(s)
  BY <1>3 DEF IInv, Named
<1>5. ReadCache(at) \in {EmptyState, InvalidState, s}
  BY <1>2 DEF ReadCache
<1> QED
  BY <1>3, <1>4, <1>5, NoRelease

\* What an informed thread read of a record.
LEMMA WhatWasRead ==
  ASSUME IInv, NEW at \in Int, file.kind = "record", ~ReadCache(at).invalid
  PROVE  /\ ReadCache(at).checked = file.state.checked
         /\ ReadCache(at).validator = file.state.validator
         /\ ReadCache(at).release = file.state.release
         /\ ReadCache(at).error = file.state.error
         /\ ReadCache(at).retry \in {file.state.retry, at + MaxBackoff}
<1>1. file.state \in State
  BY DEF IInv, File
<1>2. PICK s : s = [file.state EXCEPT
                      !.retry = IF @ > at + MaxBackoff THEN at + MaxBackoff ELSE @]
  OBVIOUS
<1>3. /\ s.checked = file.state.checked /\ s.validator = file.state.validator
      /\ s.release = file.state.release /\ s.error = file.state.error
      /\ s.retry \in {file.state.retry, at + MaxBackoff}
  BY <1>1, <1>2 DEF State
<1>4. ReadCache(at) \in {InvalidState, s}
  BY <1>2 DEF ReadCache
<1> QED
  BY <1>3, <1>4, NoRelease

-----------------------------------------------------------------------------
(* Steps                                                                   *)

\* A step of one thread that leaves the file alone.
LEMMA ThreadKeeps ==
  ASSUME IInv, NEW t \in Threads, NEW q \in Thread, th' = [th EXCEPT ![t] = q],
         UNCHANGED <<channel, now, site, file>>,
         Named(q.state), Sees(q),
         IF q.pc \in Holding THEN lock \in {NoThread, t} /\ lock' = t
                             ELSE lock # t /\ lock' = lock
  PROVE  IInv'
<1>1. \A u \in Threads : th'[u] = IF u = t THEN q ELSE th[u]
  BY DEF IInv
<1>2. \A r : Sees(r)' = Sees(r)
  BY DEF Sees, ReadCache, MayAsk, Throttled, Fresh
<1>3. th' \in [Threads -> Thread]
  BY DEF IInv
<1>4. ASSUME NEW u \in Threads
      PROVE  /\ th'[u].pc \in Holding <=> lock' = u
             /\ Named(th'[u].state) /\ Sees(th'[u])
  BY <1>1, UpdateAssumption DEF IInv, UpdateAssumption
<1>5. now' \in Int /\ site' \in Publications /\ file' \in File /\ Named(file'.state)
  BY DEF IInv
<1>6. lock' \in Threads \union {NoThread}
  BY DEF IInv
<1>7. \A u \in Threads : Named(th[u].state)' /\ Sees(th[u])'
  BY <1>2, <1>4, SameOffer
<1>8. file' \in File' /\ Named(file.state)' /\ th' \in [Threads -> Thread]'
  BY <1>3, <1>5, SameOffer
<1> QED
  BY <1>4, <1>5, <1>6, <1>7, <1>8 DEF IInv

\* The lock's holder records a state and returns.
LEMMA RecordKeeps ==
  ASSUME IInv, NEW t \in Threads, th[t].pc \in Holding, NEW s \in State, Named(s),
         Record(t, s)
  PROVE  IInv'
<1>1. UNCHANGED <<channel, now, site>> /\ lock' = NoThread
  BY DEF Record
<1>2. \A u \in Threads : th'[u] = IF u = t THEN IdleThread ELSE th[u]
  BY DEF IInv, Record, Return
<1>3. th' \in [Threads -> Thread]
  BY Resting DEF IInv, Record, Return
<1>4. \A u \in Threads : th'[u].pc \notin Holding /\ Named(th'[u].state)
  BY <1>2, Resting DEF IInv, Holding
<1>5. PICK r : r = [kind |-> "record", state |-> s]
  OBVIOUS
<1>6. r \in File /\ Named(r.state)
  BY <1>5 DEF File
<1>7. file' \in File /\ Named(file'.state)
  BY <1>5, <1>6 DEF IInv, Record
<1>8. file' \in File' /\ Named(file.state)' /\ th' \in [Threads -> Thread]'
  BY <1>1, <1>3, <1>7, SameOffer
<1>9. \A u \in Threads : Named(th[u].state)' /\ Sees(th[u])'
  BY <1>1, <1>4, SameOffer DEF Sees
<1>10. \A u \in Threads : lock' # u
  BY <1>1, UpdateAssumption DEF UpdateAssumption
<1> QED
  BY <1>1, <1>4, <1>8, <1>9, <1>10 DEF IInv

Success == {"none", "no_published_release"}

\* What an answer writes: after a success the release that the source serves,
\* after a failure what was known before.
LEMMA AnswerWrites ==
  ASSUME IInv, NEW t \in Threads, Answer(t)
  PROVE  /\ th[t].pc = "waiting"
         /\ \E s \in State :
              /\ Named(s) /\ Record(t, s)
              /\ s.error \in Success => s.release = Offered(site)
              /\ s.error \notin Success =>
                   /\ s.release = th[t].state.release
                   /\ s.checked = th[t].state.checked
                   /\ s.validator = th[t].state.validator
<1>0. th[t] \in Thread /\ site \in Publications /\ th[t].pc = "waiting"
  BY DEF IInv, Answer, AnswerDocument, AnswerNotModified, AnswerThrottled, AnswerMissing,
         AnswerFailed
<1>1. PICK k : k = th[t].state
  OBVIOUS
<1>2. k \in State /\ Named(k) /\ th[t].at \in Int
  BY <1>0, <1>1 DEF IInv, Thread
<1>3. Offered(site) \in Releases /\ {} \in Releases
  BY <1>0 DEF Releases
<1> DEFINE Goal == \E s \in State :
              /\ Named(s) /\ Record(t, s)
              /\ s.error \in Success => s.release = Offered(site)
              /\ s.error \notin Success =>
                   /\ s.release = k.release
                   /\ s.checked = k.checked
                   /\ s.validator = k.validator
<1>4. ASSUME NEW s \in State, Record(t, s), s.error \notin Success, s.release = k.release,
             s.checked = k.checked, s.validator = k.validator
      PROVE  Goal
  BY <1>2, <1>4 DEF Named
<1>5. ASSUME NEW s \in State, Record(t, s), s.error \in Success, s.release = Offered(site),
             \A p \in s.validator : Offered(p) = Offered(site)
      PROVE  Goal
  BY <1>5 DEF Named
<1> SUFFICES Goal
  BY <1>0, <1>1
<1> HIDE DEF Goal
<1>6. ASSUME Record(t, Failed(k)) PROVE Goal
  <2>1. PICK s : s = Failed(k)
    OBVIOUS
  <2>2. /\ s \in State /\ s.error = "failed" /\ s.release = k.release
        /\ s.checked = k.checked /\ s.validator = k.validator
    BY <1>2, <2>1, NoTimeIsInt DEF Failed, State, Error
  <2> QED
    BY <1>4, <1>6, <2>1, <2>2 DEF Success
<1>7. PICK e \in State : /\ e = EmptyState /\ e.error = "none" /\ e.release = {}
                         /\ e.validator = {}
  BY NoRelease
<1>8. CASE AnswerDocument(t)
  <2>1. CASE Malformed(site)
    BY <1>1, <1>6, <1>8, <2>1 DEF AnswerDocument
  <2>2. CASE ~Malformed(site)
    <3>1. PICK error : error = IF Offered(site) = {} THEN "no_published_release" ELSE "none"
      OBVIOUS
    <3>2. PICK r : r = [e EXCEPT !.checked = th[t].at, !.release = Offered(site),
                                 !.error = error]
      OBVIOUS
    <3>3. error \in Success /\ error \in Error
      BY <3>1 DEF Success, Error
    <3>4. r \in State /\ r.error = error /\ r.release = Offered(site)
      BY <1>2, <1>3, <3>2, <3>3 DEF State
    <3>5. PICK validator \in {{}, {site}} : Record(t, [r EXCEPT !.validator = validator])
      BY <1>7, <1>8, <2>2, <3>1, <3>2 DEF AnswerDocument
    <3>6. PICK s : s = [r EXCEPT !.validator = validator]
      OBVIOUS
    <3>7. /\ s \in State /\ s.error = error /\ s.release = Offered(site)
          /\ \A p \in s.validator : p = site
      BY <1>0, <3>4, <3>5, <3>6 DEF State
    <3> QED
      BY <1>5, <3>3, <3>5, <3>6, <3>7
  <2> QED
    BY <2>1, <2>2
<1>9. CASE AnswerNotModified(t)
  <2>1. CASE k.checked = NoTime \/ k.invalid
    BY <1>1, <1>6, <1>9, <2>1 DEF AnswerNotModified
  <2>2. CASE ~(k.checked = NoTime \/ k.invalid)
    <3>1. PICK s : s = [e EXCEPT !.checked = th[t].at, !.validator = k.validator,
                                 !.release = k.release]
      OBVIOUS
    <3>2. /\ s \in State /\ s.error = "none" /\ s.release = k.release
          /\ s.validator = k.validator
      BY <1>2, <1>7, <3>1 DEF State
    <3>3. k.validator = {site} /\ Record(t, s)
      BY <1>1, <1>7, <1>9, <2>2, <3>1 DEF AnswerNotModified
    <3>4. k.release = Offered(site)
      BY <1>2, <3>3 DEF Named
    <3> QED
      BY <1>5, <3>2, <3>3, <3>4 DEF Success
  <2> QED
    BY <2>1, <2>2
<1>10. CASE \E wait \in Waits : AnswerThrottled(t, wait)
  <2>1. PICK wait \in Waits : AnswerThrottled(t, wait)
    BY <1>10
  <2>2. RetryAt(th[t].at, wait) \in Int
    BY <1>2, UpdateAssumption DEF RetryAt, UpdateAssumption
  <2>3. PICK s : s = [k EXCEPT !.retry = RetryAt(th[t].at, wait),
                               !.error = "rate_limited", !.invalid = FALSE]
    OBVIOUS
  <2>4. /\ s \in State /\ s.error = "rate_limited" /\ s.release = k.release
        /\ s.checked = k.checked /\ s.validator = k.validator
    BY <1>2, <2>2, <2>3 DEF State, Error
  <2>5. Record(t, s)
    BY <1>1, <2>1, <2>3 DEF AnswerThrottled
  <2> QED
    BY <1>4, <2>4, <2>5 DEF Success
<1>11. CASE AnswerMissing(t)
  <2>1. PICK s : s = [e EXCEPT !.checked = th[t].at, !.error = "no_published_release"]
    OBVIOUS
  <2>2. /\ s \in State /\ s.error = "no_published_release" /\ s.release = {}
        /\ s.validator = {}
    BY <1>2, <1>7, <2>1 DEF State, Error
  <2>3. site.shape = "missing" /\ Record(t, s)
    BY <1>7, <1>11, <2>1 DEF AnswerMissing
  <2>4. Offered(site) = {}
    BY <1>0, <2>3, UpdateAssumption DEF Offered, Accepted, UpdateAssumption
  <2> QED
    BY <1>5, <2>2, <2>3, <2>4 DEF Success
<1>12. CASE AnswerFailed(t)
  BY <1>1, <1>6, <1>12 DEF AnswerFailed
<1> QED
  BY <1>8, <1>9, <1>10, <1>11, <1>12 DEF Answer

\* The steps of a thread up to its request.
LEMMA CheckKeeps ==
  ASSUME IInv, NEW t \in Threads, NEW force \in BOOLEAN, NEW blind \in BOOLEAN,
         Check(t, force, blind)
  PROVE  IInv'
<1>0. th[t] \in Thread /\ now \in Int /\ th[t].pc = "idle" /\ lock # t
  BY DEF IInv, Check, Holding
<1>1. UNCHANGED <<channel, now, site, file, lock>>
  BY DEF Check
<1>2. CASE Return(t)
  BY <1>0, <1>1, <1>2, Resting, ThreadKeeps DEF Return, Sees, Holding
<1>3. CASE ~Return(t)
  <2>1. PICK s : s = IF blind THEN EmptyState ELSE ReadCache(now)
    OBVIOUS
  <2>2. s \in State /\ Named(s)
    BY <1>0, <2>1, ReadingOK, NoRelease
  <2>3. PICK q : q = [[Reading(t, blind) EXCEPT !.force = force] EXCEPT !.pc = "lock"]
    OBVIOUS
  <2>4. q \in Thread /\ q.pc = "lock" /\ q.state = s
    BY <1>0, <2>1, <2>2, <2>3 DEF Reading, Thread
  <2>5. th' = [th EXCEPT ![t] = q]
    BY <1>3, <2>3 DEF Check
  <2> QED
    BY <1>0, <1>1, <2>2, <2>4, <2>5, ThreadKeeps DEF Sees, Holding
<1> QED
  BY <1>2, <1>3

\* The lock is taken, and the gates are passed, with the file as it is.
LEMMA AcquireKeeps ==
  ASSUME IInv, NEW t \in Threads, NEW blind \in BOOLEAN, Acquire(t, blind)
  PROVE  IInv'
<1>0. th[t] \in Thread /\ now \in Int /\ th[t].pc = "lock" /\ lock # t
  BY DEF IInv, Acquire, Holding
<1>1. UNCHANGED <<channel, now, site, file>>
  BY DEF Acquire
<1>2. CASE Return(t) /\ UNCHANGED lock
  BY <1>0, <1>1, <1>2, Resting, ThreadKeeps DEF Return, Sees, Holding
<1>3. CASE ~(Return(t) /\ UNCHANGED lock)
  <2>1. PICK s : s = IF blind THEN EmptyState ELSE ReadCache(now)
    OBVIOUS
  <2>2. s \in State /\ Named(s)
    BY <1>0, <2>1, ReadingOK, NoRelease
  <2>3. PICK r : r = Reading(t, blind)
    OBVIOUS
  <2>4. /\ r \in Thread /\ r.state = s /\ r.at = now /\ r.force = th[t].force
        /\ r.blind = blind
    BY <1>0, <2>1, <2>2, <2>3 DEF Reading, Thread
  <2>5. PICK q : q = [r EXCEPT !.pc = "ask"]
    OBVIOUS
  <2>6. /\ q \in Thread /\ q.pc = "ask" /\ q.state = s /\ q.at = now
        /\ q.force = th[t].force /\ q.blind = blind
    BY <2>4, <2>5 DEF Thread
  <2>7. /\ lock = NoThread /\ MayAsk(r.state, now, r.force)
        /\ lock' = t /\ th' = [th EXCEPT ![t] = q]
    BY <1>3, <2>3, <2>5 DEF Acquire
  <2>8. Sees(q)
    BY <2>1, <2>4, <2>6, <2>7 DEF Sees
  <2> QED
    BY <1>1, <2>2, <2>6, <2>7, <2>8, ThreadKeeps DEF Holding
<1> QED
  BY <1>2, <1>3

\* The request goes out.
LEMMA AskKeeps == ASSUME IInv, NEW t \in Threads, Ask(t) PROVE IInv'
<1>1. /\ th[t] \in Thread /\ th[t].pc = "ask" /\ lock = t
      /\ Named(th[t].state) /\ Sees(th[t])
  BY DEF IInv, Ask, Holding
<1>2. UNCHANGED <<channel, now, site, file, lock>>
  BY DEF Ask
<1>3. PICK q : q = [th[t] EXCEPT !.pc = "waiting"]
  OBVIOUS
<1>4. /\ q \in Thread /\ q.pc = "waiting" /\ q.state = th[t].state /\ q.at = th[t].at
      /\ q.force = th[t].force /\ q.blind = th[t].blind
  BY <1>1, <1>3 DEF Thread
<1>5. Named(q.state) /\ Sees(q)
  BY <1>1, <1>4 DEF Sees, Holding
<1>6. th' = [th EXCEPT ![t] = q]
  BY <1>3 DEF Ask
<1> QED
  BY <1>1, <1>2, <1>4, <1>5, <1>6, ThreadKeeps DEF Holding

\* The inductive invariant holds at the start.
LEMMA InitHolds == Init => IInv
<1> SUFFICES ASSUME Init PROVE IInv
  OBVIOUS
<1>1. file \in File /\ file.state = EmptyState
  BY NoRelease DEF Init, File
<1>2. \A t \in Threads : th[t] = IdleThread /\ lock # t
  BY UpdateAssumption DEF Init, UpdateAssumption
<1>3. th \in [Threads -> Thread]
  BY Resting DEF Init
<1> QED
  BY <1>1, <1>2, <1>3, NoRelease, Resting DEF Init, IInv, Sees, Holding

\* Every step keeps it.
LEMMA StepKeeps == IInv /\ [Next]_vars => IInv'
<1> SUFFICES ASSUME IInv, [Next]_vars PROVE IInv'
  OBVIOUS
<1>1. ASSUME NEW t \in Threads, Answer(t) PROVE IInv'
  BY <1>1, AnswerWrites, RecordKeeps DEF Holding
<1>2. ASSUME NEW t \in Threads, Step(t) PROVE IInv'
  BY <1>1, <1>2, CheckKeeps, AcquireKeeps, AskKeeps DEF Step
<1>3. ASSUME UNCHANGED <<channel, file>>, now' \in Int, site' \in Publications,
             lock' \in Threads \union {NoThread}, th' \in [Threads -> Thread],
             \A t \in Threads :
               \/ th'[t] = th[t] /\ (lock' = t <=> lock = t)
               \/ th'[t] = IdleThread /\ lock' # t
      PROVE  IInv'
  <2>1. /\ file' \in File' /\ th' \in [Threads -> Thread]'
        /\ \A s : Named(s)' = Named(s)
    BY <1>3, SameOffer DEF IInv
  <2>2. \A r : Sees(r)' = Sees(r)
    BY <1>3 DEF Sees, ReadCache, MayAsk, Throttled, Fresh
  <2>3. \A t \in Threads : /\ th'[t].pc \in Holding <=> lock' = t
                           /\ Named(th'[t].state) /\ Sees(th'[t])
    BY <1>3, Resting DEF IInv, Sees, Holding
  <2> QED
    BY <1>3, <2>1, <2>2, <2>3 DEF IInv
<1>4. CASE Publish \/ Tick \/ SetBack
  BY <1>3, <1>4 DEF Publish, Tick, SetBack, IInv
<1>5. CASE Restart
  <2>1. \A t \in Threads : th'[t] = IdleThread /\ lock' # t
    BY <1>5, UpdateAssumption DEF Restart, UpdateAssumption
  <2> QED
    BY <1>3, <1>5, <2>1, Resting DEF Restart, IInv
<1>6. CASE UNCHANGED vars
  BY <1>3, <1>6 DEF vars, IInv
<1> QED
  BY <1>2, <1>4, <1>5, <1>6 DEF Next

-----------------------------------------------------------------------------
(* The theorems                                                            *)

\* Type correctness, and the lock's holder is the thread that is past it.
THEOREM TypeCorrect == Spec => []TypeOK
<1>1. IInv => TypeOK
  <2> SUFFICES ASSUME IInv PROVE TypeOK
    OBVIOUS
  <2>1. \A s \in State : StateOK(s)
    BY DEF State, StateOK
  <2>2. file.kind \in {"absent", "foreign", "damaged", "record"} /\ file.state \in State
    BY DEF IInv, File
  <2>3. \A t \in Threads :
          /\ th[t].pc \in {"idle", "lock", "ask", "waiting"}
          /\ th[t].force \in BOOLEAN /\ th[t].blind \in BOOLEAN
          /\ th[t].at \in Int /\ th[t].state \in State
    BY DEF IInv, Thread
  <2>4. \A t \in Threads : th[t].pc \in {"ask", "waiting"} <=> lock = t
    BY DEF IInv, Holding
  <2> QED
    BY <2>1, <2>2, <2>3, <2>4 DEF IInv, TypeOK
<1> QED
  BY <1>1, InitHolds, StepKeeps, PTL DEF Spec

\* A step that sends a request or writes the file is a thread's own.
LEMMA WhoActs ==
  ASSUME IInv, [Next]_vars
  PROVE  /\ \A t \in Threads : th[t].pc = "ask" /\ th'[t].pc = "waiting" => Ask(t)
         /\ file' # file => \E t \in Threads : Answer(t)
<1>1. ASSUME NEW t \in Threads, Step(t), ~Answer(t) PROVE file' = file
  BY <1>1 DEF Step, Check, Acquire, Ask
<1>2. file' # file => \E t \in Threads : Answer(t)
  BY <1>1 DEF Next, vars, Publish, Tick, SetBack, Restart
<1>3. ASSUME NEW t \in Threads, th[t].pc = "ask", th'[t].pc = "waiting" PROVE Ask(t)
  <2>1. CASE \E u \in Threads : Step(u)
    <3>1. PICK u \in Threads : Step(u)
      BY <2>1
    <3>2. \E q : th' = [th EXCEPT ![u] = q]
      BY <3>1 DEF Step, Check, Acquire, Ask, Answer, AnswerDocument, AnswerNotModified,
                  AnswerThrottled, AnswerMissing, AnswerFailed, Record, Return
    <3>3. u = t
      BY <1>3, <3>2 DEF IInv
    <3>4. ~Answer(t)
      BY <1>3, AnswerWrites
    <3> QED
      BY <1>3, <3>1, <3>3, <3>4 DEF Step, Check, Acquire
  <2>2. CASE UNCHANGED vars \/ Publish \/ Tick \/ SetBack
    BY <1>3, <2>2 DEF vars, Publish, Tick, SetBack
  <2>3. CASE Restart
    BY <1>3, <2>3, Resting DEF Restart
  <2> QED
    BY <2>1, <2>2, <2>3 DEF Next
<1> QED
  BY <1>2, <1>3

\* No request goes out inside a recorded window.
THEOREM GatesAreKept == Spec => GatesHold
<1> DEFINE P(t) == /\ ~Throttled(file.state, th[t].at)
                   /\ ~Fresh(file.state, th[t].at) \/ th[t].force
<1>1. ASSUME IInv, [Next]_vars, NEW t \in Threads,
             th[t].pc = "ask", th'[t].pc = "waiting", Informed(t), file.kind = "record"
      PROVE  P(t)
  <2>1. PICK at : at = th[t].at
    OBVIOUS
  <2>2. /\ at \in Int /\ th[t].state = ReadCache(at) /\ ~ReadCache(at).invalid
        /\ MayAsk(ReadCache(at), at, th[t].force)
    BY <1>1, <2>1 DEF IInv, Thread, Sees, Holding, Informed
  <2>3. PICK s : s = ReadCache(at)
    OBVIOUS
  <2>4. /\ s.checked = file.state.checked /\ s.error = file.state.error
        /\ s.retry \in {file.state.retry, at + MaxBackoff}
    BY <1>1, <2>2, <2>3, WhatWasRead
  <2>5. file.state.retry \in Int /\ MaxBackoff \in Nat \ {0}
    BY <1>1, UpdateAssumption DEF IInv, File, State, UpdateAssumption
  <2>6. ~Throttled(file.state, at)
    BY <2>2, <2>3, <2>4, <2>5 DEF MayAsk, Throttled
  <2>7. ~Fresh(file.state, at) \/ th[t].force
    BY <2>2, <2>3, <2>4 DEF MayAsk, Fresh
  <2> QED
    BY <2>1, <2>6, <2>7
<1>2. IInv /\ [Next]_vars =>
        [\A t \in Threads :
           /\ th[t].pc = "ask" /\ th'[t].pc = "waiting"
           /\ Informed(t)
           /\ file.kind = "record"
           => P(t)]_vars
  BY <1>1
<1> QED
  BY <1>2, InitHolds, StepKeeps, PTL DEF Spec, GatesHold

\* A success records what the source serves.
THEOREM SuccessesAreCurrent == Spec => SuccessIsCurrent
<1>1. ASSUME IInv, [Next]_vars, file' # file, file'.state.error \in Success
      PROVE  file'.state.release = Offered(site)
  <2>1. PICK t \in Threads : Answer(t)
    BY <1>1, WhoActs
  <2>2. PICK s \in State : Record(t, s) /\ (s.error \in Success => s.release = Offered(site))
    BY <1>1, <2>1, AnswerWrites
  <2>3. file'.state = s
    BY <1>1, <2>2 DEF Record
  <2> QED
    BY <1>1, <2>2, <2>3
<1>2. IInv /\ [Next]_vars =>
        [file' # file /\ file'.state.error \in {"none", "no_published_release"}
           => file'.state.release = Offered(site)]_vars
  BY <1>1 DEF Success
<1> QED
  BY <1>2, InitHolds, StepKeeps, PTL DEF Spec, SuccessIsCurrent

\* A failure records what was known before.
THEOREM FailuresForgetNothing == Spec => FailureForgetsNothing
<1> DEFINE Same == /\ file'.state.release = file.state.release
                   /\ file'.state.checked = file.state.checked
                   /\ file'.state.validator = file.state.validator
<1>1. ASSUME IInv, [Next]_vars, NEW t \in Threads, lock = t, Informed(t),
             file.kind = "record", file' # file, file'.state.error \notin Success
      PROVE  Same
  <2>1. PICK u \in Threads : Answer(u)
    BY <1>1, WhoActs
  <2>2. u = t /\ th[t].pc = "waiting"
    BY <1>1, <2>1, AnswerWrites DEF IInv, Holding
  <2>3. PICK s \in State :
          /\ Record(t, s)
          /\ s.error \notin Success => /\ s.release = th[t].state.release
                                       /\ s.checked = th[t].state.checked
                                       /\ s.validator = th[t].state.validator
    BY <1>1, <2>1, <2>2, AnswerWrites
  <2>4. file'.state = s
    BY <1>1, <2>3 DEF Record
  <2>5. PICK at : at = th[t].at
    OBVIOUS
  <2>6. at \in Int /\ th[t].state = ReadCache(at) /\ ~ReadCache(at).invalid
    BY <1>1, <2>2, <2>5 DEF IInv, Thread, Sees, Holding, Informed
  <2>7. /\ th[t].state.release = file.state.release
        /\ th[t].state.checked = file.state.checked
        /\ th[t].state.validator = file.state.validator
    BY <1>1, <2>6, WhatWasRead
  <2> QED
    BY <1>1, <2>3, <2>4, <2>7
<1>2. IInv /\ [Next]_vars =>
        [\A t \in Threads :
           /\ lock = t /\ Informed(t)
           /\ file.kind = "record" /\ file' # file
           /\ file'.state.error \notin {"none", "no_published_release"}
           => Same]_vars
  BY <1>1 DEF Success
<1> QED
  BY <1>2, InitHolds, StepKeeps, PTL DEF Spec, FailureForgetsNothing

\* Of finitely many releases with a version finitely many versions are taken.
LEMMA AcceptedIsFinite ==
  ASSUME NEW p \in Publications
  PROVE  Accepted(p) \in SUBSET Versions /\ IsFiniteSet(Accepted(p))
<1> DEFINE R == {r \in p.releases : Acceptable(r)}
           f == [raw \in R |-> raw.version]
<1>1. IsFiniteSet(p.releases) /\ \A raw \in p.releases : raw.version \in Versions
  BY VersionsAssumption DEF VersionsAssumption
<1>2. IsFiniteSet(R)
  BY <1>1, FS_Subset
<1>3. Accepted(p) = {raw.version : raw \in R}
  BY DEF Accepted
<1>4. f \in Surjection(R, Accepted(p))
  BY <1>3 DEF Surjection
<1>5. IsFiniteSet(Accepted(p))
  <2> HIDE DEF f, R
  <2> QED
    BY <1>2, <1>4, FS_Surjection
<1> QED
  BY <1>1, <1>3, <1>5

\* What a publication offers is its newest acceptable version.
LEMMA OfferedIsNewest ==
  ASSUME NEW p \in Publications, NEW v \in Offered(p)
  PROVE  /\ v \in Accepted(p) /\ v \in Versions
         /\ channel = "stable" => ~IsPrerelease(v)
         /\ \A w \in Accepted(p) : ~Earlier(v, w)
<1>1. Accepted(p) # {} /\ v = Newest(Accepted(p))
  BY DEF Offered
<1>2. v \in Accepted(p) /\ \A w \in Accepted(p) : w # v => Precedes(w, v)
  BY <1>1, AcceptedIsFinite, NewestFollowsAll
<1>3. v \in Versions
  BY <1>2, AcceptedIsFinite
<1>4. ASSUME NEW w \in Accepted(p), Earlier(v, w) PROVE FALSE
  <2>1. w \in Versions /\ Precedes(v, w)
    BY <1>3, <1>4, AcceptedIsFinite, ComparesAsReference
  <2>2. v # w
    BY <1>3, <2>1, VersionsAreOrdered
  <2>3. Precedes(w, v)
    BY <1>2, <2>2
  <2> QED
    BY <1>3, <2>1, <2>3, VersionsAreOrdered
<1>5. ASSUME channel = "stable" PROVE ~IsPrerelease(v)
  BY <1>2, <1>5 DEF Accepted, Acceptable
<1> QED
  BY <1>2, <1>3, <1>4, <1>5

\* An update is announced exactly when a later release is shown, and what is
\* shown is the newest acceptable release of a publication.
THEOREM OnlyNewerIsOffered == Spec => []OffersOnlyNewer
<1>1. ASSUME IInv, NEW s \in State
      PROVE  /\ StatusOf(s) = "update_available" <=> \E v \in s.release : Earlier(Current, v)
             /\ \A v \in s.release :
                  /\ channel = "stable" => ~IsPrerelease(v)
                  /\ \E p \in Publications :
                       v \in Accepted(p) /\ \A w \in Accepted(p) : ~Earlier(v, w)
  <2>1. \A v \in s.release : \E p \in Publications : v \in Offered(p)
    BY DEF State, Releases
  <2>2. \A v \in s.release : Precedes(Current, v) <=> Earlier(Current, v)
    BY <2>1, OfferedIsNewest, ComparesAsReference, VersionsAssumption
       DEF VersionsAssumption
  <2>3. StatusOf(s) = "update_available" <=> \E v \in s.release : Precedes(Current, v)
    BY DEF StatusOf
  <2> QED
    BY <2>1, <2>2, <2>3, OfferedIsNewest
<1>2. IInv => OffersOnlyNewer
  <2> SUFFICES ASSUME IInv PROVE OffersOnlyNewer
    OBVIOUS
  <2>1. ReadCache(now) \in State
    BY ReadingOK DEF IInv
  <2>2. \A t \in Threads : th[t].state \in State
    BY DEF IInv, Thread
  <2> QED
    BY <1>1, <2>1, <2>2 DEF OffersOnlyNewer
<1> QED
  BY <1>2, InitHolds, StepKeeps, PTL DEF Spec
=============================================================================
