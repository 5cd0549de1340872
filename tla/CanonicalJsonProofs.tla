------------------------- MODULE CanonicalJsonProofs -------------------------
(***************************************************************************)
(* Theorems about the canonical JSON text: for every set of leaf documents *)
(* and keys, every normalisation, every range of safe integers, and        *)
(* documents of any size and depth, the implementations accept the same    *)
(* documents, give them the same text, and give the same text to two       *)
(* documents exactly when they say the same.                               *)
(*                                                                         *)
(* The inductive invariant says these three things of the parts that the   *)
(* calls on finished documents have returned. A step finishes or extends   *)
(* one document, so the induction over the steps is the induction over the *)
(* structure of documents.                                                 *)
(***************************************************************************)
EXTENDS CanonicalJson, FiniteSetTheorems, TLAPS

-----------------------------------------------------------------------------
(* Sorting: LexicallyBefore is a strict total order, and sorting by a strict *)
(* total order permutes.                                                     *)

\* A non-empty set of naturals has a least one: the sets 0 .. x are finite, and
\* strict inclusion is well-founded on finite sets.
LEMMA LeastNatural ==
  ASSUME NEW T \in SUBSET Nat, T # {}
  PROVE  \E x \in T : \A y \in T : x <= y
<1> DEFINE Below == {0 .. x : x \in T}
<1>1. IsWellFoundedOn(StrictSubsetOrdering(Nat), FiniteSubsetsOf(Nat))
  BY FS_StrictSubsetOrderingWellFounded
<1>2. Below # {} /\ Below \subseteq FiniteSubsetsOf(Nat)
  <2>1. \A x \in T : 0 .. x \in SUBSET Nat /\ IsFiniteSet(0 .. x)
    BY FS_Interval
  <2> QED BY <2>1 DEF FiniteSubsetsOf
<1>3. PICK low \in Below : \A b \in Below : <<b, low>> \notin StrictSubsetOrdering(Nat)
  <2> HIDE DEF Below
  <2> QED BY <1>1, <1>2, WFMin
<1>4. PICK x \in T : low = 0 .. x
  OBVIOUS
<1>5. ASSUME NEW y \in T, y < x  PROVE FALSE
  <2>1. 0 .. y \in Below
    OBVIOUS
  <2>2. <<0 .. y, 0 .. x>> \notin StrictSubsetOrdering(Nat)
    BY <2>1, <1>3, <1>4
  <2>3. 0 .. y \subseteq 0 .. x /\ 0 .. y # 0 .. x /\ 0 .. x \subseteq Nat
    <3>1. x \in 0 .. x /\ x \notin 0 .. y
      BY <1>5
    <3> QED BY <1>5, <3>1
  <2> QED BY <2>2, <2>3 DEF StrictSubsetOrdering
<1> QED BY <1>5

\* Two sequences differ at a first place, which decides their order.
LEMMA LexicalOrderIsTotal ==
  ASSUME NEW a \in Seq(Nat), NEW b \in Seq(Nat), a # b
  PROVE  LexicallyBefore(a, b) \/ LexicallyBefore(b, a)
<1> DEFINE Diff == {i \in Nat : i >= 1 /\ (i > Len(a) \/ i > Len(b) \/ a[i] # b[i])}
<1>1. Len(a) + 1 \in Diff
  OBVIOUS
<1>2. PICK i \in Diff : \A j \in Diff : i <= j
  <2> Diff \in SUBSET Nat /\ Diff # {}
    BY <1>1
  <2> HIDE DEF Diff
  <2> QED BY LeastNatural
<1> DEFINE n == i - 1
<1>3. n \in Nat /\ n <= Len(a) /\ n <= Len(b) /\ \A j \in 1 .. n : a[j] = b[j]
  <2>1. \A j \in 1 .. n : j \notin Diff
    BY <1>2
  <2>2. \A j \in 1 .. n : j <= Len(a) /\ j <= Len(b) /\ a[j] = b[j]
    BY <2>1, <1>2
  <2>3. n \in Nat
    BY <1>2
  <2>4. n = 0 \/ n \in 1 .. n
    BY <2>3
  <2> QED BY <2>2, <2>3, <2>4
<1>5. CASE n = Len(a) /\ n = Len(b)
  BY <1>5, <1>3
<1>6. CASE n = Len(a) /\ n < Len(b)
  <2> HIDE DEF n
  <2>1. n \in 0 .. Len(a) /\ ~(n < Len(a))
    BY <1>6, <1>3
  <2> QED BY <1>6, <1>3, <2>1 DEF LexicallyBefore
<1>7. CASE n = Len(b) /\ n < Len(a)
  <2> HIDE DEF n
  <2>1. n \in 0 .. Len(b) /\ ~(n < Len(b))
    BY <1>7, <1>3
  <2> QED BY <1>7, <1>3, <2>1 DEF LexicallyBefore
<1>8. CASE n < Len(b) /\ n < Len(a)
  <2>1. a[n+1] # b[n+1] /\ a[n+1] \in Nat /\ b[n+1] \in Nat
    BY <1>8, <1>2, <1>3
  <2>2. a[n+1] < b[n+1] \/ b[n+1] < a[n+1]
    BY <2>1
  <2> HIDE DEF n
  <2> QED BY <1>8, <1>3, <2>2 DEF LexicallyBefore
<1> QED BY <1>3, <1>5, <1>6, <1>7, <1>8

\* No sequence comes before itself, and the order is transitive.
LEMMA LexicalOrderIsStrict ==
  ASSUME NEW a \in Seq(Nat), NEW b \in Seq(Nat), NEW c \in Seq(Nat)
  PROVE  /\ ~ LexicallyBefore(a, a)
         /\ LexicallyBefore(a, b) /\ LexicallyBefore(b, c) => LexicallyBefore(a, c)
<1>1. ~ LexicallyBefore(a, a)
  BY DEF LexicallyBefore
<1>2. ASSUME LexicallyBefore(a, b), LexicallyBefore(b, c)  PROVE LexicallyBefore(a, c)
  <2>1. PICK m \in 0 .. Len(a) : m < Len(b) /\ (\A i \in 1 .. m : a[i] = b[i])
                                 /\ (m < Len(a) => a[m + 1] < b[m + 1])
    BY <1>2 DEF LexicallyBefore
  <2>2. PICK n \in 0 .. Len(b) : n < Len(c) /\ (\A i \in 1 .. n : b[i] = c[i])
                                 /\ (n < Len(b) => b[n + 1] < c[n + 1])
    BY <1>2 DEF LexicallyBefore
  <2>3. CASE m <= n
    <3>1. m < Len(c) /\ \A i \in 1 .. m : a[i] = c[i]
      BY <2>1, <2>2, <2>3
    <3>2. m < Len(a) => a[m + 1] < c[m + 1]
      <4>1. ASSUME m = n, m < Len(a)  PROVE a[m + 1] < c[m + 1]
        <5>1. a[m + 1] \in Nat /\ b[m + 1] \in Nat /\ c[m + 1] \in Nat
          BY <2>1, <2>2, <4>1, SMTT(30)
        <5>2. a[m + 1] < b[m + 1] /\ b[m + 1] < c[m + 1]
          BY <2>1, <2>2, <4>1
        <5> QED BY <5>1, <5>2
      <4>2. CASE m < n
        BY <2>1, <2>2, <4>2
      <4> QED BY <2>3, <4>1, <4>2
    <3> QED BY <3>1, <3>2 DEF LexicallyBefore
  <2>4. CASE n < m
    <3>1. n < Len(c) /\ \A i \in 1 .. n : a[i] = c[i]
      BY <2>1, <2>2, <2>4
    <3>2. n < Len(a) /\ a[n + 1] < c[n + 1]
      BY <2>1, <2>2, <2>4
    <3>3. n \in 0 .. Len(a)
      BY <3>2
    <3> QED BY <3>1, <3>2, <3>3 DEF LexicallyBefore
  <2> QED BY <2>3, <2>4
<1> QED BY <1>1, <1>2

\* A relation is a strict total order on a set.
StrictOrder(S, before) ==
  /\ \A x \in S : <<x, x>> \notin before
  /\ \A x, y, z \in S : <<x, y>> \in before /\ <<y, z>> \in before => <<x, z>> \in before
  /\ \A x, y \in S : x # y => <<x, y>> \in before \/ <<y, x>> \in before

\* Ordered lists every element once: the number of elements before an element is
\* its place, and no two elements have the same one.
LEMMA OrderedIsPermutation ==
  ASSUME NEW S, IsFiniteSet(S), NEW before, StrictOrder(S, before)
  PROVE  /\ DOMAIN Ordered(S, before) = 1 .. Cardinality(S)
         /\ Range(Ordered(S, before)) = S
         /\ \A i, j \in 1 .. Cardinality(S) :
              Ordered(S, before)[i] = Ordered(S, before)[j] => i = j
<1> DEFINE n == Cardinality(S)
           under(x) == {y \in S : <<y, x>> \in before}
           rank == [x \in S |-> Cardinality(under(x))]
<1>1. n \in Nat
  BY FS_CardinalityType
<1>2. \A x \in S : IsFiniteSet(under(x)) /\ Cardinality(under(x)) \in 0 .. n - 1
  <2> SUFFICES ASSUME NEW x \in S
               PROVE  IsFiniteSet(under(x)) /\ Cardinality(under(x)) \in 0 .. n - 1
    OBVIOUS
  <2>1. under(x) \in SUBSET S /\ under(x) # S
    BY DEF StrictOrder
  <2> HIDE DEF under
  <2>2. IsFiniteSet(under(x)) /\ Cardinality(under(x)) <= n /\ Cardinality(under(x)) # n
    BY <2>1, FS_Subset
  <2>3. Cardinality(under(x)) \in Nat
    BY <2>2, FS_CardinalityType
  <2> QED BY <1>1, <2>2, <2>3
<1>3. ASSUME NEW x \in S, NEW y \in S, <<x, y>> \in before
      PROVE  Cardinality(under(x)) # Cardinality(under(y))
  <2>1. under(x) \in SUBSET under(y) /\ under(x) # under(y)
    BY <1>3 DEF StrictOrder
  <2>2. IsFiniteSet(under(y))
    BY <1>2
  <2> HIDE DEF under
  <2> QED BY <2>1, <2>2, FS_Subset
<1>4. \A x, y \in S : Cardinality(under(x)) = Cardinality(under(y)) => x = y
  <2> SUFFICES ASSUME NEW x \in S, NEW y \in S, x # y
               PROVE  Cardinality(under(x)) # Cardinality(under(y))
    OBVIOUS
  <2>1. <<x, y>> \in before \/ <<y, x>> \in before
    BY DEF StrictOrder
  <2> HIDE DEF under
  <2> QED BY <2>1, <1>3
<1>5. rank \in Injection(S, 0 .. n - 1)
  <2> HIDE DEF under
  <2> QED BY <1>2, <1>4 DEF Injection, IsInjective
<1>6. rank \in Surjection(S, 0 .. n - 1)
  <2>1. IsFiniteSet(0 .. n - 1) /\ Cardinality(0 .. n - 1) = n
    <3> HIDE DEF n
    <3> QED BY <1>1, FS_Interval
  <2> HIDE DEF rank
  <2> QED BY <1>5, <2>1, FS_Injection
<1>7. \A r \in 1 .. n : \E x \in S : Cardinality(under(x)) = r - 1
  <2> SUFFICES ASSUME NEW r \in 1 .. n  PROVE \E x \in S : Cardinality(under(x)) = r - 1
    OBVIOUS
  <2>1. r - 1 \in 0 .. n - 1
    BY <1>1
  <2>2. \E x \in S : rank[x] = r - 1
    <3> HIDE DEF rank, n
    <3> QED BY <2>1, <1>6 DEF Surjection
  <2> HIDE DEF under
  <2> QED BY <2>2
<1> DEFINE o == Ordered(S, before)
<1>8. DOMAIN o = 1 .. n /\ \A r \in 1 .. n : o[r] \in S /\ Cardinality(under(o[r])) = r - 1
  <2>1. o = [r \in 1 .. n |-> CHOOSE x \in S : Cardinality(under(x)) = r - 1]
    BY DEF Ordered
  <2> HIDE DEF o, n, under
  <2> QED BY <2>1, <1>7
<1>9. \A i, j \in 1 .. n : o[i] = o[j] => i = j
  <2> HIDE DEF o, under
  <2> QED BY <1>1, <1>8
<1>10. \A x \in S : \E r \in 1 .. n : o[r] = x
  <2> SUFFICES ASSUME NEW x \in S  PROVE \E r \in 1 .. n : o[r] = x
    OBVIOUS
  <2> HIDE DEF o, under, n
  <2> DEFINE r == Cardinality(under(x)) + 1
  <2>1. r \in 1 .. n /\ r - 1 = Cardinality(under(x))
    BY <1>1, <1>2
  <2> HIDE DEF r
  <2> QED BY <2>1, <1>8, <1>4
<1>11. Range(o) = S
  <2> HIDE DEF o, n
  <2> QED BY <1>8, <1>10 DEF Range
<1> QED BY <1>8, <1>9, <1>11

-----------------------------------------------------------------------------
(* The entries of a map, sorted and enumerated *)

\* The order in which ByKey sorts.
KeyOrder(E) == {p \in E \X E : CodePointOrder(p[1][1], p[2][1])}

\* The members of a normalised map: one entry for each of some strings.
OneEntryPerKey(E) ==
  /\ \A e \in E : e[1] \in Strings
  /\ \A e, f \in E : e[1] = f[1] => e = f

\* Entries with different keys are in a strict total order, because a string is its
\* code points.
LEMMA KeyOrderIsStrict ==
  ASSUME NEW E, OneEntryPerKey(E)
  PROVE  StrictOrder(E, KeyOrder(E))
<1>1. \A e \in E : CodePoints[e[1]] \in Seq(Nat)
  BY StringsAreCodePoints DEF OneEntryPerKey
<1>2. ASSUME NEW e \in E  PROVE <<e, e>> \notin KeyOrder(E)
  BY <1>1, LexicalOrderIsStrict DEF KeyOrder, CodePointOrder
<1>3. ASSUME NEW e \in E, NEW f \in E, NEW g \in E,
             <<e, f>> \in KeyOrder(E), <<f, g>> \in KeyOrder(E)
      PROVE  <<e, g>> \in KeyOrder(E)
  <2>1. LexicallyBefore(CodePoints[e[1]], CodePoints[f[1]])
        /\ LexicallyBefore(CodePoints[f[1]], CodePoints[g[1]])
    BY <1>3 DEF KeyOrder, CodePointOrder
  <2>2. LexicallyBefore(CodePoints[e[1]], CodePoints[g[1]])
    BY <1>1, <2>1, LexicalOrderIsStrict
  <2> QED BY <2>2 DEF KeyOrder, CodePointOrder
<1>4. ASSUME NEW e \in E, NEW f \in E, e # f
      PROVE  <<e, f>> \in KeyOrder(E) \/ <<f, e>> \in KeyOrder(E)
  <2>1. CodePoints[e[1]] # CodePoints[f[1]]
    BY <1>4, StringsAreCodePoints DEF OneEntryPerKey
  <2>2. \/ LexicallyBefore(CodePoints[e[1]], CodePoints[f[1]])
        \/ LexicallyBefore(CodePoints[f[1]], CodePoints[e[1]])
    BY <1>1, <2>1, LexicalOrderIsTotal
  <2> QED BY <2>2 DEF KeyOrder, CodePointOrder
<1> HIDE DEF KeyOrder
<1> QED BY <1>2, <1>3, <1>4 DEF StrictOrder

\* Sorting the entries of a map loses and adds none.
LEMMA ByKeyPermutes ==
  ASSUME NEW entries, IsFiniteSet(Range(entries)), OneEntryPerKey(Range(entries))
  PROVE  /\ DOMAIN ByKey(entries) = 1 .. Cardinality(Range(entries))
         /\ Range(ByKey(entries)) = Range(entries)
         /\ \A i, j \in DOMAIN ByKey(entries) :
              ByKey(entries)[i] = ByKey(entries)[j] => i = j
<1> DEFINE E == Range(entries)
<1>1. StrictOrder(E, KeyOrder(E))
  BY KeyOrderIsStrict
<1>2. ByKey(entries) = Ordered(E, KeyOrder(E))
  BY DEF ByKey, KeyOrder
<1> HIDE DEF E
<1>3. IsFiniteSet(E)
  BY DEF E
<1>4. /\ DOMAIN Ordered(E, KeyOrder(E)) = 1 .. Cardinality(E)
      /\ Range(Ordered(E, KeyOrder(E))) = E
      /\ \A i, j \in 1 .. Cardinality(E) :
           Ordered(E, KeyOrder(E))[i] = Ordered(E, KeyOrder(E))[j] => i = j
  BY <1>1, <1>3, OrderedIsPermutation
<1> QED BY <1>2, <1>4 DEF E

\* The order in which JavaScript enumerates an object does not matter to its text.
LEMMA EnumerationPermutes ==
  ASSUME NEW n \in Nat, NEW object, DOMAIN object = 1 .. n,
         \A i, j \in 1 .. n : object[i][1] = object[j][1] => i = j
  PROVE  Range(Enumerated(object)) = Range(object)
<1> DEFINE places == 1 .. n
           index(i) == object[i][1] \in DOMAIN ArrayIndex
           sooner(i, j) == IF index(i) /\ index(j)
                           THEN ArrayIndex[object[i][1]] < ArrayIndex[object[j][1]]
                           ELSE index(i) \/ (~index(j) /\ i < j)
           earlier == {p \in places \X places : sooner(p[1], p[2])}
           order == Ordered(places, earlier)
<1>1. Enumerated(object) = [r \in places |-> object[order[r]]]
  BY DEF Enumerated
<1>2. \A i \in places : index(i) => ArrayIndex[object[i][1]] \in Nat
  BY IndexesAreCanonical
<1>3. \A i, j \in places :
        index(i) /\ index(j) /\ ArrayIndex[object[i][1]] = ArrayIndex[object[j][1]] => i = j
  BY IndexesAreCanonical
<1>4. \A i \in places : ~ sooner(i, i)
  BY <1>2
<1>5. \A i, j, k \in places : sooner(i, j) /\ sooner(j, k) => sooner(i, k)
  BY <1>2
<1>6. \A i, j \in places : i # j => sooner(i, j) \/ sooner(j, i)
  BY <1>2, <1>3
<1>7. \A i, j \in places : <<i, j>> \in earlier <=> sooner(i, j)
  OBVIOUS
<1>8. StrictOrder(places, earlier)
  <2> HIDE DEF earlier, sooner, places
  <2> QED BY <1>4, <1>5, <1>6, <1>7 DEF StrictOrder
<1>9. IsFiniteSet(places) /\ Cardinality(places) = n
  BY FS_Interval
<1>10. DOMAIN order = places /\ Range(order) = places
  <2>1. 1 .. Cardinality(places) = places
    BY <1>9
  <2> HIDE DEF earlier, places
  <2> QED BY <1>8, <1>9, <2>1, OrderedIsPermutation
<1> HIDE DEF order, places
<1>11. DOMAIN object = places
  BY DEF places
<1>12. (\A r \in places : order[r] \in places)
       /\ \A i \in places : \E r \in places : order[r] = i
  BY <1>10 DEF Range
<1>13. DOMAIN Enumerated(object) = places
       /\ \A r \in places : Enumerated(object)[r] = object[order[r]]
  BY <1>1
<1> DEFINE listed == Enumerated(object)
<1> HIDE DEF listed
<1>14. Range(listed) = {object[i] : i \in places}
  <2>1. Range(listed) = {listed[r] : r \in places}
    BY <1>13 DEF Range, listed
  <2>2. \A r \in places : listed[r] = object[order[r]]
    BY <1>13 DEF listed
  <2>3. \A r \in places : listed[r] \in {object[i] : i \in places}
    BY <2>2, <1>12
  <2>4. ASSUME NEW i \in places  PROVE object[i] \in {listed[r] : r \in places}
    <3>1. PICK r \in places : order[r] = i
      BY <1>12
    <3>2. listed[r] = object[i]
      BY <2>2, <3>1
    <3> QED BY <3>2
  <2> QED BY <2>1, <2>3, <2>4
<1> QED BY <1>11, <1>14 DEF Range, listed

\* Node sorts the sorted entries of a map into the same order again.
LEMMA NodeKeepsTheOrder ==
  ASSUME NEW entries, IsFiniteSet(Range(entries)), OneEntryPerKey(Range(entries))
  PROVE  Encoded(ByKey(entries)) = ByKey(entries)
<1> DEFINE object == ByKey(entries)
           n == Cardinality(Range(entries))
<1>1. DOMAIN object = 1 .. n /\ Range(object) = Range(entries)
      /\ \A i, j \in 1 .. n : object[i] = object[j] => i = j
  BY ByKeyPermutes
<1>2. n \in Nat
  BY FS_CardinalityType
<1>3. \A i \in 1 .. n : object[i] \in Range(entries)
  <2> HIDE DEF object, n
  <2> QED BY <1>1 DEF Range
<1>4. \A i, j \in 1 .. n : object[i][1] = object[j][1] => i = j
  <2> HIDE DEF object, n
  <2> QED BY <1>1, <1>3 DEF OneEntryPerKey
<1>5. Range(Enumerated(object)) = Range(object)
  <2> HIDE DEF object, n
  <2> QED BY <1>1, <1>2, <1>4, EnumerationPermutes
<1>6. Range(Enumerated(object)) = Range(entries)
  BY <1>1, <1>5
<1>7. ByKey(Enumerated(object)) = ByKey(entries)
  <2> HIDE DEF object
  <2> QED BY <1>6 DEF ByKey
<1> QED BY <1>7 DEF Encoded

-----------------------------------------------------------------------------
(* Documents, and what the calls on them return *)

\* What LeavesHaveNoMembers says of a leaf.
IsLeaf(v) ==
  \/ v = <<"null">>
  \/ v \in {"bool"} \X BOOLEAN
  \/ v \in {"num"} \X Int \X Forms
  \/ v \in {"str", "bytes"} \X Strings
  \/ v \in {"list", "map"} \X {<< >>}

\* A document whose members are of a set of parts.
IsDocument(v, P) ==
  \/ v = <<"null">>
  \/ \E b \in BOOLEAN : v = <<"bool", b>>
  \/ \E n \in Int, form \in Forms : v = <<"num", n, form>>
  \/ \E s \in Strings : v = <<"str", s>>
  \/ \E hex \in Strings : v = <<"bytes", hex>>
  \/ \E members \in Seq(P) : v = <<"list", members>>
  \/ \E entries \in Seq(Keys \X P) : v = <<"map", entries>>

\* A leaf is a document, whatever parts there are.
LEMMA LeafIsDocument ==
  ASSUME NEW P, NEW v \in Leaves
  PROVE  IsDocument(v, P)
<1>1. IsLeaf(v)
  BY LeavesHaveNoMembers DEF IsLeaf
<1>2. << >> \in Seq(P) /\ << >> \in Seq(Keys \X P)
  OBVIOUS
<1>3. CASE v \in {"num"} \X Int \X Forms
  <2>1. v = <<"num", v[2], v[3]>> /\ v[2] \in Int /\ v[3] \in Forms
    BY <1>3
  <2> QED BY <2>1 DEF IsDocument
<1>4. CASE v \in {"bool"} \X BOOLEAN
  <2>1. v = <<"bool", v[2]>> /\ v[2] \in BOOLEAN
    BY <1>4
  <2> QED BY <2>1 DEF IsDocument
<1>5. CASE v \in {"str", "bytes"} \X Strings
  <2>1. (v = <<"str", v[2]>> \/ v = <<"bytes", v[2]>>) /\ v[2] \in Strings
    BY <1>5
  <2> QED BY <2>1 DEF IsDocument
<1>6. CASE v \in {"list", "map"} \X {<< >>}
  <2>1. v = <<"list", << >> >> \/ v = <<"map", << >> >>
    BY <1>6
  <2> QED BY <2>1, <1>2 DEF IsDocument
<1> QED BY <1>1, <1>3, <1>4, <1>5, <1>6 DEF IsLeaf, IsDocument

\* A document stays one when there are more parts.
LEMMA MoreParts ==
  ASSUME NEW P, NEW Q, P \subseteq Q, NEW v, IsDocument(v, P)
  PROVE  IsDocument(v, Q)
<1>1. Seq(P) \subseteq Seq(Q) /\ Seq(Keys \X P) \subseteq Seq(Keys \X Q)
  <2>1. Keys \X P \subseteq Keys \X Q
    OBVIOUS
  <2> DEFINE KP == Keys \X P
             KQ == Keys \X Q
  <2> HIDE DEF KP, KQ
  <2>2. Seq(KP) \subseteq Seq(KQ)
    BY <2>1 DEF KP, KQ
  <2> QED BY <2>2 DEF KP, KQ
<1> QED BY <1>1 DEF IsDocument

\* A part holds what the calls on its document return.
LEMMA PartFields ==
  ASSUME NEW v
  PROVE  /\ Part(v).python["local"] = PythonLocal(v)
         /\ Part(v).python["portable"] = PythonPortable(v)
         /\ Part(v).go = Go(v) /\ Part(v).node = Node(v) /\ Part(v).meaning = Meaning(v)
         /\ Part(v).inProfile = InProfile(v) /\ Part(v).noMinusZero = NoMinusZero(v)
         /\ Part(v).floats = FloatsStayFloats(v) /\ Part(v).scalar = ScalarStrings(v)
  BY DEF Part, PythonLocal, PythonPortable

\* The calls on a list, in terms of its members.
LEMMA ListCalls ==
  ASSUME NEW members, NEW profile
  PROVE  /\ Python(<<"list", members>>, profile) =
              IF \E i \in DOMAIN members : members[i].python[profile] = Rejected
              THEN Rejected
              ELSE <<"list", [i \in DOMAIN members |-> members[i].python[profile]]>>
         /\ Go(<<"list", members>>) =
              IF \E i \in DOMAIN members : members[i].go = Rejected
              THEN Rejected ELSE <<"list", [i \in DOMAIN members |-> members[i].go]>>
         /\ Node(<<"list", members>>) =
              IF \E i \in DOMAIN members : members[i].node = Rejected
              THEN Rejected ELSE <<"list", [i \in DOMAIN members |-> members[i].node]>>
<1> DEFINE v == <<"list", members>>
<1>1. Kind(v) = "list" /\ v[2] = members
  BY DEF Kind
<1> HIDE DEF v
<1>2. Python(v, profile) =
        IF \E i \in DOMAIN members : members[i].python[profile] = Rejected
        THEN Rejected
        ELSE <<"list", [i \in DOMAIN members |-> members[i].python[profile]]>>
  BY <1>1 DEF Python
<1>3. Go(v) = IF \E i \in DOMAIN members : members[i].go = Rejected
              THEN Rejected ELSE <<"list", [i \in DOMAIN members |-> members[i].go]>>
  BY <1>1 DEF Go
<1>4. Node(v) = IF \E i \in DOMAIN members : members[i].node = Rejected
                THEN Rejected ELSE <<"list", [i \in DOMAIN members |-> members[i].node]>>
  BY <1>1 DEF Node
<1> QED BY <1>2, <1>3, <1>4 DEF v

\* The entries of a map as each implementation normalises them.
PythonEntries(entries, profile) ==
  [i \in DOMAIN entries |-> <<Nfc(entries[i][1]), entries[i][2].python[profile]>>]
GoEntries(entries) == [i \in DOMAIN entries |-> <<GoString(entries[i][1]), entries[i][2].go>>]
NodeEntries(entries) == [i \in DOMAIN entries |-> <<Nfc(entries[i][1]), entries[i][2].node>>]

\* The calls on a map, in terms of its normalised entries.
LEMMA MapCalls ==
  ASSUME NEW entries, NEW profile
  PROVE  /\ Python(<<"map", entries>>, profile) =
              IF \/ \E i \in DOMAIN entries : ~ Scalar(entries[i][1])
                 \/ \E i \in DOMAIN entries : entries[i][2].python[profile] = Rejected
                 \/ Collide(KeysOf(PythonEntries(entries, profile)))
              THEN Rejected ELSE <<"map", ByKey(PythonEntries(entries, profile))>>
         /\ Go(<<"map", entries>>) =
              IF \/ Collide(KeysOf(GoEntries(entries)))
                 \/ \E i \in DOMAIN entries : entries[i][2].go = Rejected
              THEN Rejected ELSE <<"map", ByKey(GoEntries(entries))>>
         /\ Node(<<"map", entries>>) =
              IF \/ \E i \in DOMAIN entries : ~ Scalar(entries[i][1])
                 \/ Collide(KeysOf(NodeEntries(entries)))
                 \/ \E i \in DOMAIN entries : entries[i][2].node = Rejected
              THEN Rejected ELSE <<"map", Encoded(ByKey(NodeEntries(entries)))>>
<1> DEFINE v == <<"map", entries>>
           py == PythonEntries(entries, profile)
           go == GoEntries(entries)
           node == NodeEntries(entries)
<1>1. Kind(v) = "map" /\ v[2] = entries
  BY DEF Kind
<1> HIDE DEF v
<1>2. Python(v, profile) =
        IF \/ \E i \in DOMAIN entries : ~ Scalar(entries[i][1])
           \/ \E i \in DOMAIN py : py[i][2] = Rejected
        THEN Rejected ELSE PythonMap(py)
  BY <1>1 DEF Python, PythonEntries
<1>3. Go(v) = IF Collide(KeysOf(go)) \/ \E i \in DOMAIN go : go[i][2] = Rejected
              THEN Rejected ELSE <<"map", ByKey(go)>>
  BY <1>1 DEF Go, GoEntries
<1>4. Node(v) = IF \/ \E i \in DOMAIN entries : ~ Scalar(entries[i][1])
                   \/ Collide(KeysOf(node)) \/ \E i \in DOMAIN node : node[i][2] = Rejected
                THEN Rejected ELSE <<"map", Encoded(ByKey(node))>>
  BY <1>1 DEF Node, NodeEntries
<1>5. DOMAIN py = DOMAIN entries /\ DOMAIN go = DOMAIN entries /\ DOMAIN node = DOMAIN entries
      /\ \A i \in DOMAIN entries : /\ py[i][2] = entries[i][2].python[profile]
                                   /\ go[i][2] = entries[i][2].go
                                   /\ node[i][2] = entries[i][2].node
  BY DEF PythonEntries, GoEntries, NodeEntries
<1> HIDE DEF py, go, node
<1>6. Python(v, profile) =
        IF \/ \E i \in DOMAIN entries : ~ Scalar(entries[i][1])
           \/ \E i \in DOMAIN entries : entries[i][2].python[profile] = Rejected
           \/ Collide(KeysOf(py))
        THEN Rejected ELSE <<"map", ByKey(py)>>
  BY <1>2, <1>5 DEF PythonMap
<1>7. Go(v) = IF Collide(KeysOf(go)) \/ \E i \in DOMAIN entries : entries[i][2].go = Rejected
              THEN Rejected ELSE <<"map", ByKey(go)>>
  BY <1>3, <1>5
<1>8. Node(v) = IF \/ \E i \in DOMAIN entries : ~ Scalar(entries[i][1])
                   \/ Collide(KeysOf(node)) \/ \E i \in DOMAIN entries : entries[i][2].node = Rejected
                THEN Rejected ELSE <<"map", Encoded(ByKey(node))>>
  BY <1>4, <1>5
<1> QED BY <1>6, <1>7, <1>8 DEF v, py, go, node

-----------------------------------------------------------------------------
(* Which documents are accepted *)

\* Keys collide exactly when there are fewer of them than places: what Python and
\* Go find out with a map is what the profile counts.
LEMMA CollisionsAreCounted ==
  ASSUME NEW n \in Nat, NEW keys, DOMAIN keys = 1 .. n
  PROVE  Cardinality({keys[i] : i \in 1 .. n}) = n <=> ~ Collide(keys)
<1> DEFINE S == 1 .. n
           T == {keys[i] : i \in S}
           f == [i \in S |-> keys[i]]
<1>1. IsFiniteSet(S) /\ Cardinality(S) = n
  BY FS_Interval
<1>2. f \in Surjection(S, T)
  BY DEF Surjection
<1>3. Cardinality(T) = Cardinality(S) <=> f \in Injection(S, T)
  <2> HIDE DEF S, T, f
  <2> QED BY <1>1, <1>2, FS_Surjection
<1>4. f \in Injection(S, T) <=> \A i, j \in S : keys[i] = keys[j] => i = j
  BY DEF Injection, IsInjective
<1>5. (\A i, j \in S : keys[i] = keys[j] => i = j) <=> ~ Collide(keys)
  BY DEF Collide
<1> QED BY <1>1, <1>3, <1>4, <1>5

\* The keys of a map, as the implementations normalise them.
NormalKeys(entries) == [i \in DOMAIN entries |-> Nfc(entries[i][1])]

\* The implementations look for collisions among the same keys, Go when no key holds
\* a lone surrogate.
LEMMA KeysAreNormal ==
  ASSUME NEW entries, NEW profile
  PROVE  /\ KeysOf(PythonEntries(entries, profile)) = NormalKeys(entries)
         /\ KeysOf(NodeEntries(entries)) = NormalKeys(entries)
         /\ (\A i \in DOMAIN entries : Scalar(entries[i][1])) =>
              KeysOf(GoEntries(entries)) = NormalKeys(entries)
<1>1. KeysOf(PythonEntries(entries, profile)) = NormalKeys(entries)
  BY DEF KeysOf, PythonEntries, NormalKeys
<1>2. KeysOf(NodeEntries(entries)) = NormalKeys(entries)
  BY DEF KeysOf, NodeEntries, NormalKeys
<1>3. ASSUME \A i \in DOMAIN entries : Scalar(entries[i][1])
      PROVE  KeysOf(GoEntries(entries)) = NormalKeys(entries)
  BY <1>3 DEF KeysOf, GoEntries, NormalKeys, GoString, Decoded
<1> QED BY <1>1, <1>2, <1>3

\* VerdictIsTheProfile, of a part.
Verdict(p) ==
  /\ p.python["portable"] # Rejected <=> p.inProfile
  /\ p.inProfile => p.node # Rejected /\ p.go # Rejected
  /\ p.floats => (p.node # Rejected <=> p.inProfile)
  /\ p.scalar => (p.go # Rejected <=> p.inProfile)
  /\ p.node # Rejected /\ p.go # Rejected => p.inProfile

\* Numbers, strings and byte strings: every check is that of the profile.
LEMMA VerdictOfLeaf ==
  ASSUME NEW v,
         \/ v = <<"null">>
         \/ \E b \in BOOLEAN : v = <<"bool", b>>
         \/ \E n \in Int, form \in Forms : v = <<"num", n, form>>
         \/ \E s \in Strings : v = <<"str", s>>
         \/ \E hex \in Strings : v = <<"bytes", hex>>
  PROVE  Verdict(Part(v))
<1>1. CASE v = <<"null">>
  <2>1. Kind(v) = "null" /\ v # Rejected
    BY <1>1 DEF Kind, Rejected
  <2>2. InProfile(v) /\ PythonPortable(v) # Rejected /\ Node(v) # Rejected /\ Go(v) # Rejected
    BY <2>1 DEF PythonPortable, Python, Node, Go, InProfile
  <2> QED BY <2>2, PartFields DEF Verdict
<1>2. ASSUME NEW b \in BOOLEAN, v = <<"bool", b>>  PROVE Verdict(Part(v))
  <2>1. Kind(v) = "bool" /\ v # Rejected
    BY <1>2 DEF Kind, Rejected
  <2>2. InProfile(v) /\ PythonPortable(v) # Rejected /\ Node(v) # Rejected /\ Go(v) # Rejected
    BY <2>1 DEF PythonPortable, Python, Node, Go, InProfile
  <2> QED BY <2>2, PartFields DEF Verdict
<1>3. ASSUME NEW n \in Int, NEW form \in Forms, v = <<"num", n, form>>
      PROVE  Verdict(Part(v))
  <2>1. Kind(v) = "num" /\ v[2] = n /\ v[3] = form /\ v # Rejected /\ Integer(n) # Rejected
    BY <1>3 DEF Kind, Rejected, Integer
  <2>2. SafeInteger(n) <=> n \in -MaxSafeInteger .. MaxSafeInteger
    BY SafeRange DEF SafeInteger
  <2>3. InProfile(v) <=> form \notin FloatForms /\ SafeInteger(n)
    BY <2>1, <2>2 DEF InProfile
  <2>4. PythonPortable(v) # Rejected <=> form \notin FloatForms /\ SafeInteger(n)
    BY <2>1 DEF PythonPortable, Python
  <2>5. Node(v) # Rejected <=> form # "fraction" /\ SafeInteger(n)
    BY <2>1 DEF Node
  <2>6. Go(v) # Rejected <=> form \notin FloatForms /\ SafeInteger(n)
    BY <2>1 DEF Go
  <2>7. FloatsStayFloats(v) <=> form \notin {"decimal", "rounded"}
    BY <2>1 DEF FloatsStayFloats
  <2>8. form \notin FloatForms <=> form # "fraction" /\ form \notin {"decimal", "rounded"}
    BY DEF FloatForms
  <2> QED BY <2>3, <2>4, <2>5, <2>6, <2>7, <2>8, PartFields DEF Verdict
<1>4. ASSUME NEW s \in Strings, v = <<"str", s>>  PROVE Verdict(Part(v))
  <2>1. Kind(v) = "str" /\ v[2] = s /\ \A t : <<"str", t>> # Rejected
    BY <1>4 DEF Kind, Rejected
  <2>2. /\ InProfile(v) <=> Scalar(s)
        /\ PythonPortable(v) # Rejected <=> Scalar(s)
        /\ Node(v) # Rejected <=> Scalar(s)
        /\ Go(v) # Rejected
        /\ ScalarStrings(v) <=> Scalar(s)
    BY <2>1 DEF PythonPortable, Python, Node, Go, InProfile, ScalarStrings
  <2> QED BY <2>2, PartFields DEF Verdict
<1>5. ASSUME NEW hex \in Strings, v = <<"bytes", hex>>  PROVE Verdict(Part(v))
  <2>1. Kind(v) = "bytes"
    BY <1>5 DEF Kind
  <2>2. ~ InProfile(v) /\ PythonPortable(v) = Rejected /\ Node(v) = Rejected /\ Go(v) = Rejected
    BY <2>1 DEF PythonPortable, Python, Node, Go, InProfile
  <2> QED BY <2>2, PartFields DEF Verdict
<1> QED BY <1>1, <1>2, <1>3, <1>4, <1>5

\* A list is refused exactly when one of its members is.
LEMMA VerdictOfList ==
  ASSUME NEW P, \A p \in P : Verdict(p), NEW members \in Seq(P)
  PROVE  Verdict(Part(<<"list", members>>))
<1> DEFINE v == <<"list", members>>
<1>1. Kind(v) = "list" /\ v[2] = members /\ \A t : <<"list", t>> # Rejected
  BY DEF Kind, Rejected
<1>2. \A i \in DOMAIN members : Verdict(members[i])
  OBVIOUS
<1>3. /\ InProfile(v) <=> \A i \in DOMAIN members : members[i].inProfile
      /\ FloatsStayFloats(v) <=> \A i \in DOMAIN members : members[i].floats
      /\ ScalarStrings(v) <=> \A i \in DOMAIN members : members[i].scalar
  <2> HIDE DEF v
  <2> QED BY <1>1 DEF InProfile, FloatsStayFloats, ScalarStrings
<1>4. /\ PythonPortable(v) # Rejected <=> \A i \in DOMAIN members : members[i].python["portable"] # Rejected
      /\ Node(v) # Rejected <=> \A i \in DOMAIN members : members[i].node # Rejected
      /\ Go(v) # Rejected <=> \A i \in DOMAIN members : members[i].go # Rejected
  <2>1. PythonPortable(v) =
          IF \E i \in DOMAIN members : members[i].python["portable"] = Rejected
          THEN Rejected
          ELSE <<"list", [i \in DOMAIN members |-> members[i].python["portable"]]>>
    BY ListCalls DEF PythonPortable
  <2>2. PythonPortable(v) # Rejected
          <=> \A i \in DOMAIN members : members[i].python["portable"] # Rejected
    <3> HIDE DEF v
    <3> QED BY <1>1, <2>1
  <2>3. /\ Node(v) # Rejected <=> \A i \in DOMAIN members : members[i].node # Rejected
        /\ Go(v) # Rejected <=> \A i \in DOMAIN members : members[i].go # Rejected
    <3>1. Node(v) = IF \E i \in DOMAIN members : members[i].node = Rejected
                    THEN Rejected ELSE <<"list", [i \in DOMAIN members |-> members[i].node]>>
      BY ListCalls
    <3>2. Go(v) = IF \E i \in DOMAIN members : members[i].go = Rejected
                  THEN Rejected ELSE <<"list", [i \in DOMAIN members |-> members[i].go]>>
      BY ListCalls
    <3> HIDE DEF v
    <3> QED BY <1>1, <3>1, <3>2
  <2> QED BY <2>2, <2>3
<1> HIDE DEF v
<1>5. Verdict(Part(v))
  BY <1>2, <1>3, <1>4, PartFields DEF Verdict
<1> QED BY <1>5 DEF v

\* A map is refused for a key, a collision or a member, by each implementation.
LEMMA VerdictOfMap ==
  ASSUME NEW P, \A p \in P : Verdict(p), NEW entries \in Seq(Keys \X P)
  PROVE  Verdict(Part(<<"map", entries>>))
<1> DEFINE v == <<"map", entries>>
           scalarKeys == \A i \in DOMAIN entries : Scalar(entries[i][1])
           collide == Collide(NormalKeys(entries))
<1>1. Kind(v) = "map" /\ v[2] = entries /\ \A t : <<"map", t>> # Rejected
  BY DEF Kind, Rejected
<1>2. \A i \in DOMAIN entries : Verdict(entries[i][2])
  OBVIOUS
<1>3. Cardinality({Nfc(entries[i][1]) : i \in DOMAIN entries}) = Len(entries) <=> ~ collide
  <2>1. DOMAIN NormalKeys(entries) = 1 .. Len(entries) /\ Len(entries) \in Nat
        /\ DOMAIN entries = 1 .. Len(entries)
    BY DEF NormalKeys
  <2>2. {NormalKeys(entries)[i] : i \in 1 .. Len(entries)} = {Nfc(entries[i][1]) : i \in DOMAIN entries}
    BY <2>1 DEF NormalKeys
  <2> QED BY <2>1, <2>2, CollisionsAreCounted
<1>4. /\ InProfile(v) <=> /\ scalarKeys /\ ~ collide
                          /\ \A i \in DOMAIN entries : entries[i][2].inProfile
      /\ FloatsStayFloats(v) <=> \A i \in DOMAIN entries : entries[i][2].floats
      /\ ScalarStrings(v) <=> scalarKeys /\ \A i \in DOMAIN entries : entries[i][2].scalar
  <2> HIDE DEF v, collide
  <2>1. InProfile(v) <=>
          /\ \A i \in DOMAIN entries : Scalar(entries[i][1]) /\ entries[i][2].inProfile
          /\ Cardinality({Nfc(entries[i][1]) : i \in DOMAIN entries}) = Len(entries)
    BY <1>1 DEF InProfile
  <2>2. FloatsStayFloats(v) <=> \A i \in DOMAIN entries : entries[i][2].floats
    BY <1>1 DEF FloatsStayFloats
  <2>3. ScalarStrings(v) <=>
          \A i \in DOMAIN entries : Scalar(entries[i][1]) /\ entries[i][2].scalar
    BY <1>1 DEF ScalarStrings
  <2> QED BY <1>3, <2>1, <2>2, <2>3
<1>5. PythonPortable(v) # Rejected <=>
        /\ scalarKeys /\ ~ collide
        /\ \A i \in DOMAIN entries : entries[i][2].python["portable"] # Rejected
  <2> DEFINE py == PythonEntries(entries, "portable")
  <2>1. PythonPortable(v) =
          IF \/ \E i \in DOMAIN entries : ~ Scalar(entries[i][1])
             \/ \E i \in DOMAIN entries : entries[i][2].python["portable"] = Rejected
             \/ Collide(KeysOf(py))
          THEN Rejected ELSE <<"map", ByKey(py)>>
    BY MapCalls DEF PythonPortable
  <2>2. KeysOf(py) = NormalKeys(entries)
    BY KeysAreNormal
  <2> HIDE DEF v, py
  <2> QED BY <1>1, <2>1, <2>2
<1>6. Node(v) # Rejected <=>
        /\ scalarKeys /\ ~ collide /\ \A i \in DOMAIN entries : entries[i][2].node # Rejected
  BY <1>1, MapCalls, KeysAreNormal
<1>7. scalarKeys => (Go(v) # Rejected <=>
        ~ collide /\ \A i \in DOMAIN entries : entries[i][2].go # Rejected)
  BY <1>1, MapCalls, KeysAreNormal
<1> HIDE DEF v, scalarKeys, collide
<1>8. Verdict(Part(v))
  BY <1>2, <1>4, <1>5, <1>6, <1>7, PartFields DEF Verdict
<1> QED BY <1>8 DEF v

-----------------------------------------------------------------------------
(* Which text accepted documents have *)

\* LanguagesAgree, of a part.
Agreed(p) ==
  p.noMinusZero /\ p.inProfile =>
    /\ p.python["local"] = p.python["portable"]
    /\ p.go = p.python["portable"]
    /\ p.node = p.python["portable"]

\* A number written as a plain integer, and a string, have one text.
LEMMA AgreedOfLeaf ==
  ASSUME NEW v,
         \/ v = <<"null">>
         \/ \E b \in BOOLEAN : v = <<"bool", b>>
         \/ \E n \in Int, form \in Forms : v = <<"num", n, form>>
         \/ \E s \in Strings : v = <<"str", s>>
         \/ \E hex \in Strings : v = <<"bytes", hex>>
  PROVE  Agreed(Part(v))
<1> SUFFICES ASSUME NoMinusZero(v), InProfile(v)
             PROVE  /\ PythonLocal(v) = PythonPortable(v)
                    /\ Go(v) = PythonPortable(v)
                    /\ Node(v) = PythonPortable(v)
  BY PartFields DEF Agreed
<1>1. CASE Kind(v) \in {"null", "bool"}
  BY <1>1 DEF PythonPortable, PythonLocal, Python, Node, Go
<1>2. ASSUME NEW n \in Int, NEW form \in Forms, v = <<"num", n, form>>
      PROVE  /\ PythonLocal(v) = PythonPortable(v)
             /\ Go(v) = PythonPortable(v)
             /\ Node(v) = PythonPortable(v)
  <2>1. Kind(v) = "num" /\ v[2] = n /\ v[3] = form
    BY <1>2 DEF Kind
  <2>2. form = "int" /\ SafeInteger(n)
    BY <2>1, SafeRange DEF NoMinusZero, InProfile, SafeInteger, Forms, FloatForms
  <2>3. v = Integer(n)
    BY <1>2, <2>2 DEF Integer
  <2>4. PythonPortable(v) = Integer(n) /\ PythonLocal(v) = Integer(n)
    BY <2>1, <2>2 DEF PythonPortable, PythonLocal, Python, FloatForms
  <2>5. Node(v) = Integer(n) /\ Go(v) = v
    BY <2>1, <2>2 DEF Node, Go, FloatForms
  <2> QED BY <2>3, <2>4, <2>5
<1>3. ASSUME NEW s \in Strings, v = <<"str", s>>
      PROVE  /\ PythonLocal(v) = PythonPortable(v)
             /\ Go(v) = PythonPortable(v)
             /\ Node(v) = PythonPortable(v)
  <2>1. Kind(v) = "str" /\ v[2] = s
    BY <1>3 DEF Kind
  <2>2. Scalar(s)
    BY <2>1 DEF InProfile
  <2> QED BY <2>1, <2>2 DEF PythonPortable, PythonLocal, Python, Node, Go, GoString, Decoded
<1>4. Kind(v) # "bytes"
  BY DEF InProfile
<1>5. v = <<"null">> \/ (\E b \in BOOLEAN : v = <<"bool", b>>) => Kind(v) \in {"null", "bool"}
  BY DEF Kind
<1>6. (\E hex \in Strings : v = <<"bytes", hex>>) => Kind(v) = "bytes"
  BY DEF Kind
<1> QED BY <1>1, <1>2, <1>3, <1>4, <1>5, <1>6

\* So has a list whose members have.
LEMMA AgreedOfList ==
  ASSUME NEW P, \A p \in P : Verdict(p) /\ Agreed(p), NEW members \in Seq(P)
  PROVE  Agreed(Part(<<"list", members>>))
<1> DEFINE v == <<"list", members>>
<1> SUFFICES ASSUME NoMinusZero(v), InProfile(v)
             PROVE  /\ PythonLocal(v) = PythonPortable(v)
                    /\ Go(v) = PythonPortable(v)
                    /\ Node(v) = PythonPortable(v)
  <2> HIDE DEF v
  <2>1. (/\ NoMinusZero(v) /\ InProfile(v)
         => /\ PythonLocal(v) = PythonPortable(v)
            /\ Go(v) = PythonPortable(v)
            /\ Node(v) = PythonPortable(v)) => Agreed(Part(v))
    BY PartFields DEF Agreed
  <2> QED BY <2>1 DEF v
<1>1. Kind(v) = "list" /\ v[2] = members
  BY DEF Kind
<1>2. \A i \in DOMAIN members : members[i].noMinusZero /\ members[i].inProfile
  <2> HIDE DEF v
  <2> QED BY <1>1 DEF NoMinusZero, InProfile
<1>3. \A i \in DOMAIN members : Agreed(members[i]) /\ Verdict(members[i])
  OBVIOUS
<1>4. \A i \in DOMAIN members :
        /\ members[i].python["portable"] # Rejected
        /\ members[i].python["local"] = members[i].python["portable"]
        /\ members[i].go = members[i].python["portable"]
        /\ members[i].node = members[i].python["portable"]
  BY <1>2, <1>3 DEF Agreed, Verdict
<1> DEFINE text == [i \in DOMAIN members |-> members[i].python["portable"]]
<1>5. /\ [i \in DOMAIN members |-> members[i].python["local"]] = text
      /\ [i \in DOMAIN members |-> members[i].go] = text
      /\ [i \in DOMAIN members |-> members[i].node] = text
  BY <1>4
<1> HIDE DEF text
<1>6. PythonPortable(v) = <<"list", text>>
  BY <1>4, ListCalls DEF PythonPortable, text
<1>7. PythonLocal(v) = <<"list", text>>
  <2>1. Python(v, "local") = IF \E i \in DOMAIN members : members[i].python["local"] = Rejected
                             THEN Rejected
                             ELSE <<"list", [i \in DOMAIN members |-> members[i].python["local"]]>>
    BY ListCalls
  <2> QED BY <2>1, <1>4, <1>5 DEF PythonLocal
<1>8. Go(v) = <<"list", text>>
  <2>1. Go(v) = IF \E i \in DOMAIN members : members[i].go = Rejected
                THEN Rejected ELSE <<"list", [i \in DOMAIN members |-> members[i].go]>>
    BY ListCalls
  <2> QED BY <2>1, <1>4, <1>5
<1>9. Node(v) = <<"list", text>>
  <2>1. Node(v) = IF \E i \in DOMAIN members : members[i].node = Rejected
                  THEN Rejected ELSE <<"list", [i \in DOMAIN members |-> members[i].node]>>
    BY ListCalls
  <2> QED BY <2>1, <1>4, <1>5
<1> QED BY <1>6, <1>7, <1>8, <1>9

\* Entries without a collision have one entry for each key.
LEMMA EntriesHaveOneKeyEach ==
  ASSUME NEW n \in Nat, NEW entries, DOMAIN entries = 1 .. n,
         \A i \in 1 .. n : entries[i][1] \in Strings,
         ~ Collide(KeysOf(entries))
  PROVE  IsFiniteSet(Range(entries)) /\ OneEntryPerKey(Range(entries))
<1>1. \A i, j \in 1 .. n : entries[i][1] = entries[j][1] => i = j
  BY DEF Collide, KeysOf
<1>2. OneEntryPerKey(Range(entries))
  BY <1>1 DEF OneEntryPerKey, Range
<1>3. IsFiniteSet(Range(entries))
  <2> DEFINE S == 1 .. n
             T == Range(entries)
             f == [i \in S |-> entries[i]]
  <2>1. IsFiniteSet(S)
    BY FS_Interval
  <2>2. f \in Surjection(S, T)
    BY DEF Surjection, Range
  <2> HIDE DEF S, T, f
  <2>3. IsFiniteSet(T)
    BY <2>1, <2>2, FS_Surjection
  <2> QED BY <2>3 DEF T
<1> QED BY <1>2, <1>3

\* So has a map: the three normalise the same entries, and sort them alike, Node
\* after having enumerated them in an order of its own.
LEMMA AgreedOfMap ==
  ASSUME NEW P, \A p \in P : Verdict(p) /\ Agreed(p), NEW entries \in Seq(Keys \X P)
  PROVE  Agreed(Part(<<"map", entries>>))
<1> DEFINE v == <<"map", entries>>
<1> SUFFICES ASSUME NoMinusZero(v), InProfile(v)
             PROVE  /\ PythonLocal(v) = PythonPortable(v)
                    /\ Go(v) = PythonPortable(v)
                    /\ Node(v) = PythonPortable(v)
  <2> HIDE DEF v
  <2>1. (/\ NoMinusZero(v) /\ InProfile(v)
         => /\ PythonLocal(v) = PythonPortable(v)
            /\ Go(v) = PythonPortable(v)
            /\ Node(v) = PythonPortable(v)) => Agreed(Part(v))
    BY PartFields DEF Agreed
  <2> QED BY <2>1 DEF v
<1>1. Kind(v) = "map" /\ v[2] = entries
  BY DEF Kind
<1>2. \A i \in DOMAIN entries :
        Scalar(entries[i][1]) /\ entries[i][2].noMinusZero /\ entries[i][2].inProfile
  <2> HIDE DEF v
  <2> QED BY <1>1 DEF NoMinusZero, InProfile
<1>3. \A i \in DOMAIN entries : Agreed(entries[i][2]) /\ Verdict(entries[i][2])
  OBVIOUS
<1>4. \A i \in DOMAIN entries :
        /\ entries[i][2].python["portable"] # Rejected
        /\ entries[i][2].python["local"] = entries[i][2].python["portable"]
        /\ entries[i][2].go = entries[i][2].python["portable"]
        /\ entries[i][2].node = entries[i][2].python["portable"]
  BY <1>2, <1>3 DEF Agreed, Verdict
<1> DEFINE py == PythonEntries(entries, "portable")
<1>5. /\ PythonEntries(entries, "local") = py
      /\ GoEntries(entries) = py
      /\ NodeEntries(entries) = py
  BY <1>2, <1>4 DEF PythonEntries, GoEntries, NodeEntries, GoString, Decoded
<1>6. ~ Collide(KeysOf(py))
  <2>1. KeysOf(py) = NormalKeys(entries)
    BY KeysAreNormal
  <2>2. PythonPortable(v) # Rejected
    <3>1. Verdict(Part(v))
      BY <1>3, VerdictOfMap
    <3> HIDE DEF v
    <3> QED BY <3>1, PartFields DEF Verdict
  <2>3. PythonPortable(v) =
          IF \/ \E i \in DOMAIN entries : ~ Scalar(entries[i][1])
             \/ \E i \in DOMAIN entries : entries[i][2].python["portable"] = Rejected
             \/ Collide(KeysOf(py))
          THEN Rejected ELSE <<"map", ByKey(py)>>
    BY MapCalls DEF PythonPortable
  <2> HIDE DEF v, py
  <2> QED BY <2>2, <2>3
<1>7. Encoded(ByKey(py)) = ByKey(py)
  <2>1. Len(entries) \in Nat /\ DOMAIN py = 1 .. Len(entries)
    BY DEF PythonEntries
  <2>2. \A i \in 1 .. Len(entries) : py[i][1] \in Strings
    BY StringsAreCodePoints DEF PythonEntries
  <2> HIDE DEF py
  <2>3. IsFiniteSet(Range(py)) /\ OneEntryPerKey(Range(py))
    BY <2>1, <2>2, <1>6, EntriesHaveOneKeyEach
  <2> QED BY <2>3, NodeKeepsTheOrder
<1> HIDE DEF py
<1>8. PythonPortable(v) = <<"map", ByKey(py)>>
  BY <1>2, <1>4, <1>6, MapCalls DEF PythonPortable, py
<1>9. PythonLocal(v) = <<"map", ByKey(py)>>
  <2>1. Python(v, "local") =
          IF \/ \E i \in DOMAIN entries : ~ Scalar(entries[i][1])
             \/ \E i \in DOMAIN entries : entries[i][2].python["local"] = Rejected
             \/ Collide(KeysOf(PythonEntries(entries, "local")))
          THEN Rejected ELSE <<"map", ByKey(PythonEntries(entries, "local"))>>
    BY MapCalls
  <2> QED BY <2>1, <1>2, <1>4, <1>5, <1>6 DEF PythonLocal
<1>10. Go(v) = <<"map", ByKey(py)>>
  <2>1. Go(v) = IF \/ Collide(KeysOf(GoEntries(entries)))
                   \/ \E i \in DOMAIN entries : entries[i][2].go = Rejected
                THEN Rejected ELSE <<"map", ByKey(GoEntries(entries))>>
    BY MapCalls
  <2> QED BY <2>1, <1>4, <1>5, <1>6
<1>11. Node(v) = <<"map", ByKey(py)>>
  <2>1. Node(v) = IF \/ \E i \in DOMAIN entries : ~ Scalar(entries[i][1])
                     \/ Collide(KeysOf(NodeEntries(entries)))
                     \/ \E i \in DOMAIN entries : entries[i][2].node = Rejected
                  THEN Rejected ELSE <<"map", Encoded(ByKey(NodeEntries(entries)))>>
    BY MapCalls
  <2> QED BY <2>1, <1>2, <1>4, <1>5, <1>6, <1>7
<1> QED BY <1>8, <1>9, <1>10, <1>11

-----------------------------------------------------------------------------
(* What a text identifies *)

\* DigestsIdentify, of two parts.
Identified(p, q) ==
  p.python["local"] # Rejected /\ q.python["local"] # Rejected =>
    (p.python["local"] = q.python["local"] <=> p.meaning = q.meaning)

\* A text is that of a string exactly when the string is what is meant: the tagged
\* map of a byte string cannot be confused with a map of another member.
StringsSpeak(p) ==
  p.python["local"] # Rejected =>
    \A s : p.python["local"] = <<"str", s>> <=> p.meaning = <<"str", s>>

\* The member of the map that stands for a byte string.
HexPart(hex) ==
  [python |-> [profile \in {"local"} |-> <<"str", hex>>], meaning |-> <<"str", hex>>]

WithHex(P) == P \cup {HexPart(hex) : hex \in Strings}

\* What is written and what is said by normalised keys with their parts.
TextSet(X) == {<<x[1], x[2].python["local"]>> : x \in X}
MeaningSet(X) == {<<x[1], x[2].meaning>> : x \in X}

\* The text of byte strings is identified like that of parts.
LEMMA HexIsIdentified ==
  ASSUME NEW P, \A p \in P : StringsSpeak(p), \A p, q \in P : Identified(p, q)
  PROVE  \A p, q \in WithHex(P) : Identified(p, q)
<1>1. \A hex : HexPart(hex).python["local"] = <<"str", hex>> /\ HexPart(hex).meaning = <<"str", hex>>
  BY DEF HexPart
<1>2. ASSUME NEW p \in P, NEW hex  PROVE Identified(p, HexPart(hex)) /\ Identified(HexPart(hex), p)
  <2>1. p.python["local"] # Rejected =>
          (p.python["local"] = <<"str", hex>> <=> p.meaning = <<"str", hex>>)
    BY DEF StringsSpeak
  <2> QED BY <2>1, <1>1 DEF Identified
<1>3. ASSUME NEW h, NEW g  PROVE Identified(HexPart(h), HexPart(g))
  BY <1>1 DEF Identified
<1> QED BY <1>2, <1>3 DEF WithHex

\* Two maps say the same exactly when they write the same entries.
LEMMA SameContent ==
  ASSUME NEW P, \A p, q \in P : Identified(p, q),
         NEW X \in SUBSET (Strings \X P), NEW Y \in SUBSET (Strings \X P),
         \A x \in X \cup Y : x[2].python["local"] # Rejected
  PROVE  TextSet(X) = TextSet(Y) <=> MeaningSet(X) = MeaningSet(Y)
<1>1. \A x, y \in X \cup Y : <<x[1], x[2].python["local"]>> = <<y[1], y[2].python["local"]>>
                             <=> <<x[1], x[2].meaning>> = <<y[1], y[2].meaning>>
  <2> SUFFICES ASSUME NEW x \in X \cup Y, NEW y \in X \cup Y
               PROVE  x[2].python["local"] = y[2].python["local"] <=> x[2].meaning = y[2].meaning
    OBVIOUS
  <2>1. Identified(x[2], y[2])
    OBVIOUS
  <2> QED BY <2>1 DEF Identified
<1>2. TextSet(X) = TextSet(Y) <=>
        /\ \A x \in X : \E y \in Y : <<x[1], x[2].python["local"]>> = <<y[1], y[2].python["local"]>>
        /\ \A y \in Y : \E x \in X : <<x[1], x[2].python["local"]>> = <<y[1], y[2].python["local"]>>
  <2> DEFINE t(x) == <<x[1], x[2].python["local"]>>
  <2>1. TextSet(X) = {t(x) : x \in X} /\ TextSet(Y) = {t(y) : y \in Y}
    BY DEF TextSet
  <2>2. TextSet(X) = TextSet(Y) <=> /\ \A x \in X : \E y \in Y : t(x) = t(y)
                                    /\ \A y \in Y : \E x \in X : t(x) = t(y)
    <3> HIDE DEF t
    <3>1. ASSUME TextSet(X) = TextSet(Y), NEW x \in X  PROVE \E y \in Y : t(x) = t(y)
      <4>1. t(x) \in TextSet(Y)
        BY <2>1, <3>1
      <4> QED BY <4>1, <2>1
    <3>2. ASSUME TextSet(X) = TextSet(Y), NEW y \in Y  PROVE \E x \in X : t(x) = t(y)
      <4>1. t(y) \in TextSet(X)
        BY <2>1, <3>2
      <4> QED BY <4>1, <2>1
    <3>3. ASSUME \A x \in X : \E y \in Y : t(x) = t(y), \A y \in Y : \E x \in X : t(x) = t(y)
          PROVE  TextSet(X) = TextSet(Y)
      BY <2>1, <3>3
    <3> QED BY <3>1, <3>2, <3>3
  <2> QED BY <2>2
<1>3. MeaningSet(X) = MeaningSet(Y) <=>
        /\ \A x \in X : \E y \in Y : <<x[1], x[2].meaning>> = <<y[1], y[2].meaning>>
        /\ \A y \in Y : \E x \in X : <<x[1], x[2].meaning>> = <<y[1], y[2].meaning>>
  <2> DEFINE m(x) == <<x[1], x[2].meaning>>
  <2>1. MeaningSet(X) = {m(x) : x \in X} /\ MeaningSet(Y) = {m(y) : y \in Y}
    BY DEF MeaningSet
  <2>2. MeaningSet(X) = MeaningSet(Y) <=> /\ \A x \in X : \E y \in Y : m(x) = m(y)
                                          /\ \A y \in Y : \E x \in X : m(x) = m(y)
    <3> HIDE DEF m
    <3>1. ASSUME MeaningSet(X) = MeaningSet(Y), NEW x \in X  PROVE \E y \in Y : m(x) = m(y)
      <4>1. m(x) \in MeaningSet(Y)
        BY <2>1, <3>1
      <4> QED BY <4>1, <2>1
    <3>2. ASSUME MeaningSet(X) = MeaningSet(Y), NEW y \in Y  PROVE \E x \in X : m(x) = m(y)
      <4>1. m(y) \in MeaningSet(X)
        BY <2>1, <3>2
      <4> QED BY <4>1, <2>1
    <3>3. ASSUME \A x \in X : \E y \in Y : m(x) = m(y), \A y \in Y : \E x \in X : m(x) = m(y)
          PROVE  MeaningSet(X) = MeaningSet(Y)
      BY <2>1, <3>3
    <3> QED BY <3>1, <3>2, <3>3
  <2> QED BY <2>2
<1> QED BY <1>1, <1>2, <1>3

\* The text of a map spells its entries.
LEMMA SortedTextIsItsEntries ==
  ASSUME NEW T, IsFiniteSet(T), OneEntryPerKey(T), NEW U, IsFiniteSet(U), OneEntryPerKey(U)
  PROVE  Ordered(T, KeyOrder(T)) = Ordered(U, KeyOrder(U)) <=> T = U
<1>1. Range(Ordered(T, KeyOrder(T))) = T /\ Range(Ordered(U, KeyOrder(U))) = U
  BY KeyOrderIsStrict, OrderedIsPermutation
<1> QED BY <1>1

\* What an accepted map, or byte string, is to the local profile.
Spells(v, X) ==
  /\ IsFiniteSet(TextSet(X)) /\ OneEntryPerKey(TextSet(X))
  /\ \A x \in X : x[2].python["local"] # Rejected
  /\ PythonLocal(v) = <<"map", Ordered(TextSet(X), KeyOrder(TextSet(X)))>>
  /\ Meaning(v) = <<"map", MeaningSet(X)>>

\* An accepted map writes and says its normalised entries.
LEMMA MapSpells ==
  ASSUME NEW P, NEW entries \in Seq(Keys \X P), PythonLocal(<<"map", entries>>) # Rejected
  PROVE  \E X \in SUBSET (Strings \X P) : Spells(<<"map", entries>>, X)
<1> DEFINE v == <<"map", entries>>
           py == PythonEntries(entries, "local")
           X == {<<Nfc(entries[i][1]), entries[i][2]>> : i \in DOMAIN entries}
<1>1. /\ \A i \in DOMAIN entries : entries[i][2].python["local"] # Rejected
      /\ ~ Collide(KeysOf(py))
      /\ PythonLocal(v) = <<"map", ByKey(py)>>
  <2>1. PythonLocal(v) =
          IF \/ \E i \in DOMAIN entries : ~ Scalar(entries[i][1])
             \/ \E i \in DOMAIN entries : entries[i][2].python["local"] = Rejected
             \/ Collide(KeysOf(py))
          THEN Rejected ELSE <<"map", ByKey(py)>>
    BY MapCalls DEF PythonLocal
  <2> HIDE DEF py
  <2> QED BY <2>1
<1>2. Len(entries) \in Nat /\ DOMAIN entries = 1 .. Len(entries)
      /\ \A i \in DOMAIN entries : entries[i][1] \in Strings /\ entries[i][2] \in P
                                   /\ Nfc(entries[i][1]) \in Strings
  BY StringsAreCodePoints
<1>3. DOMAIN py = DOMAIN entries
      /\ \A i \in DOMAIN entries : py[i] = <<Nfc(entries[i][1]), entries[i][2].python["local"]>>
  BY DEF PythonEntries
<1>4. IsFiniteSet(Range(py)) /\ OneEntryPerKey(Range(py))
  <2> HIDE DEF py
  <2>1. \A i \in 1 .. Len(entries) : py[i][1] \in Strings
    BY <1>2, <1>3
  <2> QED BY <1>1, <1>2, <1>3, <2>1, EntriesHaveOneKeyEach
<1>5. Range(py) = TextSet(X)
  <2> HIDE DEF py
  <2>1. Range(py) = {<<Nfc(entries[i][1]), entries[i][2].python["local"]>> : i \in DOMAIN entries}
    <3> DEFINE e(i) == <<Nfc(entries[i][1]), entries[i][2].python["local"]>>
    <3>1. \A i \in DOMAIN py : py[i] = e(i)
      BY <1>3
    <3> HIDE DEF e
    <3>2. Range(py) = {e(i) : i \in DOMAIN entries}
      BY <1>3, <3>1 DEF Range
    <3> QED BY <3>2 DEF e
  <2>2. TextSet(X) = {<<Nfc(entries[i][1]), entries[i][2].python["local"]>> : i \in DOMAIN entries}
    <3> DEFINE x(i) == <<Nfc(entries[i][1]), entries[i][2]>>
               t(y) == <<y[1], y[2].python["local"]>>
    <3>1. \A i : t(x(i)) = <<Nfc(entries[i][1]), entries[i][2].python["local"]>>
      OBVIOUS
    <3>2. TextSet(X) = {t(y) : y \in X} /\ X = {x(i) : i \in DOMAIN entries}
      BY DEF TextSet
    <3> HIDE DEF t, x, X
    <3>3. TextSet(X) = {t(x(i)) : i \in DOMAIN entries}
      BY <3>2
    <3> QED BY <3>1, <3>3
  <2> QED BY <2>1, <2>2
<1>6. Meaning(v) = <<"map", MeaningSet(X)>>
  <2>1. Kind(v) = "map" /\ v[2] = entries
    BY DEF Kind
  <2>2. Meaning(v) = <<"map", {<<Nfc(entries[i][1]), entries[i][2].meaning>> : i \in DOMAIN entries}>>
    <3> HIDE DEF v
    <3> QED BY <2>1 DEF Meaning
  <2>3. MeaningSet(X) = {<<Nfc(entries[i][1]), entries[i][2].meaning>> : i \in DOMAIN entries}
    <3> DEFINE x(i) == <<Nfc(entries[i][1]), entries[i][2]>>
               m(y) == <<y[1], y[2].meaning>>
    <3>1. \A i : m(x(i)) = <<Nfc(entries[i][1]), entries[i][2].meaning>>
      OBVIOUS
    <3>2. MeaningSet(X) = {m(y) : y \in X} /\ X = {x(i) : i \in DOMAIN entries}
      BY DEF MeaningSet
    <3> HIDE DEF m, x, X
    <3>3. MeaningSet(X) = {m(x(i)) : i \in DOMAIN entries}
      BY <3>2
    <3> QED BY <3>1, <3>3
  <2> QED BY <2>2, <2>3
<1>7. ByKey(py) = Ordered(TextSet(X), KeyOrder(TextSet(X)))
  <2> HIDE DEF py, X
  <2> QED BY <1>5 DEF ByKey, KeyOrder
<1>8. X \in SUBSET (Strings \X P) /\ \A x \in X : x[2].python["local"] # Rejected
  BY <1>1, <1>2
<1>9. Spells(v, X)
  <2> HIDE DEF v, X, py
  <2> QED BY <1>1, <1>4, <1>5, <1>6, <1>7, <1>8 DEF Spells
<1> QED BY <1>8, <1>9

\* A byte string writes and says what its tagged map does.
LEMMA BytesSpell ==
  ASSUME NEW hex \in Strings, NEW P
  PROVE  \E X \in SUBSET (Strings \X WithHex(P)) : Spells(<<"bytes", hex>>, X)
<1> DEFINE v == <<"bytes", hex>>
           entry == <<"$bytes_hex", <<"str", hex>> >>
           x == <<"$bytes_hex", HexPart(hex)>>
           X == {x}
<1>1. Kind(v) = "bytes" /\ v[2] = hex
  BY DEF Kind
<1>2. PythonLocal(v) = <<"map", <<entry>> >> /\ Meaning(v) = <<"map", {entry}>>
  <2> HIDE DEF v
  <2> QED BY <1>1 DEF PythonLocal, Python, Meaning
<1>3. HexPart(hex).python["local"] = <<"str", hex>> /\ HexPart(hex).meaning = <<"str", hex>>
  BY DEF HexPart
<1>4. TextSet(X) = {entry} /\ MeaningSet(X) = {entry}
  BY <1>3 DEF TextSet, MeaningSet
<1>5. IsFiniteSet({entry}) /\ Cardinality({entry}) = 1
  BY FS_Singleton
<1>6. OneEntryPerKey({entry})
  BY StringsAreCodePoints DEF OneEntryPerKey
<1>7. Ordered({entry}, KeyOrder({entry})) = <<entry>>
  <2> DEFINE o == Ordered({entry}, KeyOrder({entry}))
  <2>1. DOMAIN o = 1 .. 1 /\ Range(o) = {entry}
    BY <1>5, <1>6, KeyOrderIsStrict, OrderedIsPermutation
  <2>2. o = [r \in 1 .. 1 |-> o[r]]
    <3> DEFINE at(r) == CHOOSE e \in {entry} :
                          Cardinality({y \in {entry} : <<y, e>> \in KeyOrder({entry})}) = r - 1
    <3>1. o = [r \in 1 .. Cardinality({entry}) |-> at(r)]
      BY DEF Ordered
    <3> HIDE DEF o, at
    <3> QED BY <1>5, <3>1
  <2> HIDE DEF o, entry
  <2>3. o[1] = entry
    BY <2>1 DEF Range
  <2> QED BY <2>2, <2>3 DEF o
<1>8. X \in SUBSET (Strings \X WithHex(P))
  BY StringsAreCodePoints DEF WithHex
<1>9. \A y \in X : y[2].python["local"] # Rejected
  BY <1>3 DEF Rejected
<1>10. Spells(v, X)
  <2> HIDE DEF v, entry, X
  <2> QED BY <1>2, <1>4, <1>5, <1>6, <1>7, <1>9 DEF Spells
<1> QED BY <1>8, <1>10

\* The texts and the meanings of a sequence of parts.
TextsOf(members) == [i \in DOMAIN members |-> members[i].python["local"]]
MeaningsOf(members) == [i \in DOMAIN members |-> members[i].meaning]

\* What an accepted document of a kind is to the local profile.
Shape(v, kind, P) ==
  \/ kind = "null" /\ PythonLocal(v) = <<"null">> /\ Meaning(v) = <<"null">>
  \/ kind = "bool" /\ \E b \in BOOLEAN : PythonLocal(v) = <<"bool", b>> /\ Meaning(v) = <<"bool", b>>
  \/ kind = "num" /\ \E n \in Int : PythonLocal(v) = <<"num", n, "int">> /\ Meaning(v) = <<"num", n>>
  \/ kind = "str" /\ \E s \in Strings : PythonLocal(v) = <<"str", s>> /\ Meaning(v) = <<"str", s>>
  \/ kind = "list" /\ \E members \in Seq(P) :
       /\ \A i \in DOMAIN members : members[i].python["local"] # Rejected
       /\ PythonLocal(v) = <<"list", TextsOf(members)>>
       /\ Meaning(v) = <<"list", MeaningsOf(members)>>
  \/ kind = "map" /\ \E X \in SUBSET (Strings \X WithHex(P)) : Spells(v, X)

ShapeKinds == {"null", "bool", "num", "str", "list", "map"}

\* Every accepted document is of one of these kinds.
LEMMA AcceptedHasShape ==
  ASSUME NEW P, NEW v, IsDocument(v, P), PythonLocal(v) # Rejected
  PROVE  \E kind \in ShapeKinds : Shape(v, kind, P)
<1>1. CASE v = <<"null">>
  <2>1. Kind(v) = "null"
    BY <1>1 DEF Kind
  <2>2. PythonLocal(v) = v /\ Meaning(v) = v
    BY <2>1 DEF PythonLocal, Python, Meaning
  <2>3. Shape(v, "null", P)
    BY <1>1, <2>2 DEF Shape
  <2> QED BY <2>3 DEF ShapeKinds
<1>2. ASSUME NEW b \in BOOLEAN, v = <<"bool", b>>
      PROVE  \E kind \in ShapeKinds : Shape(v, kind, P)
  <2>1. Kind(v) = "bool"
    BY <1>2 DEF Kind
  <2>2. PythonLocal(v) = v /\ Meaning(v) = v
    BY <2>1 DEF PythonLocal, Python, Meaning
  <2>3. Shape(v, "bool", P)
    BY <1>2, <2>2 DEF Shape
  <2> QED BY <2>3 DEF ShapeKinds
<1>3. ASSUME NEW n \in Int, NEW form \in Forms, v = <<"num", n, form>>
      PROVE  \E kind \in ShapeKinds : Shape(v, kind, P)
  <2>1. Kind(v) = "num" /\ v[2] = n /\ v[3] = form
    BY <1>3 DEF Kind
  <2>2. PythonLocal(v) = <<"num", n, "int">> /\ Meaning(v) = <<"num", n>>
    BY <2>1 DEF PythonLocal, Python, Meaning, Integer, FloatForms
  <2>3. Shape(v, "num", P)
    BY <2>2 DEF Shape
  <2> QED BY <2>3 DEF ShapeKinds
<1>4. ASSUME NEW s \in Strings, v = <<"str", s>>
      PROVE  \E kind \in ShapeKinds : Shape(v, kind, P)
  <2>1. Kind(v) = "str" /\ v[2] = s
    BY <1>4 DEF Kind
  <2>2. PythonLocal(v) = <<"str", Nfc(s)>> /\ Meaning(v) = <<"str", Nfc(s)>> /\ Nfc(s) \in Strings
    BY <2>1, StringsAreCodePoints DEF PythonLocal, Python, Meaning
  <2>3. Shape(v, "str", P)
    BY <2>2 DEF Shape
  <2> QED BY <2>3 DEF ShapeKinds
<1>5. ASSUME NEW hex \in Strings, v = <<"bytes", hex>>
      PROVE  \E kind \in ShapeKinds : Shape(v, kind, P)
  <2>1. Shape(v, "map", P)
    BY <1>5, BytesSpell DEF Shape
  <2> QED BY <2>1 DEF ShapeKinds
<1>6. ASSUME NEW members \in Seq(P), v = <<"list", members>>
      PROVE  \E kind \in ShapeKinds : Shape(v, kind, P)
  <2>1. Kind(v) = "list" /\ v[2] = members
    BY <1>6 DEF Kind
  <2>2. PythonLocal(v) =
          IF \E i \in DOMAIN members : members[i].python["local"] = Rejected
          THEN Rejected ELSE <<"list", TextsOf(members)>>
    BY <1>6, ListCalls DEF PythonLocal, TextsOf
  <2>3. Meaning(v) = <<"list", MeaningsOf(members)>>
    BY <2>1 DEF Meaning, MeaningsOf
  <2>4. Shape(v, "list", P)
    BY <2>2, <2>3 DEF Shape
  <2> QED BY <2>4 DEF ShapeKinds
<1>7. ASSUME NEW entries \in Seq(Keys \X P), v = <<"map", entries>>
      PROVE  \E kind \in ShapeKinds : Shape(v, kind, P)
  <2>1. PICK X \in SUBSET (Strings \X P) : Spells(v, X)
    BY <1>7, MapSpells
  <2>2. X \in SUBSET (Strings \X WithHex(P))
    BY DEF WithHex
  <2>3. Shape(v, "map", P)
    BY <2>1, <2>2 DEF Shape
  <2> QED BY <2>3 DEF ShapeKinds
<1> QED BY <1>1, <1>2, <1>3, <1>4, <1>5, <1>6, <1>7 DEF IsDocument

\* Text and meaning both show the kind, so documents of two kinds differ in both.
LEMMA ShapeIsTagged ==
  ASSUME NEW P, NEW v, NEW kind, Shape(v, kind, P)
  PROVE  PythonLocal(v)[1] = kind /\ Meaning(v)[1] = kind
  BY DEF Shape, Spells

\* The text of a document is that of a string exactly when it says the string.
LEMMA DocumentSpeaks ==
  ASSUME NEW P, NEW v, IsDocument(v, P)
  PROVE  StringsSpeak(Part(v))
<1> SUFFICES ASSUME PythonLocal(v) # Rejected, NEW s
             PROVE  PythonLocal(v) = <<"str", s>> <=> Meaning(v) = <<"str", s>>
  BY PartFields DEF StringsSpeak
<1>1. PICK kind \in ShapeKinds : Shape(v, kind, P)
  BY AcceptedHasShape
<1>2. PythonLocal(v)[1] = kind /\ Meaning(v)[1] = kind
  BY <1>1, ShapeIsTagged
<1>3. CASE kind # "str"
  BY <1>2, <1>3
<1>4. CASE kind = "str"
  <2>1. PICK t \in Strings : PythonLocal(v) = <<"str", t>> /\ Meaning(v) = <<"str", t>>
    BY <1>1, <1>4 DEF Shape
  <2> QED BY <2>1
<1> QED BY <1>3, <1>4

\* Two lists say the same exactly when they write the same.
LEMMA SameLists ==
  ASSUME NEW P, \A p, q \in P : Identified(p, q),
         NEW m \in Seq(P), \A i \in DOMAIN m : m[i].python["local"] # Rejected,
         NEW n \in Seq(P), \A i \in DOMAIN n : n[i].python["local"] # Rejected
  PROVE  TextsOf(m) = TextsOf(n) <=> MeaningsOf(m) = MeaningsOf(n)
<1>1. TextsOf(m) = TextsOf(n) <=>
        /\ DOMAIN m = DOMAIN n
        /\ \A i \in DOMAIN m : m[i].python["local"] = n[i].python["local"]
  BY DEF TextsOf
<1>2. MeaningsOf(m) = MeaningsOf(n) <=>
        /\ DOMAIN m = DOMAIN n /\ \A i \in DOMAIN m : m[i].meaning = n[i].meaning
  BY DEF MeaningsOf
<1>3. ASSUME DOMAIN m = DOMAIN n, NEW i \in DOMAIN m
      PROVE  m[i].python["local"] = n[i].python["local"] <=> m[i].meaning = n[i].meaning
  <2>1. Identified(m[i], n[i])
    BY <1>3
  <2> QED BY <1>3, <2>1 DEF Identified
<1> QED BY <1>1, <1>2, <1>3

\* The step of the induction for two documents: identified members make identified
\* documents.
LEMMA DocumentsAreIdentified ==
  ASSUME NEW P, \A p \in P : StringsSpeak(p), \A p, q \in P : Identified(p, q),
         NEW v, IsDocument(v, P), NEW w, IsDocument(w, P)
  PROVE  Identified(Part(v), Part(w))
<1> SUFFICES ASSUME PythonLocal(v) # Rejected, PythonLocal(w) # Rejected
             PROVE  PythonLocal(v) = PythonLocal(w) <=> Meaning(v) = Meaning(w)
  BY PartFields DEF Identified
<1>1. PICK kind \in ShapeKinds : Shape(v, kind, P)
  BY AcceptedHasShape
<1>2. PICK other \in ShapeKinds : Shape(w, other, P)
  BY AcceptedHasShape
<1>3. CASE kind # other
  <2>1. PythonLocal(v)[1] = kind /\ Meaning(v)[1] = kind
        /\ PythonLocal(w)[1] = other /\ Meaning(w)[1] = other
    BY <1>1, <1>2, ShapeIsTagged
  <2> QED BY <1>3, <2>1
<1>4. CASE kind = "null" /\ other = "null"
  BY <1>1, <1>2, <1>4 DEF Shape
<1>5. CASE kind = "bool" /\ other = "bool"
  BY <1>1, <1>2, <1>5 DEF Shape
<1>6. CASE kind = "num" /\ other = "num"
  <2>1. PICK n \in Int : PythonLocal(v) = <<"num", n, "int">> /\ Meaning(v) = <<"num", n>>
    BY <1>1, <1>6 DEF Shape
  <2>2. PICK m \in Int : PythonLocal(w) = <<"num", m, "int">> /\ Meaning(w) = <<"num", m>>
    BY <1>2, <1>6 DEF Shape
  <2> QED BY <2>1, <2>2
<1>7. CASE kind = "str" /\ other = "str"
  <2>1. PICK s \in Strings : PythonLocal(v) = <<"str", s>> /\ Meaning(v) = <<"str", s>>
    BY <1>1, <1>7 DEF Shape
  <2>2. PICK t \in Strings : PythonLocal(w) = <<"str", t>> /\ Meaning(w) = <<"str", t>>
    BY <1>2, <1>7 DEF Shape
  <2> QED BY <2>1, <2>2
<1>8. CASE kind = "list" /\ other = "list"
  <2>1. PICK m \in Seq(P) : /\ \A i \in DOMAIN m : m[i].python["local"] # Rejected
                            /\ PythonLocal(v) = <<"list", TextsOf(m)>>
                            /\ Meaning(v) = <<"list", MeaningsOf(m)>>
    BY <1>1, <1>8 DEF Shape
  <2>2. PICK n \in Seq(P) : /\ \A i \in DOMAIN n : n[i].python["local"] # Rejected
                            /\ PythonLocal(w) = <<"list", TextsOf(n)>>
                            /\ Meaning(w) = <<"list", MeaningsOf(n)>>
    BY <1>2, <1>8 DEF Shape
  <2>3. TextsOf(m) = TextsOf(n) <=> MeaningsOf(m) = MeaningsOf(n)
    BY <2>1, <2>2, SameLists
  <2> QED BY <2>1, <2>2, <2>3
<1>9. CASE kind = "map" /\ other = "map"
  <2>1. PICK X \in SUBSET (Strings \X WithHex(P)) : Spells(v, X)
    BY <1>1, <1>9 DEF Shape
  <2>2. PICK Y \in SUBSET (Strings \X WithHex(P)) : Spells(w, Y)
    BY <1>2, <1>9 DEF Shape
  <2>3. \A p, q \in WithHex(P) : Identified(p, q)
    BY HexIsIdentified
  <2>4. \A x \in X \cup Y : x[2].python["local"] # Rejected
    BY <2>1, <2>2 DEF Spells
  <2>5. TextSet(X) = TextSet(Y) <=> MeaningSet(X) = MeaningSet(Y)
    <3> DEFINE Q == WithHex(P)
    <3> HIDE DEF Q
    <3>1. X \in SUBSET (Strings \X Q) /\ Y \in SUBSET (Strings \X Q) /\ \A p, q \in Q : Identified(p, q)
      BY <2>1, <2>2, <2>3 DEF Q
    <3>2. TextSet(X) = TextSet(Y) <=> MeaningSet(X) = MeaningSet(Y)
      BY <3>1, <2>4, SameContent, SMTT(30)
    <3> QED BY <3>2
  <2>6. Ordered(TextSet(X), KeyOrder(TextSet(X))) = Ordered(TextSet(Y), KeyOrder(TextSet(Y)))
          <=> TextSet(X) = TextSet(Y)
    <3> DEFINE T == TextSet(X)
               U == TextSet(Y)
    <3>1. IsFiniteSet(T) /\ OneEntryPerKey(T) /\ IsFiniteSet(U) /\ OneEntryPerKey(U)
      BY <2>1, <2>2 DEF Spells
    <3> HIDE DEF T, U
    <3>2. Ordered(T, KeyOrder(T)) = Ordered(U, KeyOrder(U)) <=> T = U
      BY <3>1, SortedTextIsItsEntries
    <3> QED BY <3>2 DEF T, U
  <2> QED BY <2>1, <2>2, <2>5, <2>6 DEF Spells
<1> QED BY <1>3, <1>4, <1>5, <1>6, <1>7, <1>8, <1>9 DEF ShapeKinds

-----------------------------------------------------------------------------
(* The inductive invariant *)

\* The parts a client has at hand.
Available == parts \cup LeafParts

\* Each is the part of a document that is made of the others.
AllFromDocuments ==
  \A p \in Available : \E v : IsDocument(v, Available) /\ p = Part(v)

\* What the properties say of the document at hand holds of every part, and of any
\* two of them.
PartsAreSound ==
  /\ \A p \in Available : Verdict(p) /\ Agreed(p) /\ StringsSpeak(p)
  /\ \A p, q \in Available : Identified(p, q)

CanonInv == IsDocument(doc, Available) /\ AllFromDocuments /\ PartsAreSound

\* The step of the induction for one document: sound members make a sound document.
LEMMA DocumentIsSound ==
  ASSUME NEW P, \A p \in P : Verdict(p) /\ Agreed(p) /\ StringsSpeak(p),
         NEW v, IsDocument(v, P)
  PROVE  Verdict(Part(v)) /\ Agreed(Part(v)) /\ StringsSpeak(Part(v))
<1>1. StringsSpeak(Part(v))
  BY DocumentSpeaks
<1>2. ASSUME NEW members \in Seq(P), v = <<"list", members>>
      PROVE  Verdict(Part(v)) /\ Agreed(Part(v))
  BY <1>2, VerdictOfList, AgreedOfList
<1>3. ASSUME NEW entries \in Seq(Keys \X P), v = <<"map", entries>>
      PROVE  Verdict(Part(v)) /\ Agreed(Part(v))
  BY <1>3, VerdictOfMap, AgreedOfMap
<1>4. ASSUME \/ v = <<"null">>
             \/ \E b \in BOOLEAN : v = <<"bool", b>>
             \/ \E n \in Int, form \in Forms : v = <<"num", n, form>>
             \/ \E s \in Strings : v = <<"str", s>>
             \/ \E hex \in Strings : v = <<"bytes", hex>>
      PROVE  Verdict(Part(v)) /\ Agreed(Part(v))
  BY <1>4, VerdictOfLeaf, AgreedOfLeaf
<1> QED BY <1>1, <1>2, <1>3, <1>4 DEF IsDocument

\* Its base.
LEMMA LeafPartsAreSound ==
  /\ \A p \in LeafParts : Verdict(p) /\ Agreed(p) /\ StringsSpeak(p)
  /\ \A p, q \in LeafParts : Identified(p, q)
<1>1. \A v \in Leaves : IsDocument(v, {})
  BY LeafIsDocument
<1>2. \A v \in Leaves : Verdict(Part(v)) /\ Agreed(Part(v)) /\ StringsSpeak(Part(v))
  BY <1>1, DocumentIsSound
<1>3. \A v, w \in Leaves : Identified(Part(v), Part(w))
  BY <1>1, DocumentsAreIdentified
<1> QED BY <1>2, <1>3 DEF LeafParts

\* The leaves satisfy it.
LEMMA CanonInvInit == Init => CanonInv
<1> SUFFICES ASSUME Init  PROVE CanonInv
  OBVIOUS
<1>1. Available = LeafParts /\ doc \in Leaves
  BY DEF Init, Available
<1>2. \A v \in Leaves : IsDocument(v, Available)
  BY LeafIsDocument
<1>3. AllFromDocuments
  BY <1>1, <1>2 DEF AllFromDocuments, LeafParts
<1>4. PartsAreSound
  BY <1>1, LeafPartsAreSound DEF PartsAreSound
<1> QED BY <1>1, <1>2, <1>3, <1>4 DEF CanonInv

\* Finishing a document adds one sound part; the other steps add none.
LEMMA CanonInvNext == CanonInv /\ [Next]_vars => CanonInv'
<1> SUFFICES ASSUME CanonInv, [Next]_vars  PROVE CanonInv'
  OBVIOUS
<1>1. CASE Finish
  <2> DEFINE A == Available
             B == Available'
             new == Part(doc)
  <2>1. B = A \cup {new} /\ doc' \in Leaves
    BY <1>1 DEF Finish, Available, LeafParts
  <2>2. IsDocument(doc, A) /\ \A p \in A : \E v : IsDocument(v, A) /\ p = Part(v)
    BY DEF CanonInv, AllFromDocuments
  <2>3. \A p \in A : Verdict(p) /\ Agreed(p) /\ StringsSpeak(p)
    BY DEF CanonInv, PartsAreSound
  <2>4. \A p, q \in A : Identified(p, q)
    BY DEF CanonInv, PartsAreSound
  <2> HIDE DEF A, B
  <2>5. \A p \in B : \E v : IsDocument(v, A) /\ p = Part(v)
    BY <2>1, <2>2
  <2>6. \A p \in B : Verdict(p) /\ Agreed(p) /\ StringsSpeak(p)
    BY <2>3, <2>5, DocumentIsSound
  <2>7. \A p, q \in B : Identified(p, q)
    BY <2>3, <2>4, <2>5, DocumentsAreIdentified
  <2>8. \A p \in B : \E v : IsDocument(v, B) /\ p = Part(v)
    BY <2>1, <2>5, MoreParts
  <2>9. IsDocument(doc', B)
    BY <2>1, LeafIsDocument
  <2> QED BY <2>6, <2>7, <2>8, <2>9 DEF B, CanonInv, AllFromDocuments, PartsAreSound
<1>2. CASE AppendMember
  <2>1. Available' = Available
    BY <1>2 DEF AppendMember, Available, LeafParts
  <2>2. PICK p \in Available : doc' = <<"list", Append(doc[2], p)>>
    BY <1>2 DEF AppendMember, Available
  <2>3. doc[2] \in Seq(Available)
    BY <1>2 DEF AppendMember, CanonInv, IsDocument, Kind
  <2>4. IsDocument(doc', Available)
    <3>1. Append(doc[2], p) \in Seq(Available)
      BY <2>3
    <3> QED BY <2>2, <3>1 DEF IsDocument
  <2> QED BY <2>1, <2>4 DEF CanonInv, AllFromDocuments, PartsAreSound
<1>3. CASE AddKey
  <2>1. Available' = Available
    BY <1>3 DEF AddKey, Available, LeafParts
  <2>2. PICK k \in Keys, p \in Available : doc' = <<"map", Append(doc[2], <<k, p>>)>>
    BY <1>3 DEF AddKey, Available
  <2>3. doc[2] \in Seq(Keys \X Available)
    BY <1>3 DEF AddKey, CanonInv, IsDocument, Kind
  <2>4. IsDocument(doc', Available)
    <3>1. Append(doc[2], <<k, p>>) \in Seq(Keys \X Available)
      BY <2>3
    <3> QED BY <2>2, <3>1 DEF IsDocument
  <2> QED BY <2>1, <2>4 DEF CanonInv, AllFromDocuments, PartsAreSound
<1>4. CASE UNCHANGED vars
  BY <1>4 DEF vars, Available, CanonInv, AllFromDocuments, PartsAreSound, LeafParts
<1> QED BY <1>1, <1>2, <1>3, <1>4 DEF Next

\* Whatever a client writes, the calls on every finished document agree with the
\* profile and with each other, and identify it.
THEOREM CanonInvHolds == Spec => []CanonInv
  BY CanonInvInit, CanonInvNext, PTL DEF Spec

\* What the invariant says of the document at hand.
LEMMA DocIsSound ==
  ASSUME CanonInv
  PROVE  /\ Verdict(Part(doc)) /\ Agreed(Part(doc))
         /\ \A p \in parts \cup LeafParts : Identified(Part(doc), p)
<1> DEFINE A == Available
<1>1. IsDocument(doc, A) /\ \A p \in A : \E v : IsDocument(v, A) /\ p = Part(v)
  BY DEF CanonInv, AllFromDocuments
<1>2. \A p \in A : Verdict(p) /\ Agreed(p) /\ StringsSpeak(p)
  BY DEF CanonInv, PartsAreSound
<1>3. \A p, q \in A : Identified(p, q)
  BY DEF CanonInv, PartsAreSound
<1> HIDE DEF A
<1>4. Verdict(Part(doc)) /\ Agreed(Part(doc))
  BY <1>1, <1>2, DocumentIsSound
<1>5. \A p \in A : Identified(Part(doc), p)
  BY <1>1, <1>2, <1>3, DocumentsAreIdentified
<1> QED BY <1>4, <1>5 DEF A, Available

\* For every document: canonical.py accepts exactly the portable profile, canonical.go
\* and canonical.mjs accept it and otherwise only what their parsers have changed, and
\* nothing outside the profile passes both.
THEOREM VerdictIsTheProfileHolds == Spec => []VerdictIsTheProfile
<1>1. CanonInv => VerdictIsTheProfile
  BY DocIsSound, PartFields DEF Verdict, VerdictIsTheProfile
<1> QED BY <1>1, CanonInvHolds, PTL

\* A document of the profile has one text in the three languages, whatever its size,
\* the order of its keys and the spelling of its strings.
THEOREM LanguagesAgreeHolds == Spec => []LanguagesAgree
<1>1. CanonInv => LanguagesAgree
  BY DocIsSound, PartFields DEF Agreed, LanguagesAgree
<1> QED BY <1>1, CanonInvHolds, PTL

\* Of all documents canonical_bytes accepts, two have one text exactly when they say
\* the same: nothing but a change of what an act says changes its digest, and every
\* such change does.
THEOREM DigestsIdentifyHolds == Spec => []DigestsIdentify
<1>1. CanonInv => DigestsIdentify
  BY DocIsSound, PartFields DEF Identified, DigestsIdentify
<1> QED BY <1>1, CanonInvHolds, PTL
=============================================================================
