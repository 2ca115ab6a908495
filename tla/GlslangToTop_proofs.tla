------------------------ MODULE GlslangToTop_proofs ------------------------
(***************************************************************************)
(* Proofs about the traverser: for shaders of any size, every set of loop  *)
(* forms and switch bodies.                                                *)
(***************************************************************************)
EXTENDS GlslangToTop, TopBuilder_proofs, FiniteSetTheorems

-----------------------------------------------------------------------------
(* Counting. *)

LEMMA SubsetOfInterval ==
  ASSUME NEW n \in Nat, NEW C \in SUBSET (1..n)
  PROVE  IsFiniteSet(C) /\ Cardinality(C) \in 0..n
<1>1. IsFiniteSet(1..n) /\ Cardinality(1..n) = n
  BY FS_Interval
<1>2. IsFiniteSet(C) /\ Cardinality(C) <= n
  BY <1>1, FS_Subset
<1> QED
  BY <1>2, FS_CardinalityType

LEMMA UpToGrows ==
  ASSUME NEW n \in Nat, NEW C \in SUBSET (1..n), NEW i \in C, NEW j \in C, i < j
  PROVE  LET upTo(m) == {k \in C : k <= m}
         IN  upTo(i) \subseteq upTo(j) /\ j \in upTo(j) /\ j \notin upTo(i)
<1>1. \A k \in C : k \in Int
  OBVIOUS
<1>2. \A k \in C : k <= i => k <= j
  BY <1>1
<1> DEFINE upTo(m) == {k \in C : k <= m}
<1>3. j \in upTo(j) /\ j \notin upTo(i)
  BY <1>1
<1>4. ASSUME NEW k \in upTo(i) PROVE k \in upTo(j)
  BY <1>2
<1> QED
  BY <1>3, <1>4

LEMMA FunctionIsSeq ==
  ASSUME NEW n \in Nat, NEW S, NEW f \in [1..n -> S]
  PROVE  f \in Seq(S) /\ Len(f) = n
OBVIOUS

LEMMA RetypeSeq ==
  ASSUME NEW S, NEW T, NEW s \in Seq(S), \A i \in 1..Len(s) : s[i] \in T
  PROVE  s \in Seq(T)
OBVIOUS

LEMMA SeqElements ==
  ASSUME NEW S, NEW s \in Seq(S)
  PROVE  /\ Len(s) \in Nat /\ (s # <<>> => Len(s) \in Nat \ {0})
         /\ \A i \in 1..Len(s) : s[i] \in S
OBVIOUS

(* The members of a finite set of numbers have ranks 1, 2, ... *)
LEMMA RankIsOnto ==
  ASSUME NEW n \in Nat, NEW C \in SUBSET (1..n), NEW k \in 1..Cardinality(C)
  PROVE  \E i \in C : Cardinality({j \in C : j <= i}) = k
<1> DEFINE upTo(i) == {j \in C : j <= i}
           rank    == [i \in C |-> Cardinality(upTo(i))]
           T       == 1..Cardinality(C)
<1>1. IsFiniteSet(C) /\ Cardinality(C) \in Nat
  BY SubsetOfInterval
<1>2. \A i \in C : IsFiniteSet(upTo(i)) /\ Cardinality(upTo(i)) \in T
  <2> SUFFICES ASSUME NEW i \in C
               PROVE  IsFiniteSet(upTo(i)) /\ Cardinality(upTo(i)) \in T
    OBVIOUS
  <2>1. IsFiniteSet(upTo(i)) /\ Cardinality(upTo(i)) <= Cardinality(C)
    BY <1>1, FS_Subset
  <2>2. upTo(i) # {}
    OBVIOUS
  <2>3. Cardinality(upTo(i)) \in Nat /\ Cardinality(upTo(i)) # 0
    BY <2>1, <2>2, FS_EmptySet, FS_CardinalityType
  <2> QED
    BY <1>1, <2>1, <2>3
<1>3. \A i, j \in C : i < j => Cardinality(upTo(i)) < Cardinality(upTo(j))
  <2> SUFFICES ASSUME NEW i \in C, NEW j \in C, i < j
               PROVE  Cardinality(upTo(i)) < Cardinality(upTo(j))
    OBVIOUS
  <2>1. upTo(i) \subseteq upTo(j) /\ j \in upTo(j) /\ j \notin upTo(i)
    BY UpToGrows
  <2> HIDE DEF upTo
  <2>2. /\ Cardinality(upTo(i)) <= Cardinality(upTo(j))
        /\ Cardinality(upTo(i)) # Cardinality(upTo(j))
    BY <1>2, <2>1, FS_Subset
  <2> QED
    BY <1>1, <1>2, <2>2
<1>4. rank \in Injection(C, T)
  <2> HIDE DEF upTo
  <2>1. rank \in [C -> T]
    BY <1>2
  <2>2. \A i, j \in C : rank[i] = rank[j] => i = j
    <3> SUFFICES ASSUME NEW i \in C, NEW j \in C, i # j
                 PROVE  rank[i] # rank[j]
      OBVIOUS
    <3>1. i < j \/ j < i
      OBVIOUS
    <3>2. rank[i] < rank[j] \/ rank[j] < rank[i]
      BY <1>3, <3>1
    <3> QED
      BY <1>1, <1>2, <3>2
  <2> QED
    BY <2>1, <2>2 DEF Injection, IsInjective
<1>5. IsFiniteSet(T) /\ Cardinality(T) = Cardinality(C)
  BY <1>1, FS_Interval
<1>6. rank \in Surjection(C, T)
  BY <1>1, <1>4, <1>5, FS_Injection
<1> QED
  BY <1>6 DEF Surjection

-----------------------------------------------------------------------------
(* The shapes of switch body the traverser meets. *)

LEMMA SegmentsBeforeType ==
  ASSUME NEW body \in Seq(SwitchChildren), NEW i \in DOMAIN body
  PROVE  /\ SegmentsBefore(body, i) \in 0..CodeCount(body)
         /\ CodeCount(body) \in Nat
         /\ (\A j \in i..Len(body) : body[j] # "code")
              => SegmentsBefore(body, i) = CodeCount(body)
         /\ (\E j \in (i + 1)..Len(body) : body[j] = "code")
              => SegmentsBefore(body, i) < CodeCount(body)
<1> DEFINE all    == {j \in DOMAIN body : body[j] = "code"}
           before == {j \in 1..i : body[j] = "code"}
<1>1. Len(body) \in Nat /\ DOMAIN body = 1..Len(body) /\ i \in 1..Len(body)
  OBVIOUS
<1>2. IsFiniteSet(all) /\ Cardinality(all) \in Nat
  BY <1>1, SubsetOfInterval
<1>3. before \subseteq all
  BY <1>1
<1>4. /\ IsFiniteSet(before) /\ Cardinality(before) <= Cardinality(all)
      /\ Cardinality(all) = Cardinality(before) => all = before
      /\ Cardinality(before) \in Nat
  BY <1>2, <1>3, FS_Subset, FS_CardinalityType
<1>5. (\A j \in i..Len(body) : body[j] # "code") => all = before
  BY <1>1
<1>6. (\E j \in (i + 1)..Len(body) : body[j] = "code") => all # before
  BY <1>1
<1>7. SegmentsBefore(body, i) = Cardinality(before) /\ CodeCount(body) = Cardinality(all)
  BY DEF SegmentsBefore, CodeCount
<1> HIDE DEF all, before
<1> QED
  BY <1>2, <1>4, <1>5, <1>6, <1>7

(* Label k is some case child of the body. *)
LEMMA CaseOfLabel ==
  ASSUME NEW body \in Seq(SwitchChildren), NEW k \in 1..Cardinality(CaseChildren(body))
  PROVE  LET i == CHOOSE i \in CaseChildren(body) :
                    Cardinality({j \in CaseChildren(body) : j <= i}) = k
         IN  /\ i \in CaseChildren(body)
             /\ Cardinality({j \in CaseChildren(body) : j <= i}) = k
<1>1. CaseChildren(body) \in SUBSET (1..Len(body)) /\ Len(body) \in Nat
  BY DEF CaseChildren
<1>2. \E i \in CaseChildren(body) : Cardinality({j \in CaseChildren(body) : j <= i}) = k
  BY <1>1, RankIsOnto
<1> QED
  BY <1>2

LEMMA ValuesType ==
  ASSUME NEW body \in Seq(SwitchChildren)
  PROVE  /\ ValueToSegment(body) \in Seq(0..CodeCount(body))
         /\ Len(ValueToSegment(body)) = Cardinality(CaseChildren(body))
         /\ Cardinality(CaseChildren(body)) \in Nat
<1>1. CaseChildren(body) \in SUBSET (1..Len(body)) /\ Len(body) \in Nat
  BY DEF CaseChildren
<1>2. Cardinality(CaseChildren(body)) \in Nat
  BY <1>1, SubsetOfInterval
<1>3. \A i \in CaseChildren(body) : SegmentsBefore(body, i) \in 0..CodeCount(body)
  BY SegmentsBeforeType DEF CaseChildren
<1> DEFINE val(k) == SegmentsBefore(body, CHOOSE i \in CaseChildren(body) :
                       Cardinality({j \in CaseChildren(body) : j <= i}) = k)
<1>4. \A k \in 1..Cardinality(CaseChildren(body)) : val(k) \in 0..CodeCount(body)
  BY <1>3, CaseOfLabel
<1>5. ValueToSegment(body) = [k \in 1..Cardinality(CaseChildren(body)) |-> val(k)]
  BY DEF ValueToSegment
<1> HIDE DEF val
<1>6. ValueToSegment(body) \in [1..Cardinality(CaseChildren(body)) -> 0..CodeCount(body)]
  BY <1>4, <1>5
<1> QED
  BY <1>2, <1>6, FunctionIsSeq

(* The label of the last case child is the last label. *)
LEMMA LastLabel ==
  ASSUME NEW body \in Seq(SwitchChildren), NEW c \in CaseChildren(body),
         \A k \in c..Len(body) : body[k] # "code"
  PROVE  /\ Len(ValueToSegment(body)) > 0
         /\ ValueToSegment(body)[Len(ValueToSegment(body))] = CodeCount(body)
<1> DEFINE n == Cardinality(CaseChildren(body))
           last == CHOOSE i \in CaseChildren(body) :
                       Cardinality({j \in CaseChildren(body) : j <= i}) = n
           upTo == {j \in CaseChildren(body) : j <= last}
<1>1. CaseChildren(body) \in SUBSET (1..Len(body)) /\ Len(body) \in Nat
  BY DEF CaseChildren
<1>2. IsFiniteSet(CaseChildren(body)) /\ n \in Nat /\ n # 0
  BY <1>1, SubsetOfInterval, FS_EmptySet
<1>3. last \in CaseChildren(body) /\ Cardinality(upTo) = n
  <2>1. n \in 1..Cardinality(CaseChildren(body))
    BY <1>2
  <2> HIDE DEF n
  <2> QED
    BY <2>1, CaseOfLabel
<1>4. upTo = CaseChildren(body)
  <2> HIDE DEF last
  <2>1. upTo \subseteq CaseChildren(body)
    OBVIOUS
  <2> HIDE DEF upTo
  <2> QED
    BY <1>2, <1>3, <2>1, FS_Subset
<1>5. c <= last
  BY <1>4
<1>6. last \in DOMAIN body /\ \A k \in last..Len(body) : body[k] # "code"
  <2> HIDE DEF last
  <2> QED
    BY <1>1, <1>3, <1>5
<1>7. SegmentsBefore(body, last) = CodeCount(body)
  <2> HIDE DEF last
  <2> QED
    BY <1>6, SegmentsBeforeType
<1>8. Len(ValueToSegment(body)) = n
  BY ValuesType
<1>9. ValueToSegment(body)[n] = SegmentsBefore(body, last)
  BY <1>2 DEF ValueToSegment
<1> QED
  BY <1>2, <1>7, <1>8, <1>9

(* Every label leads to a segment that exists, and one is added behind the *)
(* last code if a label is there.                                          *)
LEMMA CaseSegments ==
  ASSUME NEW body \in Seq(SwitchChildren), NEW n \in SegmentCounts(body), body # <<>>
  PROVE  /\ CodeCount(body) \in Nat /\ n \in Nat /\ CodeCount(body) <= n
         /\ ValueToSegment(body) \in Seq(0..(n - 1))
         /\ \A i \in CaseChildren(body) :
              (\A k \in i..Len(body) : body[k] # "code") => n = CodeCount(body) + 1
<1> DEFINE c      == CodeCount(body)
           values == ValueToSegment(body)
<1>1. values \in Seq(0..c) /\ Len(values) = Cardinality(CaseChildren(body))
  BY ValuesType
<1>2. c \in Nat
  <2>1. 1 \in DOMAIN body
    OBVIOUS
  <2> QED
    BY <2>1, SegmentsBeforeType
<1>3. CASE values = <<>>
  <2>1. CaseChildren(body) = {}
    <3>1. CaseChildren(body) \in SUBSET (1..Len(body)) /\ Len(body) \in Nat
      BY DEF CaseChildren
    <3>2. IsFiniteSet(CaseChildren(body))
      BY <3>1, SubsetOfInterval
    <3> QED
      BY <1>1, <1>3, <3>2, FS_EmptySet
  <2>2. n \in {c, c + 1}
    BY <1>3 DEF SegmentCounts
  <2>3. values \in Seq(0..(n - 1))
    BY <1>3
  <2> HIDE DEF c, values
  <2> QED
    BY <1>2, <2>1, <2>2, <2>3 DEF c, values
<1>4. CASE values # <<>>
  <2>1. /\ Len(values) \in Nat \ {0} /\ values[Len(values)] \in 0..c
        /\ \A k \in 1..Len(values) : values[k] \in 0..c
    <3> HIDE DEF values, c
    <3>1. Len(values) \in Nat \ {0} /\ \A k \in 1..Len(values) : values[k] \in 0..c
      BY <1>1, <1>4, SeqElements
    <3> QED
      BY <3>1
  <2>2. n = IF values[Len(values)] = c THEN c + 1 ELSE c
    BY <1>4 DEF SegmentCounts
  <2>3. n \in Nat \ {0} /\ c <= n
    <3> HIDE DEF c, values
    <3> QED
      BY <1>2, <2>1, <2>2
  <2>4. \A i \in CaseChildren(body) :
           (\A k \in i..Len(body) : body[k] # "code") => n = c + 1
    BY <2>2, LastLabel
  <2>5. \A i \in CaseChildren(body) : SegmentsBefore(body, i) \in 0..(n - 1)
    <3> SUFFICES ASSUME NEW i \in CaseChildren(body)
                 PROVE  SegmentsBefore(body, i) \in 0..(n - 1)
      OBVIOUS
    <3>1. i \in DOMAIN body /\ body[i] = "case"
      BY DEF CaseChildren
    <3>2. SegmentsBefore(body, i) \in 0..c
      BY <3>1, SegmentsBeforeType
    <3>3. CASE \A k \in i..Len(body) : body[k] # "code"
      BY <1>2, <2>3, <2>4, <3>2, <3>3
    <3>4. CASE \E k \in i..Len(body) : body[k] = "code"
      <4>1. \E k \in (i + 1)..Len(body) : body[k] = "code"
        BY <3>1, <3>4
      <4>2. SegmentsBefore(body, i) < c
        BY <3>1, <4>1, SegmentsBeforeType
      <4> QED
        BY <1>2, <2>3, <3>2, <4>2
    <3> QED
      BY <3>3, <3>4
  <2>6. values \in Seq(0..(n - 1))
    <3>1. \A k \in 1..Len(values) : values[k] \in 0..(n - 1)
      <4> SUFFICES ASSUME NEW k \in 1..Len(values) PROVE values[k] \in 0..(n - 1)
        OBVIOUS
      <4>1. k \in 1..Cardinality(CaseChildren(body))
        BY <1>1
      <4>2. PICK i \in CaseChildren(body) : values[k] = SegmentsBefore(body, i)
        BY <4>1, CaseOfLabel DEF ValueToSegment
      <4> QED
        BY <2>5, <4>2
    <3> HIDE DEF values
    <3> QED
      BY <1>1, <3>1, RetypeSeq
  <2> QED
    BY <1>2, <2>3, <2>4, <2>6
<1> QED
  BY <1>3, <1>4

(* The default's segment is in front of the number of segments made just   *)
(* for the bodies the assumption admits.                                   *)
LEMMA DefaultInFront ==
  ASSUME NEW body \in Seq(SwitchChildren), body # <<>>, DefaultHasSegment(body),
         NEW n \in SegmentCounts(body)
  PROVE  DefaultSegment(body) \in -1..(n - 1)
<1> DEFINE c == CodeCount(body)
           d == DefaultSegment(body)
<1>1. /\ c \in Nat /\ n \in Nat /\ c <= n
      /\ \A i \in CaseChildren(body) :
           (\A k \in i..Len(body) : body[k] # "code") => n = c + 1
  BY CaseSegments
<1>2. d = -1 \/ \E i \in DOMAIN body : body[i] = "default" /\ d = SegmentsBefore(body, i)
  BY DEF DefaultSegment
<1>3. ASSUME NEW i \in DOMAIN body, body[i] = "default"
      PROVE  SegmentsBefore(body, i) \in 0..(n - 1)
  <2>1. SegmentsBefore(body, i) \in 0..c
    BY SegmentsBeforeType
  <2>2. CASE \E j \in (i + 1)..Len(body) : body[j] = "code"
    <3>1. SegmentsBefore(body, i) < c
      BY <2>2, SegmentsBeforeType
    <3> QED
      BY <1>1, <2>1, <3>1
  <2>3. CASE \E j \in DOMAIN body : body[j] = "case" /\ \A k \in j..Len(body) : body[k] # "code"
    <3>1. n = c + 1
      BY <1>1, <2>3 DEF CaseChildren
    <3> QED
      BY <1>1, <2>1, <3>1
  <2> QED
    BY <1>3, <2>2, <2>3 DEF DefaultHasSegment
<1> HIDE DEF c, d
<1> QED
  BY <1>1, <1>2, <1>3 DEF d

(* Otherwise there may be no segment for it. *)
LEMMA DefaultBehind ==
  ASSUME NEW body \in Seq(SwitchChildren), AcceptedSwitch(body), ~ DefaultHasSegment(body)
  PROVE  \E n \in SegmentCounts(body) : DefaultSegment(body) = n
<1> DEFINE c      == CodeCount(body)
           values == ValueToSegment(body)
<1>1. PICK i \in DOMAIN body :
        /\ body[i] = "default"
        /\ ~ \E j \in (i + 1)..Len(body) : body[j] = "code"
        /\ ~ \E j \in DOMAIN body : body[j] = "case" /\ \A k \in j..Len(body) : body[k] # "code"
  BY DEF DefaultHasSegment
<1>2. DefaultSegment(body) = SegmentsBefore(body, i)
  <2>1. {j \in DOMAIN body : body[j] = "default"} = {i}
    BY <1>1 DEF AcceptedSwitch
  <2> QED
    BY <2>1 DEF DefaultSegment
<1>3. SegmentsBefore(body, i) = c
  <2>1. \A j \in i..Len(body) : body[j] # "code"
    <3>1. \A j \in i..Len(body) : j = i \/ j \in (i + 1)..Len(body)
      OBVIOUS
    <3> QED
      BY <1>1, <3>1
  <2> QED
    BY <2>1, SegmentsBeforeType
<1>4. c \in SegmentCounts(body)
  <2>1. CASE values = <<>>
    BY <2>1 DEF SegmentCounts
  <2>2. CASE values # <<>>
    <3> DEFINE m == Len(values)
    <3>1. m \in 1..Cardinality(CaseChildren(body))
      <4>1. values \in Seq(0..c) /\ m = Cardinality(CaseChildren(body))
        BY ValuesType
      <4> HIDE DEF values, c
      <4> QED
        BY <2>2, <4>1
    <3>2. PICK k \in CaseChildren(body) : values[m] = SegmentsBefore(body, k)
      <4> HIDE DEF m
      <4> QED BY <3>1, CaseOfLabel DEF ValueToSegment
    <3>3. k \in DOMAIN body /\ body[k] = "case"
      BY DEF CaseChildren
    <3>4. \E j \in (k + 1)..Len(body) : body[j] = "code"
      <4>1. PICK j \in k..Len(body) : body[j] = "code"
        BY <1>1, <3>3
      <4> QED
        BY <3>3, <4>1
    <3>5. values[m] < c /\ values[m] \in 0..c
      BY <3>2, <3>3, <3>4, SegmentsBeforeType
    <3>6. values[m] # c
      BY <3>5
    <3> QED
      BY <2>2, <3>6 DEF SegmentCounts
  <2> QED
    BY <2>1, <2>2
<1> QED
  BY <1>2, <1>3, <1>4

(* Whatever the body, there is a segment, and every label and the default  *)
(* lead to one that exists.                                                *)
LEMMA SwitchSegments ==
  ASSUME NEW body \in SwitchBodies, NEW n \in SegmentCounts(body)
  PROVE  /\ n \in Nat \ {0} /\ CodeCount(body) \in Nat
         /\ ValueToSegment(body) \in Seq(0..(n - 1))
         /\ DefaultSegment(body) \in -1..(n - 1)
<1>1. body \in Seq(SwitchChildren) /\ AcceptedSwitch(body) /\ DefaultHasSegment(body)
  BY SwitchAssumption DEF SwitchAssumption
<1>2. /\ 1 \in DOMAIN body /\ body[1] \in SwitchChildren /\ body[1] # "code"
      /\ body # <<>>
  BY <1>1 DEF AcceptedSwitch
<1>3. /\ CodeCount(body) \in Nat /\ n \in Nat /\ CodeCount(body) <= n
      /\ ValueToSegment(body) \in Seq(0..(n - 1))
      /\ \A i \in CaseChildren(body) :
           (\A k \in i..Len(body) : body[k] # "code") => n = CodeCount(body) + 1
  BY <1>1, <1>2, CaseSegments
<1>4. DefaultSegment(body) \in -1..(n - 1)
  BY <1>1, <1>2, DefaultInFront
<1>5. n # 0
  <2>1. CASE \E j \in (1 + 1)..Len(body) : body[j] = "code"
    <3>1. SegmentsBefore(body, 1) \in 0..CodeCount(body)
          /\ SegmentsBefore(body, 1) < CodeCount(body)
      BY <1>1, <1>2, <2>1, SegmentsBeforeType
    <3> QED
      BY <1>3, <3>1
  <2>2. CASE \A j \in (1 + 1)..Len(body) : body[j] # "code"
    <3>1. \A j \in 1..Len(body) : body[j] # "code"
      BY <1>1, <1>2, <2>2
    <3>2. PICK i \in DOMAIN body : body[i] = "case"
      <4>1. body[1] = "case" \/ body[1] = "default"
        BY <1>2 DEF SwitchChildren
      <4>2. CASE body[1] = "default"
        BY <1>1, <1>2, <2>2, <4>2 DEF DefaultHasSegment
      <4> QED
        BY <1>2, <4>1, <4>2
    <3>3. i \in CaseChildren(body) /\ \A k \in i..Len(body) : body[k] # "code"
      BY <1>1, <3>1, <3>2 DEF CaseChildren
    <3> QED
      BY <1>3, <3>3
  <2> QED
    BY <2>1, <2>2
<1> QED
  BY <1>3, <1>4, <1>5

(* p is the first code behind child i of the body. *)
FirstCode(body, i, p) ==
  /\ p \in (i + 1)..Len(body) /\ body[p] = "code"
  /\ \A j \in (i + 1)..(p - 1) : body[j] # "code"

(* Segment s, counted from 0, holds the first code behind child i, or is   *)
(* the one behind all code.                                                *)
LeadsTo(body, i, s) ==
  /\ \A p \in DOMAIN body : FirstCode(body, i, p) => SegmentsBefore(body, p) = s + 1
  /\ (\A j \in i..Len(body) : body[j] # "code") => s = CodeCount(body)

LEMMA SegmentLeads ==
  ASSUME NEW body \in Seq(SwitchChildren), NEW i \in DOMAIN body, body[i] # "code"
  PROVE  LeadsTo(body, i, SegmentsBefore(body, i))
<1>1. (\A j \in i..Len(body) : body[j] # "code") => SegmentsBefore(body, i) = CodeCount(body)
  BY SegmentsBeforeType
<1>2. ASSUME NEW p \in DOMAIN body, FirstCode(body, i, p)
      PROVE  SegmentsBefore(body, p) = SegmentsBefore(body, i) + 1
  <2> DEFINE before == {j \in 1..i : body[j] = "code"}
             upTo   == {j \in 1..p : body[j] = "code"}
  <2>1. i \in 1..Len(body) /\ p \in 1..Len(body) /\ i < p /\ Len(body) \in Nat
    BY <1>2 DEF FirstCode
  <2>2. upTo = before \cup {p}
    <3>1. \A j \in 1..p : j \in 1..i \/ j \in (i + 1)..(p - 1) \/ j = p
      BY <2>1
    <3>2. 1..i \subseteq 1..p /\ p \in 1..p
      BY <2>1
    <3> QED
      BY <1>2, <3>1, <3>2 DEF FirstCode
  <2>3. p \notin before
    BY <2>1
  <2>4. IsFiniteSet(before)
    BY <2>1, SubsetOfInterval
  <2>5. Cardinality(before \cup {p}) = Cardinality(before) + 1
    <3> HIDE DEF before
    <3> QED
      BY <2>3, <2>4, FS_AddElement
  <2> HIDE DEF before, upTo
  <2> QED
    BY <2>2, <2>5 DEF SegmentsBefore, before, upTo
<1> QED
  BY <1>1, <1>2 DEF LeadsTo

-----------------------------------------------------------------------------
(* Depths in a stack of frames. *)

DepthOf(f, kinds, i) == Cardinality({j \in 1..i : f[j].kind \in kinds})

LEMMA DepthType ==
  ASSUME NEW f, NEW kinds, NEW i \in Nat
  PROVE  /\ IsFiniteSet({j \in 1..i : f[j].kind \in kinds})
         /\ DepthOf(f, kinds, i) \in 0..i
BY SubsetOfInterval DEF DepthOf

LEMMA DepthZero ==
  ASSUME NEW f, NEW kinds
  PROVE  DepthOf(f, kinds, 0) = 0
BY FS_EmptySet DEF DepthOf

(* One frame further out. *)
LEMMA DepthStep ==
  ASSUME NEW f, NEW kinds, NEW i \in Nat
  PROVE  DepthOf(f, kinds, i + 1)
           = DepthOf(f, kinds, i) + (IF f[i + 1].kind \in kinds THEN 1 ELSE 0)
<1> DEFINE at(m) == {j \in 1..m : f[j].kind \in kinds}
<1>1. at(i + 1) = IF f[i + 1].kind \in kinds THEN at(i) \cup {i + 1} ELSE at(i)
  OBVIOUS
<1>2. i + 1 \notin at(i)
  OBVIOUS
<1>4. IsFiniteSet(at(i)) /\ Cardinality(at(i)) \in Nat
  BY DepthType, FS_CardinalityType
<1>3. DepthOf(f, kinds, i + 1) = Cardinality(at(i + 1)) /\ DepthOf(f, kinds, i) = Cardinality(at(i))
  BY DEF DepthOf
<1> HIDE DEF at
<1>5. Cardinality(at(i) \cup {i + 1}) = Cardinality(at(i)) + 1
  BY <1>2, <1>4, FS_AddElement
<1> QED
  BY <1>1, <1>3, <1>4, <1>5

LEMMA DepthMonotone ==
  ASSUME NEW f, NEW kinds, NEW i \in Nat, NEW k \in Nat, i <= k
  PROVE  DepthOf(f, kinds, i) <= DepthOf(f, kinds, k)
<1> DEFINE at(m) == {j \in 1..m : f[j].kind \in kinds}
<1>1. at(i) \subseteq at(k)
  OBVIOUS
<1>2. IsFiniteSet(at(k))
  BY DepthType
<1>3. DepthOf(f, kinds, k) = Cardinality(at(k)) /\ DepthOf(f, kinds, i) = Cardinality(at(i))
  BY DEF DepthOf
<1> HIDE DEF at
<1> QED
  BY <1>1, <1>2, <1>3, FS_Subset

(* A frame of one of the kinds is itself counted. *)
LEMMA DepthPositive ==
  ASSUME NEW f, NEW kinds, NEW i \in Nat \ {0}, f[i].kind \in kinds
  PROVE  /\ DepthOf(f, kinds, i) \in Nat /\ DepthOf(f, kinds, i) >= 1
         /\ DepthOf(f, kinds, i) \in 1..DepthOf(f, kinds, i)
<1>1. i - 1 \in Nat /\ (i - 1) + 1 = i
  OBVIOUS
<1>2. DepthOf(f, kinds, (i - 1) + 1) = DepthOf(f, kinds, i - 1) + 1
  BY <1>1, DepthStep
<1>3. DepthOf(f, kinds, i - 1) \in 0..(i - 1)
  BY <1>1, DepthType
<1> QED
  BY <1>1, <1>2, <1>3

(* Frames that agree on their kinds have the same depths. *)
LEMMA DepthAgree ==
  ASSUME NEW f, NEW g, NEW kinds, NEW i \in Nat,
         \A j \in 1..i : f[j].kind \in kinds <=> g[j].kind \in kinds
  PROVE  DepthOf(f, kinds, i) = DepthOf(g, kinds, i)
<1>1. {j \in 1..i : f[j].kind \in kinds} = {j \in 1..i : g[j].kind \in kinds}
  OBVIOUS
<1> QED
  BY <1>1 DEF DepthOf

(* For each depth there is a frame at it. *)
LEMMA FrameAtDepth ==
  ASSUME NEW f, NEW kinds, NEW n \in Nat, NEW p \in 1..DepthOf(f, kinds, n)
  PROVE  \E i \in 1..n : f[i].kind \in kinds /\ DepthOf(f, kinds, i) = p
<1> DEFINE C == {j \in 1..n : f[j].kind \in kinds}
<1>1. C \in SUBSET (1..n) /\ p \in 1..Cardinality(C)
  BY DEF DepthOf
<1>2. PICK i \in C : Cardinality({j \in C : j <= i}) = p
  BY <1>1, RankIsOnto
<1>3. {j \in C : j <= i} = {j \in 1..i : f[j].kind \in kinds}
  OBVIOUS
<1> QED
  BY <1>2, <1>3 DEF DepthOf

-----------------------------------------------------------------------------
(* The four stacks, for any frames. *)

Both == {"loop", "switch"}

InStacks(bk, f, bfl, lt, i) ==
  /\ f[i].kind = "loop" =>
       /\ bfl[DepthOf(f, Both, i)]
       /\ lt[DepthOf(f, {"loop"}, i)] = IF f[i].obj.terminal THEN f[i].at ELSE 0
  /\ f[i].kind = "switch" =>
       /\ ~ bfl[DepthOf(f, Both, i)]
       /\ bk.switches[DepthOf(f, {"switch"}, i)]
            = f[i].obj.segments[Len(f[i].obj.segments)] + 1

StackLengths(bk, f, bfl, lt, n) ==
  /\ Len(bfl) = DepthOf(f, Both, n)
  /\ Len(lt) = DepthOf(f, {"loop"}, n) /\ Len(bk.loops) = DepthOf(f, {"loop"}, n)
  /\ Len(bk.switches) = DepthOf(f, {"switch"}, n)

StacksOK(bk, f, bfl, lt) ==
  /\ StackLengths(bk, f, bfl, lt, Len(f))
  /\ \A i \in 1..Len(f) : InStacks(bk, f, bfl, lt, i)

(* Typed stacks. *)
StacksTyped(bk, f, bfl, lt) ==
  /\ \E S : f \in Seq(S)
  /\ bfl \in Seq(BOOLEAN) /\ lt \in Seq(Nat)
  /\ bk.switches \in Seq(Nat) /\ \E L : bk.loops \in Seq(L)

(* What the frames up to i say of the stacks survives a change behind them. *)
LEMMA InStacksAgree ==
  ASSUME NEW bk, NEW f, NEW bfl, NEW lt, NEW ck, NEW g, NEW cfl, NEW mt,
         NEW i \in Nat \ {0}, \A j \in 1..i : g[j] = f[j],
         InStacks(bk, f, bfl, lt, i),
         \A p \in 1..DepthOf(f, Both, i) : cfl[p] = bfl[p],
         \A p \in 1..DepthOf(f, {"loop"}, i) : mt[p] = lt[p],
         \A p \in 1..DepthOf(f, {"switch"}, i) : ck.switches[p] = bk.switches[p]
  PROVE  InStacks(ck, g, cfl, mt, i)
<1>1. /\ DepthOf(g, Both, i) = DepthOf(f, Both, i)
      /\ DepthOf(g, {"loop"}, i) = DepthOf(f, {"loop"}, i)
      /\ DepthOf(g, {"switch"}, i) = DepthOf(f, {"switch"}, i)
  BY DepthAgree
<1>2. g[i] = f[i]
  OBVIOUS
<1>3. CASE f[i].kind = "loop"
  <2>0. f[i].kind \in Both /\ f[i].kind \in {"loop"}
    BY <1>3 DEF Both
  <2>1. DepthOf(f, Both, i) \in 1..DepthOf(f, Both, i)
    BY <2>0, DepthPositive
  <2>2. DepthOf(f, {"loop"}, i) \in 1..DepthOf(f, {"loop"}, i)
    BY <2>0, DepthPositive
  <2> QED
    BY <1>1, <1>2, <1>3, <2>1, <2>2 DEF InStacks
<1>4. CASE f[i].kind = "switch"
  <2>0. f[i].kind \in Both /\ f[i].kind \in {"switch"}
    BY <1>4 DEF Both
  <2>1. DepthOf(f, Both, i) \in 1..DepthOf(f, Both, i)
    BY <2>0, DepthPositive
  <2>2. DepthOf(f, {"switch"}, i) \in 1..DepthOf(f, {"switch"}, i)
    BY <2>0, DepthPositive
  <2> QED
    BY <1>1, <1>2, <1>4, <2>1, <2>2 DEF InStacks
<1>5. CASE f[i].kind \notin Both
  BY <1>2, <1>5 DEF InStacks, Both
<1> QED
  BY <1>3, <1>4, <1>5 DEF Both

LEMMA PushDepth ==
  ASSUME NEW S, NEW f \in Seq(S), NEW e \in S, NEW kinds
  PROVE  /\ Len(f) \in Nat /\ DepthOf(f, kinds, Len(f)) \in Nat
         /\ Len(Append(f, e)) = Len(f) + 1 /\ Append(f, e)[Len(f) + 1] = e
         /\ DepthOf(Append(f, e), kinds, Len(f) + 1)
              = DepthOf(f, kinds, Len(f)) + (IF e.kind \in kinds THEN 1 ELSE 0)
<1> DEFINE n == Len(f)
           g == Append(f, e)
<1>1. /\ n \in Nat /\ Len(g) = n + 1 /\ g[n + 1] = e
      /\ \A j \in 1..n : g[j] = f[j]
  BY AppendProperties
<1> HIDE DEF g, n
<1>2. DepthOf(g, kinds, n) = DepthOf(f, kinds, n)
  BY <1>1, DepthAgree
<1>3. DepthOf(g, kinds, n + 1)
        = DepthOf(g, kinds, n) + (IF g[n + 1].kind \in kinds THEN 1 ELSE 0)
  BY <1>1, DepthStep
<1>4. DepthOf(f, kinds, n) \in 0..n
  BY <1>1, DepthType
<1>5. /\ n \in Nat /\ DepthOf(f, kinds, n) \in Nat /\ Len(g) = n + 1 /\ g[n + 1] = e
      /\ DepthOf(g, kinds, n + 1)
           = DepthOf(f, kinds, n) + (IF e.kind \in kinds THEN 1 ELSE 0)
  BY <1>1, <1>2, <1>3, <1>4
<1> QED
  BY <1>5 DEF g, n

(* A construct is entered: what the stacks held they still hold. *)
LEMMA PushKeeps ==
  ASSUME NEW bk, NEW f, NEW bfl, NEW lt, NEW ck, NEW cfl, NEW mt, NEW S, NEW e,
         f \in Seq(S), e \in S,
         StacksTyped(bk, f, bfl, lt), StacksOK(bk, f, bfl, lt),
         \A p \in 1..Len(bfl) : cfl[p] = bfl[p],
         \A p \in 1..Len(lt) : mt[p] = lt[p],
         \A p \in 1..Len(bk.switches) : ck.switches[p] = bk.switches[p],
         StackLengths(ck, Append(f, e), cfl, mt, Len(f) + 1),
         InStacks(ck, Append(f, e), cfl, mt, Len(f) + 1)
  PROVE  StacksOK(ck, Append(f, e), cfl, mt)
<1> DEFINE n == Len(f)
           g == Append(f, e)
<1>1. /\ n \in Nat /\ Len(g) = n + 1 /\ \A j \in 1..n : g[j] = f[j]
  BY AppendProperties
<1>2. StackLengths(ck, g, cfl, mt, n + 1) /\ InStacks(ck, g, cfl, mt, n + 1)
  OBVIOUS
<1> HIDE DEF g, n
<1>3. ASSUME NEW i \in 1..n PROVE InStacks(ck, g, cfl, mt, i)
  <2>1. i \in Nat \ {0} /\ i <= n /\ \A j \in 1..i : g[j] = f[j]
    BY SMTT(60), <1>1
  <2>2. InStacks(bk, f, bfl, lt, i) /\ StackLengths(bk, f, bfl, lt, n)
    BY DEF StacksOK, n
  <2>3. \A kinds : DepthOf(f, kinds, i) <= DepthOf(f, kinds, n) /\ DepthOf(f, kinds, i) \in 0..i
    BY <1>1, <2>1, DepthMonotone, DepthType
  <2>4. /\ DepthOf(f, Both, i) <= Len(bfl) /\ DepthOf(f, {"loop"}, i) <= Len(lt)
        /\ DepthOf(f, {"switch"}, i) <= Len(bk.switches)
        /\ DepthOf(f, Both, i) \in Nat /\ DepthOf(f, {"loop"}, i) \in Nat
        /\ DepthOf(f, {"switch"}, i) \in Nat
    BY <2>1, <2>2, <2>3 DEF StackLengths
  <2>5. Len(bfl) \in Nat /\ Len(lt) \in Nat /\ Len(bk.switches) \in Nat
    BY DEF StacksTyped
  <2>6. /\ \A p \in 1..DepthOf(f, Both, i) : cfl[p] = bfl[p]
        /\ \A p \in 1..DepthOf(f, {"loop"}, i) : mt[p] = lt[p]
        /\ \A p \in 1..DepthOf(f, {"switch"}, i) : ck.switches[p] = bk.switches[p]
    BY <2>4, <2>5
  <2> QED
    BY <2>1, <2>2, <2>6, InStacksAgree
<1>4. \A i \in 1..Len(g) : i \in 1..n \/ i = n + 1
  BY <1>1
<1>5. StacksOK(ck, g, cfl, mt)
  BY <1>1, <1>2, <1>3, <1>4 DEF StacksOK
<1> QED
  BY <1>5 DEF g

(* A construct that owns no stack entry is entered. *)
LEMMA PushPlain ==
  ASSUME NEW bk, NEW f, NEW bfl, NEW lt, NEW ck, NEW e, NEW S,
         f \in Seq(S), e \in S, e.kind \notin Both,
         StacksTyped(bk, f, bfl, lt), StacksOK(bk, f, bfl, lt), SameStacks(bk, ck)
  PROVE  StacksOK(ck, Append(f, e), bfl, lt)
<1>1. e.kind \notin {"loop"} /\ e.kind \notin {"switch"}
  BY DEF Both
<1>2. \A kinds : e.kind \notin kinds =>
         DepthOf(Append(f, e), kinds, Len(f) + 1) = DepthOf(f, kinds, Len(f))
  BY PushDepth
<1>3. StackLengths(bk, f, bfl, lt, Len(f))
  BY DEF StacksOK
<1>4. StackLengths(ck, Append(f, e), bfl, lt, Len(f) + 1)
  BY <1>1, <1>2, <1>3 DEF StackLengths, SameStacks
<1>5. Append(f, e)[Len(f) + 1] = e
  BY PushDepth
<1>6. InStacks(ck, Append(f, e), bfl, lt, Len(f) + 1)
  BY <1>1, <1>5 DEF InStacks
<1> QED
  BY <1>4, <1>6, PushKeeps DEF SameStacks

(* A loop is entered. *)
LEMMA PushLoop ==
  ASSUME NEW bk, NEW f, NEW bfl, NEW lt, NEW ck, NEW e, NEW S,
         f \in Seq(S), e \in S, e.kind = "loop",
         StacksTyped(bk, f, bfl, lt), StacksOK(bk, f, bfl, lt),
         Len(ck.loops) = Len(bk.loops) + 1, ck.switches = bk.switches,
         NEW t \in Nat, t = IF e.obj.terminal THEN e.at ELSE 0
  PROVE  StacksOK(ck, Append(f, e), Append(bfl, TRUE), Append(lt, t))
<1> DEFINE g   == Append(f, e)
           n   == Len(f)
           cfl == Append(bfl, TRUE)
           mt  == Append(lt, t)
<1>1. /\ Len(cfl) = Len(bfl) + 1 /\ cfl[Len(bfl) + 1] = TRUE
      /\ \A p \in 1..Len(bfl) : cfl[p] = bfl[p]
      /\ Len(mt) = Len(lt) + 1 /\ mt[Len(lt) + 1] = t
      /\ \A p \in 1..Len(lt) : mt[p] = lt[p]
  BY AppendProperties DEF StacksTyped
<1>2. "loop" \in Both /\ "loop" \in {"loop"} /\ "loop" \notin {"switch"}
  BY DEF Both
<1>3. /\ \A kinds : /\ DepthOf(f, kinds, n) \in Nat
                    /\ DepthOf(g, kinds, n + 1) = DepthOf(f, kinds, n)
                                            + (IF "loop" \in kinds THEN 1 ELSE 0)
      /\ g[n + 1] = e
  BY PushDepth
<1>4. StackLengths(bk, f, bfl, lt, n)
  BY DEF StacksOK
<1> HIDE DEF g, n, cfl, mt
<1>5. /\ DepthOf(g, Both, n + 1) = Len(bfl) + 1
      /\ DepthOf(g, {"loop"}, n + 1) = Len(lt) + 1
      /\ DepthOf(g, {"loop"}, n + 1) = Len(bk.loops) + 1
      /\ DepthOf(g, {"switch"}, n + 1) = Len(bk.switches)
  BY <1>2, <1>3, <1>4 DEF StackLengths
<1>6. StackLengths(ck, g, cfl, mt, n + 1)
  BY <1>1, <1>5 DEF StackLengths
<1>7. cfl[DepthOf(g, Both, n + 1)] /\ mt[DepthOf(g, {"loop"}, n + 1)] = t
  BY <1>1, <1>5
<1>8. InStacks(ck, g, cfl, mt, n + 1)
  BY <1>3, <1>7 DEF InStacks
<1>9. StacksOK(ck, Append(f, e), cfl, mt)
  BY <1>1, <1>6, <1>8, PushKeeps DEF g, n
<1> QED
  BY <1>9 DEF cfl, mt

(* A switch is entered. *)
LEMMA PushSwitch ==
  ASSUME NEW bk, NEW f, NEW bfl, NEW lt, NEW ck, NEW e, NEW S,
         f \in Seq(S), e \in S, e.kind = "switch",
         StacksTyped(bk, f, bfl, lt), StacksOK(bk, f, bfl, lt),
         ck.loops = bk.loops,
         NEW m \in Nat, ck.switches = Append(bk.switches, m),
         m = e.obj.segments[Len(e.obj.segments)] + 1
  PROVE  StacksOK(ck, Append(f, e), Append(bfl, FALSE), lt)
<1> DEFINE g   == Append(f, e)
           n   == Len(f)
           cfl == Append(bfl, FALSE)
<1>1. /\ Len(cfl) = Len(bfl) + 1 /\ cfl[Len(bfl) + 1] = FALSE
      /\ \A p \in 1..Len(bfl) : cfl[p] = bfl[p]
      /\ Len(ck.switches) = Len(bk.switches) + 1
      /\ ck.switches[Len(bk.switches) + 1] = m
      /\ \A p \in 1..Len(bk.switches) : ck.switches[p] = bk.switches[p]
  BY AppendProperties DEF StacksTyped
<1>2. "switch" \in Both /\ "switch" \in {"switch"} /\ "switch" \notin {"loop"}
  BY DEF Both
<1>3. /\ \A kinds : /\ DepthOf(f, kinds, n) \in Nat
                    /\ DepthOf(g, kinds, n + 1) = DepthOf(f, kinds, n)
                                            + (IF "switch" \in kinds THEN 1 ELSE 0)
      /\ g[n + 1] = e
  BY PushDepth
<1>4. StackLengths(bk, f, bfl, lt, n)
  BY DEF StacksOK
<1> HIDE DEF g, n, cfl
<1>5. /\ DepthOf(g, Both, n + 1) = Len(bfl) + 1
      /\ DepthOf(g, {"loop"}, n + 1) = Len(lt)
      /\ DepthOf(g, {"loop"}, n + 1) = Len(bk.loops)
      /\ DepthOf(g, {"switch"}, n + 1) = Len(bk.switches) + 1
  BY <1>2, <1>3, <1>4 DEF StackLengths
<1>6. StackLengths(ck, g, cfl, lt, n + 1)
  BY <1>1, <1>5 DEF StackLengths
<1>7. ~ cfl[DepthOf(g, Both, n + 1)] /\ ck.switches[DepthOf(g, {"switch"}, n + 1)] = m
  BY <1>1, <1>5
<1>8. InStacks(ck, g, cfl, lt, n + 1)
  BY <1>3, <1>7 DEF InStacks
<1>9. StacksOK(ck, Append(f, e), cfl, lt)
  BY <1>1, <1>6, <1>8, PushKeeps DEF g, n
<1> QED
  BY <1>9 DEF cfl

LEMMA PopElements ==
  ASSUME NEW S, NEW s \in Seq(S), s # <<>>
  PROVE  /\ Pop(s) \in Seq(S) /\ Len(s) \in Nat \ {0} /\ Len(Pop(s)) = Len(s) - 1
         /\ \A i \in 1..(Len(s) - 1) : Pop(s)[i] = s[i]
         /\ TopOf(s) = s[Len(s)] /\ TopOf(s) \in S
<1>1. Len(s) \in Nat \ {0}
  BY SeqElements
<1> DEFINE n == Len(s) - 1
<1>2. n \in Nat /\ n \in Int /\ 1 \in Int /\ \A i \in 1..n : s[i] \in S
  BY <1>1
<1> HIDE DEF n
<1>3. \A i \in 1..(n - 1 + 1) : SubSeq(s, 1, n)[i] = s[1 + i - 1]
  BY <1>2, SubSeqProperties
<1>4. \A i \in 1..n : SubSeq(s, 1, n)[i] = s[i]
  BY <1>2, <1>3
<1> QED
  BY <1>1, <1>4, TopPopType DEF Pop, TopOf, n

(* The innermost construct is left: what stays on the stacks is in place. *)
LEMMA PopKeeps ==
  ASSUME NEW bk, NEW f, NEW bfl, NEW lt, NEW ck, NEW cfl, NEW mt, NEW S,
         f \in Seq(S), f # <<>>, StacksOK(bk, f, bfl, lt),
         Len(cfl) \in Nat, Len(mt) \in Nat, Len(ck.switches) \in Nat,
         \A p \in 1..Len(cfl) : cfl[p] = bfl[p],
         \A p \in 1..Len(mt) : mt[p] = lt[p],
         \A p \in 1..Len(ck.switches) : ck.switches[p] = bk.switches[p],
         StackLengths(ck, f, cfl, mt, Len(f) - 1)
  PROVE  StacksOK(ck, Pop(f), cfl, mt)
<1> DEFINE n == Len(f) - 1
           g == Pop(f)
<1>a. /\ Len(f) \in Nat \ {0} /\ Len(g) = n
      /\ \A j \in 1..n : g[j] = f[j]
  BY PopElements
<1> HIDE DEF g
<1>1. n \in Nat /\ Len(g) = n /\ \A j \in 1..n : g[j] = f[j] /\ j \in 1..Len(f)
  BY <1>a
<1>2. StackLengths(ck, f, cfl, mt, n)
  OBVIOUS
<1> HIDE DEF g, n
<1>3. ASSUME NEW i \in 1..n PROVE InStacks(ck, g, cfl, mt, i)
  <2>1. i \in Nat \ {0} /\ i <= n /\ i \in 1..Len(f) /\ \A j \in 1..i : g[j] = f[j]
    BY <1>1
  <2>2. InStacks(bk, f, bfl, lt, i)
    BY <2>1 DEF StacksOK
  <2>3. \A kinds : DepthOf(f, kinds, i) <= DepthOf(f, kinds, n) /\ DepthOf(f, kinds, i) \in 0..i
    BY <1>1, <2>1, DepthMonotone, DepthType
  <2>4. /\ DepthOf(f, Both, i) <= Len(cfl) /\ DepthOf(f, {"loop"}, i) <= Len(mt)
        /\ DepthOf(f, {"switch"}, i) <= Len(ck.switches)
        /\ DepthOf(f, Both, i) \in Nat /\ DepthOf(f, {"loop"}, i) \in Nat
        /\ DepthOf(f, {"switch"}, i) \in Nat
    BY <1>2, <2>1, <2>3 DEF StackLengths
  <2>5. Len(cfl) \in Nat /\ Len(mt) \in Nat /\ Len(ck.switches) \in Nat
    OBVIOUS
  <2>6. /\ \A p \in 1..DepthOf(f, Both, i) : cfl[p] = bfl[p]
        /\ \A p \in 1..DepthOf(f, {"loop"}, i) : mt[p] = lt[p]
        /\ \A p \in 1..DepthOf(f, {"switch"}, i) : ck.switches[p] = bk.switches[p]
    BY <2>4, <2>5
  <2> QED
    BY <2>1, <2>2, <2>6, InStacksAgree
<1>4. \A kinds : DepthOf(g, kinds, n) = DepthOf(f, kinds, n)
  BY <1>1, DepthAgree
<1>5. StackLengths(ck, g, cfl, mt, n)
  BY <1>2, <1>4 DEF StackLengths
<1>6. StacksOK(ck, g, cfl, mt)
  BY <1>1, <1>3, <1>5 DEF StacksOK
<1> QED
  BY <1>6 DEF g

(* The depths without the innermost frame. *)
LEMMA PopDepth ==
  ASSUME NEW S, NEW f \in Seq(S), f # <<>>, NEW kinds
  PROVE  /\ DepthOf(f, kinds, Len(f) - 1) \in Nat
         /\ DepthOf(f, kinds, Len(f))
              = DepthOf(f, kinds, Len(f) - 1)
                + (IF TopOf(f).kind \in kinds THEN 1 ELSE 0)
<1> DEFINE n == Len(f) - 1
<1>a. Len(f) \in Nat \ {0} /\ TopOf(f) = f[Len(f)]
  BY PopElements
<1>1. n \in Nat /\ Len(f) = n + 1 /\ TopOf(f) = f[n + 1]
  BY <1>a
<1> HIDE DEF n
<1>2. DepthOf(f, kinds, n) \in 0..n
  BY <1>1, DepthType
<1>3. DepthOf(f, kinds, n + 1)
        = DepthOf(f, kinds, n) + (IF f[n + 1].kind \in kinds THEN 1 ELSE 0)
  BY <1>1, DepthStep
<1>4. /\ DepthOf(f, kinds, n) \in Nat
      /\ DepthOf(f, kinds, Len(f)) = DepthOf(f, kinds, n)
                                   + (IF TopOf(f).kind \in kinds THEN 1 ELSE 0)
  BY <1>1, <1>2, <1>3
<1> QED
  BY <1>4 DEF n

LEMMA PopPlain ==
  ASSUME NEW bk, NEW f, NEW bfl, NEW lt, NEW ck, NEW S,
         f \in Seq(S), f # <<>>, TopOf(f).kind \notin Both,
         StacksTyped(bk, f, bfl, lt), StacksOK(bk, f, bfl, lt), SameStacks(bk, ck)
  PROVE  StacksOK(ck, Pop(f), bfl, lt)
<1>1. TopOf(f).kind \notin {"loop"} /\ TopOf(f).kind \notin {"switch"}
  BY DEF Both
<1>2. \A kinds : TopOf(f).kind \notin kinds =>
         DepthOf(f, kinds, Len(f)) = DepthOf(f, kinds, Len(f) - 1)
  BY PopDepth
<1>3. StackLengths(bk, f, bfl, lt, Len(f))
  BY DEF StacksOK
<1>4. StackLengths(ck, f, bfl, lt, Len(f) - 1)
  BY <1>1, <1>2, <1>3 DEF StackLengths, SameStacks
<1>5. Len(bfl) \in Nat /\ Len(lt) \in Nat /\ Len(bk.switches) \in Nat
  BY DEF StacksTyped
<1> QED
  BY <1>4, <1>5, PopKeeps DEF SameStacks

(* The innermost construct is a loop, or a switch: it is on top of its     *)
(* stacks, and is left.                                                    *)
LEMMA PopLoop ==
  ASSUME NEW bk, NEW f, NEW bfl, NEW lt, NEW ck, NEW S, NEW L,
         f \in Seq(S), f # <<>>, TopOf(f).kind = "loop", bk.loops \in Seq(L),
         StacksTyped(bk, f, bfl, lt), StacksOK(bk, f, bfl, lt)
  PROVE  /\ bfl # <<>> /\ lt # <<>> /\ bk.loops # <<>>
         /\ (ck.loops = Pop(bk.loops) /\ ck.switches = bk.switches)
               => StacksOK(ck, Pop(f), Pop(bfl), Pop(lt))
<1> DEFINE n   == Len(f)
           cfl == Pop(bfl)
           mt  == Pop(lt)
<1>1. "loop" \in Both /\ "loop" \in {"loop"} /\ "loop" \notin {"switch"}
  BY DEF Both
<1>2. \A kinds : /\ DepthOf(f, kinds, n - 1) \in Nat
                 /\ DepthOf(f, kinds, n) = DepthOf(f, kinds, n - 1)
                                         + (IF "loop" \in kinds THEN 1 ELSE 0)
  BY PopDepth
<1>3. StackLengths(bk, f, bfl, lt, n)
  BY DEF StacksOK
<1> HIDE DEF n
<1>4. /\ Len(bfl) = DepthOf(f, Both, n - 1) + 1 /\ Len(lt) = DepthOf(f, {"loop"}, n - 1) + 1
      /\ Len(bk.loops) = DepthOf(f, {"loop"}, n - 1) + 1
      /\ Len(bk.switches) = DepthOf(f, {"switch"}, n - 1)
      /\ DepthOf(f, Both, n - 1) \in Nat /\ DepthOf(f, {"loop"}, n - 1) \in Nat
  BY <1>1, <1>2, <1>3 DEF StackLengths
<1>5. bfl # <<>> /\ lt # <<>> /\ bk.loops # <<>>
  BY <1>4
<1>6. /\ Len(cfl) = Len(bfl) - 1 /\ \A p \in 1..(Len(bfl) - 1) : cfl[p] = bfl[p]
      /\ Len(mt) = Len(lt) - 1 /\ \A p \in 1..(Len(lt) - 1) : mt[p] = lt[p]
      /\ Len(bfl) \in Nat \ {0} /\ Len(lt) \in Nat \ {0}
  BY <1>5, PopElements DEF StacksTyped
<1>7. Len(Pop(bk.loops)) = Len(bk.loops) - 1
  BY <1>5, PopElements
<1> HIDE DEF cfl, mt
<1>8. ASSUME ck.loops = Pop(bk.loops), ck.switches = bk.switches
      PROVE  StacksOK(ck, Pop(f), cfl, mt)
  <2>1. StackLengths(ck, f, cfl, mt, n - 1)
    BY <1>4, <1>6, <1>7, <1>8 DEF StackLengths
  <2>2. /\ Len(cfl) \in Nat /\ Len(mt) \in Nat /\ Len(ck.switches) \in Nat
        /\ \A p \in 1..Len(cfl) : cfl[p] = bfl[p]
        /\ \A p \in 1..Len(mt) : mt[p] = lt[p]
        /\ \A p \in 1..Len(ck.switches) : ck.switches[p] = bk.switches[p]
    BY <1>6, <1>8 DEF StacksTyped
  <2> QED
    BY <2>1, <2>2, PopKeeps DEF n
<1> QED
  BY <1>5, <1>8 DEF cfl, mt

LEMMA PopSwitch ==
  ASSUME NEW bk, NEW f, NEW bfl, NEW lt, NEW ck, NEW S,
         f \in Seq(S), f # <<>>, TopOf(f).kind = "switch",
         StacksTyped(bk, f, bfl, lt), StacksOK(bk, f, bfl, lt)
  PROVE  /\ bfl # <<>> /\ bk.switches # <<>>
         /\ (ck.loops = bk.loops /\ ck.switches = Pop(bk.switches))
               => StacksOK(ck, Pop(f), Pop(bfl), lt)
<1> DEFINE n   == Len(f)
           cfl == Pop(bfl)
           sw  == Pop(bk.switches)
<1>1. "switch" \in Both /\ "switch" \in {"switch"} /\ "switch" \notin {"loop"}
  BY DEF Both
<1>2. \A kinds : /\ DepthOf(f, kinds, n - 1) \in Nat
                 /\ DepthOf(f, kinds, n) = DepthOf(f, kinds, n - 1)
                                         + (IF "switch" \in kinds THEN 1 ELSE 0)
  BY PopDepth
<1>3. StackLengths(bk, f, bfl, lt, n)
  BY DEF StacksOK
<1> HIDE DEF n
<1>4. /\ Len(bfl) = DepthOf(f, Both, n - 1) + 1 /\ Len(lt) = DepthOf(f, {"loop"}, n - 1)
      /\ Len(bk.loops) = DepthOf(f, {"loop"}, n - 1)
      /\ Len(bk.switches) = DepthOf(f, {"switch"}, n - 1) + 1
      /\ DepthOf(f, Both, n - 1) \in Nat /\ DepthOf(f, {"switch"}, n - 1) \in Nat
  BY <1>1, <1>2, <1>3 DEF StackLengths
<1>5. bfl # <<>> /\ bk.switches # <<>>
  BY <1>4
<1>6. /\ Len(cfl) = Len(bfl) - 1 /\ \A p \in 1..(Len(bfl) - 1) : cfl[p] = bfl[p]
      /\ Len(sw) = Len(bk.switches) - 1
      /\ \A p \in 1..(Len(bk.switches) - 1) : sw[p] = bk.switches[p]
      /\ Len(bfl) \in Nat \ {0} /\ Len(bk.switches) \in Nat \ {0}
  BY <1>5, PopElements DEF StacksTyped
<1> HIDE DEF cfl, sw
<1>7. ASSUME ck.loops = bk.loops, ck.switches = sw
      PROVE  StacksOK(ck, Pop(f), cfl, lt)
  <2>1. StackLengths(ck, f, cfl, lt, n - 1)
    BY <1>4, <1>6, <1>7 DEF StackLengths
  <2>2. /\ Len(cfl) \in Nat /\ Len(lt) \in Nat /\ Len(ck.switches) \in Nat
        /\ \A p \in 1..Len(cfl) : cfl[p] = bfl[p]
        /\ \A p \in 1..Len(ck.switches) : ck.switches[p] = bk.switches[p]
    BY <1>6, <1>7 DEF StacksTyped
  <2> QED
    BY <2>1, <2>2, PopKeeps DEF n
<1> QED
  BY <1>5, <1>7 DEF cfl, sw

(* Frames that are the same constructs. *)
LEMMA Restack ==
  ASSUME NEW bk, NEW f, NEW bfl, NEW lt, NEW ck, NEW g,
         Len(f) \in Nat, Len(g) = Len(f),
         StacksOK(bk, f, bfl, lt), SameStacks(bk, ck),
         \A i \in 1..Len(f) :
           /\ g[i].kind = f[i].kind
           /\ f[i].kind = "loop" => g[i] = f[i]
           /\ f[i].kind = "switch" => g[i].obj.segments = f[i].obj.segments
  PROVE  StacksOK(ck, g, bfl, lt)
<1>1. \A kinds : \A i \in 0..Len(f) : DepthOf(g, kinds, i) = DepthOf(f, kinds, i)
  <2> SUFFICES ASSUME NEW kinds, NEW i \in 0..Len(f)
               PROVE  DepthOf(g, kinds, i) = DepthOf(f, kinds, i)
    OBVIOUS
  <2>1. i \in Nat /\ \A j \in 1..i : g[j].kind = f[j].kind
    OBVIOUS
  <2> QED
    BY <2>1, DepthAgree
<1>2. StackLengths(ck, g, bfl, lt, Len(f))
  BY <1>1 DEF StacksOK, StackLengths, SameStacks
<1>3. ASSUME NEW i \in 1..Len(f) PROVE InStacks(ck, g, bfl, lt, i)
  <2>1. InStacks(bk, f, bfl, lt, i)
    BY DEF StacksOK
  <2>2. \A kinds : DepthOf(g, kinds, i) = DepthOf(f, kinds, i)
    BY <1>1
  <2> QED
    BY <2>1, <2>2 DEF InStacks, SameStacks
<1> QED
  BY <1>2, <1>3 DEF StacksOK

(* The top of the traverser's stack tells which of the builder's stacks is *)
(* not empty.                                                              *)
LEMMA TopTells ==
  ASSUME NEW bk, NEW f, NEW bfl, NEW lt, NEW S, f \in Seq(S), bfl # <<>>,
         StacksTyped(bk, f, bfl, lt), StacksOK(bk, f, bfl, lt)
  PROVE  IF TopOf(bfl) THEN bk.loops # <<>> ELSE bk.switches # <<>>
<1> DEFINE n == Len(f)
<1>1. Len(bfl) \in Nat \ {0} /\ n \in Nat /\ StackLengths(bk, f, bfl, lt, n)
  BY SeqElements DEF StacksTyped, StacksOK
<1>2. Len(bfl) \in 1..DepthOf(f, Both, n)
  BY <1>1 DEF StackLengths
<1> HIDE DEF n
<1>3. PICK i \in 1..n : f[i].kind \in Both /\ DepthOf(f, Both, i) = Len(bfl)
  BY <1>1, <1>2, FrameAtDepth
<1>4. InStacks(bk, f, bfl, lt, i) /\ i \in Nat \ {0} /\ i <= n
  BY <1>1 DEF StacksOK, n
<1>5. CASE f[i].kind = "loop"
  <2>1. TopOf(bfl)
    BY <1>3, <1>4, <1>5 DEF InStacks, TopOf
  <2>2. f[i].kind \in {"loop"}
    BY <1>5
  <2>3. DepthOf(f, {"loop"}, i) >= 1 /\ DepthOf(f, {"loop"}, i) \in Nat
    BY <1>4, <2>2, DepthPositive
  <2>4. DepthOf(f, {"loop"}, i) <= DepthOf(f, {"loop"}, n)
    BY <1>1, <1>4, DepthMonotone
  <2>5. Len(bk.loops) # 0
    BY <1>1, <2>3, <2>4, DepthType DEF StackLengths
  <2> QED
    BY <2>1, <2>5
<1>6. CASE f[i].kind = "switch"
  <2>1. ~ TopOf(bfl)
    BY <1>3, <1>4, <1>6 DEF InStacks, TopOf
  <2>2. f[i].kind \in {"switch"}
    BY <1>6
  <2>3. DepthOf(f, {"switch"}, i) >= 1 /\ DepthOf(f, {"switch"}, i) \in Nat
    BY <1>4, <2>2, DepthPositive
  <2>4. DepthOf(f, {"switch"}, i) <= DepthOf(f, {"switch"}, n)
    BY <1>1, <1>4, DepthMonotone
  <2>5. Len(bk.switches) # 0
    BY <1>1, <2>3, <2>4, DepthType DEF StackLengths
  <2> QED
    BY <2>1, <2>5
<1> QED
  BY <1>3, <1>5, <1>6 DEF Both

-----------------------------------------------------------------------------
(* The inductive invariant, for any state. *)

SwitchType(n) == {o \in [segments : Seq(1..n), s : Nat, code : Nat] :
                    o.s \in 1..Len(o.segments)}
FrameType(n) ==
  [kind : {"then", "else"}, at : Nat, obj : IfType(n)]
  \cup [kind : {"loop"}, at : Nat, obj : AllLoopForms]
  \cup [kind : {"switch"}, at : Nat, obj : SwitchType(n)]

FirstBlocks == IF HelperFunctions THEN 5 ELSE 4

StateOK(bk, f, bfl, lt, m) ==
  /\ BuilderOK(bk) /\ FirstBlocks <= Len(bk.blocks)
  /\ f \in Seq(FrameType(Len(bk.blocks)))
  /\ bfl \in Seq(BOOLEAN) /\ m \in Nat /\ lt \in Seq(0..m)
  /\ StacksOK(bk, f, bfl, lt)

LEMMA FrameMonotone ==
  ASSUME NEW n \in Nat, NEW m \in Nat, n <= m
  PROVE  FrameType(n) \subseteq FrameType(m)
<1>1. IfType(n) \subseteq IfType(m)
  BY DEF IfType
<1>2. Seq(1..n) \subseteq Seq(1..m)
  BY SeqSubset, 1..n \subseteq 1..m
<1>3. SwitchType(n) \subseteq SwitchType(m)
  BY <1>2 DEF SwitchType
<1> QED
  BY <1>1, <1>3 DEF FrameType

LEMMA FramesGrow ==
  ASSUME NEW f, NEW n \in Nat, NEW m \in Nat, n <= m, f \in Seq(FrameType(n))
  PROVE  f \in Seq(FrameType(m))
BY FrameMonotone, SeqSubset

LEMMA StateTyped ==
  ASSUME NEW bk, NEW f, NEW bfl, NEW lt, NEW m, StateOK(bk, f, bfl, lt, m)
  PROVE  /\ StacksTyped(bk, f, bfl, lt) /\ StacksOK(bk, f, bfl, lt) /\ BuilderOK(bk)
         /\ Len(bk.blocks) \in Nat /\ f \in Seq(FrameType(Len(bk.blocks)))
         /\ bk.loops \in Seq(LoopType(Len(bk.blocks)))
<1>1. BuilderOK(bk) /\ f \in Seq(FrameType(Len(bk.blocks))) /\ StacksOK(bk, f, bfl, lt)
  BY DEF StateOK
<1>2. /\ bk.switches \in Seq(1..Len(bk.blocks))
      /\ bk.loops \in Seq(LoopType(Len(bk.blocks))) /\ Len(bk.blocks) \in Nat
  BY <1>1, StacksType, LenNat
<1>3. bk.switches \in Seq(Nat)
  BY <1>2, 1..Len(bk.blocks) \subseteq Nat, SeqSubset
<1>4. bfl \in Seq(BOOLEAN) /\ lt \in Seq(Nat)
  BY 0..m \subseteq Nat, SeqSubset DEF StateOK
<1> QED
  BY <1>1, <1>2, <1>3, <1>4 DEF StacksTyped

(* A step that neither enters nor leaves a construct. *)
LEMMA QuietStep ==
  ASSUME NEW bk, NEW f, NEW bfl, NEW lt, NEW m, StateOK(bk, f, bfl, lt, m),
         NEW ck, Grows(bk, ck), NEW k \in Nat, m <= k
  PROVE  StateOK(ck, f, bfl, lt, k)
<1>1. /\ StacksTyped(bk, f, bfl, lt) /\ StacksOK(bk, f, bfl, lt)
      /\ Len(bk.blocks) \in Nat /\ f \in Seq(FrameType(Len(bk.blocks)))
  BY StateTyped
<1>2. /\ BuilderOK(ck) /\ SameStacks(bk, ck)
      /\ Len(bk.blocks) <= Len(ck.blocks) /\ Len(ck.blocks) \in Nat
  BY GrownOK
<1>3. f \in Seq(FrameType(Len(ck.blocks)))
  BY <1>1, <1>2, FramesGrow
<1>4. Len(f) \in Nat
  BY <1>1
<1>5. StacksOK(ck, f, bfl, lt)
  BY <1>1, <1>2, <1>4, Restack
<1>6. lt \in Seq(0..k) /\ bfl \in Seq(BOOLEAN)
  BY SeqSubset, 0..m \subseteq 0..k DEF StateOK
<1>7. FirstBlocks \in Nat /\ FirstBlocks <= Len(bk.blocks)
  BY DEF StateOK, FirstBlocks
<1>8. FirstBlocks <= Len(ck.blocks)
  BY <1>1, <1>2, <1>7
<1> QED
  BY <1>2, <1>3, <1>5, <1>6, <1>8 DEF StateOK

(* A construct is entered. *)
LEMMA EnterStep ==
  ASSUME NEW bk, NEW f, NEW bfl, NEW lt, NEW m, StateOK(bk, f, bfl, lt, m),
         NEW ck, Builds(bk, ck), NEW e \in FrameType(Len(ck.blocks)), NEW k \in Nat,
         NEW cfl \in Seq(BOOLEAN), NEW mt \in Seq(0..k),
         StacksOK(ck, Append(f, e), cfl, mt)
  PROVE  StateOK(ck, Append(f, e), cfl, mt, k)
<1>1. /\ BuilderOK(ck) /\ Len(bk.blocks) <= Len(ck.blocks)
      /\ Len(bk.blocks) \in Nat /\ Len(ck.blocks) \in Nat
  BY DEF Builds
<1>2. f \in Seq(FrameType(Len(ck.blocks)))
  BY <1>1, FramesGrow DEF StateOK
<1>3. Append(f, e) \in Seq(FrameType(Len(ck.blocks)))
  BY <1>2
<1>4. FirstBlocks \in Nat /\ FirstBlocks <= Len(bk.blocks)
  BY DEF StateOK, FirstBlocks
<1>5. FirstBlocks <= Len(ck.blocks)
  BY <1>1, <1>4
<1> QED
  BY <1>1, <1>3, <1>5 DEF StateOK

(* The innermost construct is left. *)
LEMMA LeaveStep ==
  ASSUME NEW bk, NEW f, NEW bfl, NEW lt, NEW m, StateOK(bk, f, bfl, lt, m),
         f # <<>>, NEW ck, Builds(bk, ck), NEW k \in Nat,
         NEW cfl \in Seq(BOOLEAN), NEW mt \in Seq(0..k),
         StacksOK(ck, Pop(f), cfl, mt)
  PROVE  StateOK(ck, Pop(f), cfl, mt, k)
<1>1. /\ BuilderOK(ck) /\ Len(bk.blocks) <= Len(ck.blocks)
      /\ Len(bk.blocks) \in Nat /\ Len(ck.blocks) \in Nat
  BY DEF Builds
<1>2. f \in Seq(FrameType(Len(ck.blocks)))
  BY <1>1, FramesGrow DEF StateOK
<1>3. Pop(f) \in Seq(FrameType(Len(ck.blocks)))
  BY <1>2, TopPopType
<1>4. FirstBlocks \in Nat /\ FirstBlocks <= Len(bk.blocks)
  BY DEF StateOK, FirstBlocks
<1>5. FirstBlocks <= Len(ck.blocks)
  BY <1>1, <1>4
<1> QED
  BY <1>1, <1>3, <1>5 DEF StateOK

(* An open construct of these kinds is on its stacks. *)
LEMMA OpenConstruct ==
  ASSUME NEW f, Len(f) \in Nat, NEW kinds,
         NEW i \in 1..Len(f), f[i].kind \in kinds
  PROVE  DepthOf(f, kinds, Len(f)) \in Nat \ {0}
<1>1. i \in Nat \ {0} /\ i <= Len(f)
  OBVIOUS
<1>2. DepthOf(f, kinds, i) >= 1 /\ DepthOf(f, kinds, i) <= DepthOf(f, kinds, Len(f))
  BY <1>1, DepthPositive, DepthMonotone
<1>3. DepthOf(f, kinds, i) \in 0..i /\ DepthOf(f, kinds, Len(f)) \in 0..Len(f)
  BY <1>1, DepthType
<1>4. DepthOf(f, kinds, i) \in Nat /\ DepthOf(f, kinds, Len(f)) \in Nat
  BY <1>3
<1> QED
  BY <1>2, <1>4

-----------------------------------------------------------------------------
(* The handlers' compositions of builder operations. *)

LEMMA InitializerFlowGrows ==
  ASSUME NEW bk, BuilderOK(bk), NEW at \in Nat
  PROVE  LET if   == IfObject(bk)
             then == Emit(IfBegin(bk), Event("initThen", at))
             else == Emit(MakeBeginElse(then, if), Event("initElse", at))
         IN  Grows(bk, MakeEndIf(else, [if EXCEPT !.else = Next1(then)], at))
<1> DEFINE if    == IfObject(bk)
           then0 == IfBegin(bk)
           then  == Emit(then0, Event("initThen", at))
           else0 == MakeBeginElse(then, if)
           else  == Emit(else0, Event("initElse", at))
           whole == [if EXCEPT !.else = Next1(then)]
           end   == MakeEndIf(else, whole, at)
<1>1. Grows(bk, then0) /\ if \in IfType(Len(then0.blocks))
  BY IfBeginGrows
<1>2. Event("initThen", at) \in EventType /\ Event("initElse", at) \in EventType
  BY EventsType DEF EventNames
<1> HIDE DEF if, then0
<1>3. BuilderOK(then0)
  BY <1>1, GrownOK
<1>4. Grows(then0, then) /\ Len(then.blocks) = Len(then0.blocks)
  BY <1>2, <1>3, EmitGrows
<1> HIDE DEF then
<1>5. BuilderOK(then) /\ if \in IfType(Len(then.blocks))
  BY <1>1, <1>4, GrownOK
<1>6. Grows(then, else0) /\ whole \in IfType(Len(else0.blocks))
  BY <1>5, MakeBeginElseGrows
<1> HIDE DEF else0, whole
<1>7. BuilderOK(else0)
  BY <1>6, GrownOK
<1>8. Grows(else0, else) /\ Len(else.blocks) = Len(else0.blocks)
  BY <1>2, <1>7, EmitGrows
<1> HIDE DEF else
<1>9. BuilderOK(else) /\ whole \in IfType(Len(else.blocks))
  BY <1>6, <1>8, GrownOK
<1>10. Grows(else, end)
  BY <1>9, MakeEndIfGrows
<1> HIDE DEF end
<1>11. Grows(bk, end)
  BY <1>1, <1>4, <1>6, <1>8, <1>10, GrowsTransitive
<1> QED
  BY <1>11 DEF end, whole, else, else0, then, then0, if

LEMMA LoopTestGrows ==
  ASSUME NEW bk, BuilderOK(bk), bk.loops # <<>>, NEW at \in Nat
  PROVE  Grows(bk, LoopTest(bk, at))
<1> DEFINE if   == IfObject(bk)
           then == IfBegin(bk)
           exit == MakeLoopExit(then)
<1>1. Grows(bk, then) /\ if \in IfType(Len(then.blocks))
  BY IfBeginGrows
<1>2. LoopTest(bk, at) = MakeEndIf(exit, if, at)
  BY DEF LoopTest
<1> HIDE DEF if, then
<1>3. BuilderOK(then) /\ then.loops # <<>> /\ Len(then.blocks) \in Nat
  BY <1>1, GrownOK DEF SameStacks
<1>4. Grows(then, exit)
  BY <1>3, MakeLoopExitGrows
<1> HIDE DEF exit
<1>5. BuilderOK(exit) /\ Len(exit.blocks) \in Nat /\ Len(then.blocks) <= Len(exit.blocks)
  BY <1>4, GrownOK
<1>6. if \in IfType(Len(exit.blocks))
  BY <1>1, <1>3, <1>5 DEF IfType
<1>7. Grows(exit, MakeEndIf(exit, if, at))
  BY <1>5, <1>6, MakeEndIfGrows
<1> QED
  BY <1>1, <1>2, <1>4, <1>7, GrowsTransitive

LEMMA TerminalGrows ==
  ASSUME NEW bk, BuilderOK(bk), loopTerminal \in Seq(Nat), loopTerminal # <<>>
  PROVE  Grows(bk, Terminal(bk))
<1>1. TopOf(loopTerminal) \in Nat
  BY TopPopType
<1>2. Event("terminal", TopOf(loopTerminal)) \in EventType
  BY <1>1, EventsType DEF EventNames
<1> QED
  BY <1>2, EmitGrows, GrowsReflexive DEF Terminal

(* A continue, and a loop's end before it is closed. *)
LEMMA BackEdgeGrows ==
  ASSUME NEW bk, BuilderOK(bk), bk.loops # <<>>,
         loopTerminal \in Seq(Nat), loopTerminal # <<>>
  PROVE  Grows(bk, MakeLoopBackEdge(Terminal(bk), FALSE))
<1> DEFINE t == Terminal(bk)
<1>1. Grows(bk, t)
  BY TerminalGrows
<1> HIDE DEF t
<1>2. BuilderOK(t) /\ t.loops # <<>>
  BY <1>1, GrownOK DEF SameStacks
<1>3. Grows(t, MakeLoopBackEdge(t, FALSE))
  BY <1>2, MakeLoopBackEdgeGrows
<1>4. Grows(bk, MakeLoopBackEdge(t, FALSE))
  BY <1>1, <1>3, GrowsTransitive
<1> QED
  BY <1>4 DEF t

LEMMA EnterSegmentGrows ==
  ASSUME NEW bk, BuilderOK(bk), bk.switches # <<>>,
         NEW segments \in Seq(1..Len(bk.blocks)), NEW s \in 1..Len(segments), NEW n
  PROVE  Grows(bk, EnterSegment(bk, segments, s, n))
<1> DEFINE next == NextSwitchSegment(bk, segments, s)
<1>1. Grows(bk, next)
  BY NextSwitchSegmentGrows
<1>2. EnterSegment(bk, segments, s, n) = IF s <= n THEN next ELSE AddSwitchBreak(next)
  BY DEF EnterSegment
<1> HIDE DEF next
<1>3. BuilderOK(next) /\ next.switches # <<>>
  BY <1>1, GrownOK DEF SameStacks
<1>4. Grows(bk, AddSwitchBreak(next))
  BY <1>1, <1>3, AddSwitchBreakGrows, GrowsTransitive
<1> QED
  BY <1>1, <1>2, <1>4

(* A grown builder, after a loop or a switch was made. *)
LEMMA BuildsThenGrows ==
  ASSUME NEW bk, NEW ck, NEW dk, Builds(bk, ck), Grows(ck, dk)
  PROVE  Builds(bk, dk) /\ SameStacks(ck, dk)
BY DEF Grows, Builds

LEMMA GrowsThenBuilds ==
  ASSUME NEW bk, NEW ck, NEW dk, Grows(bk, ck), Builds(ck, dk)
  PROVE  Builds(bk, dk)
BY DEF Grows, Builds

LEMMA SegmentsMonotone ==
  ASSUME NEW n \in Nat, NEW m \in Nat, n <= m, NEW segments \in Seq(1..n)
  PROVE  segments \in Seq(1..m)
BY SeqSubset, 1..n \subseteq 1..m

-----------------------------------------------------------------------------
(* The invariant. *)

IInv ==
  /\ StateOK(b, frames, breakForLoop, loopTerminal, Len(text))
  /\ \E S : text \in Seq(S)
  /\ initPoint \in 1..Len(b.blocks) /\ lastBodyBlock \in 1..Len(b.blocks)
  /\ inMain \in BOOLEAN /\ phase \in {"global", "body", "built"}

LEMMA TextGrows ==
  ASSUME NEW t, \E S : t \in Seq(S), NEW x
  PROVE  /\ \E S : Append(t, x) \in Seq(S)
         /\ Len(t) \in Nat /\ Len(Append(t, x)) = Len(t) + 1
<1>1. PICK S : t \in Seq(S)
  OBVIOUS
<1>2. t \in Seq(S \cup {x})
  BY <1>1, SeqSubset, S \subseteq S \cup {x}
<1>3. Append(t, x) \in Seq(S \cup {x}) /\ Len(t) \in Nat /\ Len(Append(t, x)) = Len(t) + 1
  BY <1>2, x \in S \cup {x}
<1> QED
  BY <1>3

(* A visit: the source position it gets. *)
LEMMA VisitNext ==
  ASSUME \E S : text \in Seq(S), NEW op, NEW of, NEW arg, Visit(op, of, arg)
  PROVE  /\ \E S : text' \in Seq(S)
         /\ Len(text) \in Nat /\ Len(text)' = Len(text) + 1 /\ Here = Len(text) + 1
         /\ Here \in Nat /\ Len(text)' \in Nat /\ Len(text) <= Len(text)'
<1>1. text' = Append(text, Token(op, of, arg))
  BY DEF Visit
<1>2. /\ \E S : text' \in Seq(S) /\ Len(text) \in Nat
      /\ Len(text') = Len(text) + 1
  BY <1>1, TextGrows
<1> QED
  BY <1>2 DEF Here

(* The facts every step starts from. *)
LEMMA Facts ==
  ASSUME IInv
  PROVE  /\ BuilderOK(b) /\ Len(b.blocks) \in Nat /\ \E S : text \in Seq(S)
         /\ FirstBlocks <= Len(b.blocks)
         /\ Len(text) \in Nat /\ frames \in Seq(FrameType(Len(b.blocks)))
         /\ b.loops \in Seq(LoopType(Len(b.blocks)))
         /\ breakForLoop \in Seq(BOOLEAN) /\ loopTerminal \in Seq(0..Len(text))
         /\ loopTerminal \in Seq(Nat)
         /\ StacksTyped(b, frames, breakForLoop, loopTerminal)
         /\ StacksOK(b, frames, breakForLoop, loopTerminal)
         /\ StateOK(b, frames, breakForLoop, loopTerminal, Len(text))
<1>1. StateOK(b, frames, breakForLoop, loopTerminal, Len(text)) /\ \E S : text \in Seq(S)
  BY DEF IInv
<1>2. /\ StacksTyped(b, frames, breakForLoop, loopTerminal)
      /\ StacksOK(b, frames, breakForLoop, loopTerminal)
      /\ BuilderOK(b) /\ Len(b.blocks) \in Nat
      /\ frames \in Seq(FrameType(Len(b.blocks)))
      /\ b.loops \in Seq(LoopType(Len(b.blocks)))
  BY <1>1, StateTyped
<1>3. /\ FirstBlocks <= Len(b.blocks) /\ Len(text) \in Nat
      /\ breakForLoop \in Seq(BOOLEAN) /\ loopTerminal \in Seq(0..Len(text))
  BY <1>1 DEF StateOK
<1>4. loopTerminal \in Seq(Nat)
  BY <1>2 DEF StacksTyped
<1> QED
  BY <1>1, <1>2, <1>3, <1>4

(* A leaf, or anything that keeps the recursion and the stacks. *)
LEMMA Quiet ==
  ASSUME IInv, Grows(b, b'), \E S : text' \in Seq(S), Len(text) <= Len(text)',
         Len(text)' \in Nat, UNCHANGED <<frames, stacks>>,
         initPoint' = initPoint \/ initPoint' \in 1..Len(b.blocks),
         lastBodyBlock' = lastBodyBlock \/ lastBodyBlock' \in 1..Len(b.blocks),
         inMain' \in BOOLEAN, phase' \in {"global", "body", "built"}
  PROVE  IInv'
<1>1. StateOK(b, frames, breakForLoop, loopTerminal, Len(text))
  BY DEF IInv
<1>2. StateOK(b', frames, breakForLoop, loopTerminal, Len(text)')
  BY <1>1, QuietStep
<1>3. Len(b.blocks) \in Nat /\ Len(b.blocks)' \in Nat /\ Len(b.blocks) <= Len(b.blocks)'
  BY GrownOK
<1>4. initPoint' \in 1..Len(b.blocks) /\ lastBodyBlock' \in 1..Len(b.blocks)
  BY DEF IInv
<1>5. initPoint' \in 1..Len(b'.blocks) /\ lastBodyBlock' \in 1..Len(b'.blocks)
  BY <1>3, <1>4
<1> QED
  BY <1>2, <1>5 DEF IInv, stacks

(* A step that changes the recursion leaves the rest alone. *)
LEMMA Nested ==
  ASSUME IInv, UNCHANGED unit, Builds(b, b'), \E S : text' \in Seq(S),
         StateOK(b', frames', breakForLoop', loopTerminal', Len(text'))
  PROVE  IInv'
<1>1. Len(b.blocks) \in Nat /\ Len(b'.blocks) \in Nat /\ Len(b.blocks) <= Len(b'.blocks)
  BY DEF Builds
<1>2. initPoint \in 1..Len(b.blocks) /\ lastBodyBlock \in 1..Len(b.blocks)
  BY DEF IInv
<1>3. initPoint' \in 1..Len(b'.blocks) /\ lastBodyBlock' \in 1..Len(b'.blocks)
  BY <1>1, <1>2 DEF unit
<1> QED
  BY <1>3 DEF IInv, unit

-----------------------------------------------------------------------------
(* Initially. *)

LEMMA MainBuilt == BuilderOK(MakeMain) /\ Len(MakeMain.blocks) = 3
<1>1. <<>> \in Seq(1..3) /\ <<3>> \in Seq(1..3) /\ <<>> \in Seq(LoopType(3)) /\ <<>> \in Seq(EventType)
  OBVIOUS
<1>2. NoTerm \in TermType(3)
  BY <1>1 DEF NoTerm, Term, TermType, TermKinds
<1>3. \A name \in BlockNames : NewBlock(name, "main") \in BlockType(3)
  BY <1>1, <1>2 DEF NewBlock, BlockType, FunctionNames
<1> DEFINE epilogue == NewBlock("stage-epilogue", "main")
           exit     == NewBlock("stage-exit", "main")
           entry    == NewBlock("entry", "main")
<1>4. epilogue \in BlockType(3) /\ exit \in BlockType(3) /\ entry \in BlockType(3)
  BY <1>3 DEF BlockNames
<1> HIDE DEF epilogue, exit, entry
<1>5. <<epilogue, exit, entry>> \in Seq(BlockType(3)) /\ Len(<<epilogue, exit, entry>>) = 3
  BY <1>4
<1>6. MakeMain.blocks = <<epilogue, exit, entry>>
  BY DEF MakeMain, epilogue, exit, entry
<1>7. MakeMain \in BuilderType(3)
  BY <1>1, <1>5, <1>6 DEF MakeMain, BuilderType
<1> QED
  BY <1>5, <1>6, <1>7 DEF BuilderOK

LEMMA EmptyStacks ==
  ASSUME NEW bk, bk.loops = <<>>, bk.switches = <<>>
  PROVE  StacksOK(bk, <<>>, <<>>, <<>>)
<1>1. \A kinds : DepthOf(<<>>, kinds, 0) = 0
  BY DepthZero
<1> QED
  BY <1>1 DEF StacksOK, StackLengths

LEMMA Initially == Init => IInv
<1> SUFFICES ASSUME Init PROVE IInv
  OBVIOUS
<1> DEFINE main == CreateIn(MakeMain, "mainBody", "main")
           all  == CreateIn(main, "entry", "helper")
<1>1. "mainBody" \in BlockNames /\ "entry" \in BlockNames /\ "main" \in FunctionNames
      /\ "helper" \in FunctionNames
  BY DEF BlockNames, FunctionNames
<1>2. BuilderOK(MakeMain) /\ Next1(MakeMain) = 4
  BY MainBuilt DEF Next1
<1>3. Grows(MakeMain, main) /\ Len(main.blocks) = 4
  BY <1>1, <1>2, CreateInGrows
<1> HIDE DEF main
<1>4. BuilderOK(main) /\ Next1(main) = 5
  BY <1>3, GrownOK DEF Next1
<1>5. Grows(main, all) /\ Len(all.blocks) = 5
  BY <1>1, <1>4, CreateInGrows
<1> HIDE DEF all
<1>6. b = IF HelperFunctions THEN all ELSE main
  BY DEF Init, main, all
<1>7. Grows(MakeMain, b) /\ Len(b.blocks) = FirstBlocks
  BY <1>3, <1>5, <1>6, GrowsTransitive DEF FirstBlocks
<1>8. BuilderOK(b) /\ b.loops = <<>> /\ b.switches = <<>>
  BY <1>7, GrownOK DEF SameStacks, MakeMain
<1>9. StacksOK(b, <<>>, <<>>, <<>>)
  BY <1>8, EmptyStacks
<1>10. FirstBlocks \in Nat /\ FirstBlocks >= 4
  BY DEF FirstBlocks
<1>11. /\ frames = <<>> /\ breakForLoop = <<>> /\ loopTerminal = <<>> /\ text = <<>>
       /\ initPoint = 3 /\ lastBodyBlock = 3 /\ inMain = FALSE /\ phase = "global"
  BY DEF Init
<1>12. Len(text) = 0 /\ text \in Seq({}) /\ frames \in Seq(FrameType(Len(b.blocks)))
       /\ breakForLoop \in Seq(BOOLEAN) /\ loopTerminal \in Seq(0..Len(text))
  BY <1>11
<1>13. initPoint \in 1..Len(b.blocks) /\ lastBodyBlock \in 1..Len(b.blocks)
  BY <1>7, <1>10, <1>11
<1>14. StateOK(b, frames, breakForLoop, loopTerminal, Len(text))
  BY <1>7, <1>8, <1>9, <1>10, <1>11, <1>12 DEF StateOK
<1>15. \E S : text \in Seq(S)
  BY <1>12
<1> QED
  BY <1>11, <1>13, <1>14, <1>15 DEF IInv

-----------------------------------------------------------------------------
(* The unit's steps. *)

LEMMA InitializerStep == IInv /\ VisitInitializer => IInv'
<1> SUFFICES ASSUME IInv, VisitInitializer PROVE IInv'
  OBVIOUS
<1>1. /\ Visit("init", 0, 0) /\ b' = Emit(b, Event("init", Here))
      /\ UNCHANGED <<frames, stacks, unit>>
  BY DEF VisitInitializer
<1>2. /\ \E S : text' \in Seq(S) /\ Here \in Nat
      /\ Len(text)' \in Nat /\ Len(text) <= Len(text)'
  BY <1>1, Facts, VisitNext
<1>3. Event("init", Here) \in EventType
  BY <1>2, EventsType DEF EventNames
<1>4. Grows(b, b')
  BY <1>1, <1>3, Facts, EmitGrows
<1> QED
  BY <1>1, <1>2, <1>4, Quiet DEF unit, IInv

LEMMA FlowInitializerStep == IInv /\ VisitFlowInitializer => IInv'
<1> SUFFICES ASSUME IInv, VisitFlowInitializer PROVE IInv'
  OBVIOUS
<1>1. Visit("initFlow", 0, 0) /\ UNCHANGED <<frames, stacks, unit>>
  BY DEF VisitFlowInitializer
<1>2. /\ \E S : text' \in Seq(S) /\ Here \in Nat
      /\ Len(text)' \in Nat /\ Len(text) <= Len(text)'
  BY <1>1, Facts, VisitNext
<1>3. Grows(b, b')
  BY <1>2, Facts, InitializerFlowGrows DEF VisitFlowInitializer
<1> QED
  BY <1>1, <1>2, <1>3, Quiet DEF unit, IInv

(* makeFunctions has made the blocks the traverser jumps to. *)
LEMMA BodiesExist ==
  ASSUME IInv
  PROVE  /\ MainBody \in 1..Len(b.blocks)
         /\ HelperFunctions => HelperEntry \in 1..Len(b.blocks)
<1>1. FirstBlocks <= Len(b.blocks) /\ Len(b.blocks) \in Nat
  BY Facts
<1> QED
  BY <1>1 DEF FirstBlocks, MainBody, HelperEntry

LEMMA FunctionStep ==
  ASSUME IInv, NEW fn \in ProgramFunctions, VisitFunction(fn)
  PROVE  IInv'
<1>1. /\ Visit("function", 0, fn) /\ initPoint' = b.insert /\ inMain' = (fn = "main")
      /\ b' = SetInsertPoint(b, IF fn = "main" THEN MainBody ELSE HelperEntry)
      /\ phase' = "body" /\ UNCHANGED <<frames, stacks, lastBodyBlock>>
  BY DEF VisitFunction
<1>2. \E S : text' \in Seq(S) /\ Len(text)' \in Nat /\ Len(text) <= Len(text)'
  BY <1>1, Facts, VisitNext
<1>3. fn = "main" \/ HelperFunctions
  BY DEF ProgramFunctions
<1>4. (IF fn = "main" THEN MainBody ELSE HelperEntry) \in 1..Len(b.blocks)
  BY <1>3, BodiesExist
<1>5. Grows(b, b')
  BY <1>1, <1>4, Facts, SetInsertGrows
<1>6. b.insert \in 1..Len(b.blocks)
  BY Facts, InsertType
<1> QED
  BY <1>1, <1>2, <1>5, <1>6, Quiet

LEMMA EndFunctionStep == IInv /\ EndFunction => IInv'
<1> SUFFICES ASSUME IInv, EndFunction PROVE IInv'
  OBVIOUS
<1> DEFINE left == IF inMain THEN b ELSE LeaveFunction(b, FALSE)
<1>1. /\ Visit("endfunction", 0, 0) /\ phase' = "global" /\ inMain' = FALSE
      /\ lastBodyBlock' = IF inMain THEN b.insert ELSE lastBodyBlock
      /\ b' = SetInsertPoint(left, initPoint)
      /\ UNCHANGED <<frames, stacks, initPoint>>
  BY DEF EndFunction
<1>2. \E S : text' \in Seq(S) /\ Len(text)' \in Nat /\ Len(text) <= Len(text)'
  BY <1>1, Facts, VisitNext
<1>3. Grows(b, left)
  BY Facts, LeaveFunctionGrows, GrowsReflexive
<1> HIDE DEF left
<1>4. BuilderOK(left) /\ Len(b.blocks) <= Len(left.blocks) /\ Len(left.blocks) \in Nat
  BY <1>3, GrownOK
<1>5. initPoint \in 1..Len(left.blocks)
  BY <1>4, Facts DEF IInv
<1>6. Grows(left, b')
  BY <1>1, <1>4, <1>5, SetInsertGrows
<1>7. Grows(b, b')
  BY <1>3, <1>6, GrowsTransitive
<1>8. b.insert \in 1..Len(b.blocks)
  BY Facts, InsertType
<1> QED
  BY <1>1, <1>2, <1>7, <1>8, Quiet

LEMMA FinishStep == IInv /\ Finish => IInv'
<1> SUFFICES ASSUME IInv, Finish PROVE IInv'
  OBVIOUS
<1> DEFINE first == SetInsertPoint(b, initPoint)
           entry == Terminate(first, Br(MainBody))
           last  == SetInsertPoint(entry, lastBodyBlock)
<1>1. /\ phase' = "built" /\ b' = LeaveFunction(last, TRUE)
      /\ UNCHANGED <<frames, stacks, text, inMain, initPoint, lastBodyBlock>>
  BY DEF Finish
<1>2. initPoint \in 1..Len(b.blocks) /\ lastBodyBlock \in 1..Len(b.blocks)
  BY DEF IInv
<1>3. Grows(b, first) /\ first.blocks = b.blocks
  BY <1>2, Facts, SetInsertGrows
<1>4. MainBody \in 1..Len(first.blocks)
  BY <1>3, BodiesExist
<1> HIDE DEF first
<1>5. BuilderOK(first) /\ Br(MainBody) \in TermType(Len(first.blocks))
  BY <1>3, <1>4, GrownOK, TermsType
<1>6. Grows(first, entry) /\ Len(entry.blocks) = Len(first.blocks)
  BY <1>5, TerminateGrows
<1> HIDE DEF entry
<1>7. BuilderOK(entry) /\ lastBodyBlock \in 1..Len(entry.blocks)
  BY <1>2, <1>3, <1>6, GrownOK
<1>8. Grows(entry, last)
  BY <1>7, SetInsertGrows
<1> HIDE DEF last
<1>9. Grows(last, b')
  BY <1>1, <1>8, GrownOK, LeaveFunctionGrows
<1>10. Grows(b, b')
  BY <1>3, <1>6, <1>8, <1>9, GrowsTransitive
<1>11. Len(text)' = Len(text) /\ Len(text) \in Nat /\ \E S : text' \in Seq(S)
  BY <1>1, Facts
<1>12. Len(text)' \in Nat /\ Len(text) <= Len(text)'
  BY <1>11
<1> QED
  BY <1>1, <1>10, <1>11, <1>12, Quiet DEF IInv

-----------------------------------------------------------------------------
(* The statements' steps. *)

LEMMA StatementStep == IInv /\ VisitStatement => IInv'
<1> SUFFICES ASSUME IInv, VisitStatement PROVE IInv'
  OBVIOUS
<1>1. /\ Visit("stmt", 0, 0) /\ b' = Emit(b, Event("stmt", Here))
      /\ UNCHANGED <<frames, stacks, unit>>
  BY DEF VisitStatement
<1>2. /\ \E S : text' \in Seq(S) /\ Here \in Nat
      /\ Len(text)' \in Nat /\ Len(text) <= Len(text)'
  BY <1>1, Facts, VisitNext
<1>3. Event("stmt", Here) \in EventType
  BY <1>2, EventsType DEF EventNames
<1>4. Grows(b, b')
  BY <1>1, <1>3, Facts, EmitGrows
<1> QED
  BY <1>1, <1>2, <1>4, Quiet DEF unit, IInv

LEMMA DiscardStep == IInv /\ VisitDiscard => IInv'
<1> SUFFICES ASSUME IInv, VisitDiscard PROVE IInv'
  OBVIOUS
<1>1. /\ Visit("discard", 0, 0) /\ b' = MakeDiscard(b, inMain, Here)
      /\ UNCHANGED <<frames, stacks, unit>>
  BY DEF VisitDiscard
<1>2. /\ \E S : text' \in Seq(S) /\ Here \in Nat
      /\ Len(text)' \in Nat /\ Len(text) <= Len(text)'
  BY <1>1, Facts, VisitNext
<1>3. Grows(b, b')
  BY <1>1, <1>2, Facts, MakeDiscardGrows DEF IInv
<1> QED
  BY <1>1, <1>2, <1>3, Quiet DEF unit, IInv

LEMMA ReturnStep == IInv /\ VisitReturn => IInv'
<1> SUFFICES ASSUME IInv, VisitReturn PROVE IInv'
  OBVIOUS
<1>1. /\ Visit("return", 0, 0) /\ b' = MakeReturn(b, FALSE, inMain)
      /\ UNCHANGED <<frames, stacks, unit>>
  BY DEF VisitReturn
<1>2. \E S : text' \in Seq(S) /\ Len(text)' \in Nat /\ Len(text) <= Len(text)'
  BY <1>1, Facts, VisitNext
<1>3. Grows(b, b')
  BY <1>1, Facts, MakeReturnGrows DEF IInv
<1> QED
  BY <1>1, <1>2, <1>3, Quiet DEF unit, IInv

(* What glslang's grammar promises a break or a continue. *)
LEMMA InnermostOpen ==
  ASSUME IInv, NEW kinds, Innermost(kinds) # 0
  PROVE  DepthOf(frames, kinds, Len(frames)) \in Nat \ {0}
<1>1. \E j \in DOMAIN frames : frames[j].kind \in kinds
  BY DEF Innermost
<1>2. Len(frames) \in Nat /\ DOMAIN frames = 1..Len(frames)
  BY Facts
<1> QED
  BY <1>1, <1>2, OpenConstruct

LEMMA BreakStep == IInv /\ VisitBreak => IInv'
<1> SUFFICES ASSUME IInv, VisitBreak PROVE IInv'
  OBVIOUS
<1>1. /\ Visit("break", Innermost({"loop", "switch"}), 0)
      /\ b' = IF TopOf(breakForLoop) THEN MakeLoopExit(b) ELSE AddSwitchBreak(b)
      /\ UNCHANGED <<frames, stacks, unit>> /\ Innermost(Both) # 0
  BY DEF VisitBreak, Both
<1>2. \E S : text' \in Seq(S) /\ Len(text)' \in Nat /\ Len(text) <= Len(text)'
  BY <1>1, Facts, VisitNext
<1>3. DepthOf(frames, Both, Len(frames)) \in Nat \ {0}
  BY <1>1, InnermostOpen
<1>4. breakForLoop # <<>>
  BY <1>3, Facts DEF StacksOK, StackLengths
<1>5. IF TopOf(breakForLoop) THEN b.loops # <<>> ELSE b.switches # <<>>
  BY <1>4, Facts, TopTells
<1>6. Grows(b, b')
  BY <1>1, <1>5, Facts, MakeLoopExitGrows, AddSwitchBreakGrows
<1> QED
  BY <1>1, <1>2, <1>6, Quiet DEF unit, IInv

LEMMA ContinueStep == IInv /\ VisitContinue => IInv'
<1> SUFFICES ASSUME IInv, VisitContinue PROVE IInv'
  OBVIOUS
<1>1. /\ Visit("continue", Innermost({"loop"}), 0)
      /\ b' = MakeLoopBackEdge(Terminal(b), FALSE)
      /\ UNCHANGED <<frames, stacks, unit>> /\ Innermost({"loop"}) # 0
  BY DEF VisitContinue
<1>2. \E S : text' \in Seq(S) /\ Len(text)' \in Nat /\ Len(text) <= Len(text)'
  BY <1>1, Facts, VisitNext
<1>3. DepthOf(frames, {"loop"}, Len(frames)) \in Nat \ {0}
  BY <1>1, InnermostOpen
<1>4. loopTerminal # <<>> /\ b.loops # <<>>
  BY <1>3, Facts DEF StacksOK, StackLengths
<1>5. Grows(b, b')
  BY <1>1, <1>4, Facts, BackEdgeGrows
<1> QED
  BY <1>1, <1>2, <1>5, Quiet DEF unit, IInv

-----------------------------------------------------------------------------
(* The constructs' steps. *)

LEMMA TextUpTo ==
  ASSUME IInv, NEW m \in Nat, Len(text) <= m
  PROVE  loopTerminal \in Seq(0..m)
BY Facts, SeqSubset, 0..Len(text) \subseteq 0..m

(* The innermost frame, by its kind. *)
LEMMA TopType ==
  ASSUME IInv, NEW kind, In(kind)
  PROVE  /\ frames # <<>> /\ TopOf(frames) = Top /\ Top.kind = kind
         /\ Top \in FrameType(Len(b.blocks)) /\ Top.at \in Nat
         /\ kind \in {"then", "else"} => Top.obj \in IfType(Len(b.blocks))
         /\ kind = "loop" => Top.obj \in AllLoopForms
         /\ kind = "switch" => Top.obj \in SwitchType(Len(b.blocks))
<1>1. frames # <<>> /\ Top.kind = kind /\ TopOf(frames) = Top
  BY DEF In, TopOf, Top
<1>2. TopOf(frames) \in FrameType(Len(b.blocks))
  BY <1>1, Facts, TopPopType
<1>3. Top \in FrameType(Len(b.blocks))
  BY <1>1, <1>2
<1> QED
  BY <1>1, <1>3 DEF FrameType

LEMMA IfFrame ==
  ASSUME NEW n, NEW kind \in {"then", "else"}, NEW at \in Nat, NEW if \in IfType(n)
  PROVE  /\ Frame(kind, at, if) \in FrameType(n) /\ Frame(kind, at, if).kind = kind
         /\ kind \notin Both
BY DEF FrameType, Frame, Both

LEMMA IfStep == IInv /\ VisitIf => IInv'
<1> SUFFICES ASSUME IInv, VisitIf PROVE IInv'
  OBVIOUS
<1> DEFINE e == Frame("then", Here, IfObject(b))
<1>1. /\ Visit("if", 0, 0) /\ b' = IfBegin(b) /\ frames' = Append(frames, e)
      /\ UNCHANGED <<stacks, unit>>
  BY DEF VisitIf
<1>2. /\ \E S : text' \in Seq(S) /\ Here \in Nat
      /\ Len(text)' \in Nat /\ Len(text) <= Len(text)'
  BY <1>1, Facts, VisitNext
<1>3. Grows(b, b') /\ IfObject(b) \in IfType(Len(b'.blocks))
  BY <1>1, Facts, IfBeginGrows
<1>4. e \in FrameType(Len(b'.blocks)) /\ e.kind \notin Both
  BY <1>2, <1>3, IfFrame
<1> HIDE DEF e
<1>5. /\ Builds(b, b') /\ SameStacks(b, b')
      /\ Len(b.blocks) <= Len(b'.blocks) /\ Len(b'.blocks) \in Nat
  BY <1>3, GrownOK DEF Grows
<1>6. frames \in Seq(FrameType(Len(b'.blocks)))
  BY <1>5, Facts, FramesGrow
<1>7. StacksTyped(b, frames, breakForLoop, loopTerminal)
      /\ StacksOK(b, frames, breakForLoop, loopTerminal)
  BY Facts
<1>8. StacksOK(b', Append(frames, e), breakForLoop, loopTerminal)
  BY <1>4, <1>5, <1>6, <1>7, PushPlain
<1>9. loopTerminal \in Seq(0..Len(text)') /\ breakForLoop \in Seq(BOOLEAN)
  BY <1>2, Facts, TextUpTo
<1>10. StateOK(b', frames', breakForLoop, loopTerminal, Len(text)')
  BY <1>1, <1>2, <1>4, <1>5, <1>8, <1>9, Facts, EnterStep
<1> QED
  BY <1>1, <1>2, <1>5, <1>10, Nested DEF stacks

LEMMA EndIfStep == IInv /\ EndIf => IInv'
<1> SUFFICES ASSUME IInv, EndIf PROVE IInv'
  OBVIOUS
<1>1. /\ Visit("endif", Top.at, 0) /\ b' = MakeEndIf(b, Top.obj, Top.at)
      /\ frames' = Pop(frames) /\ UNCHANGED <<stacks, unit>>
  BY DEF EndIf
<1>2. PICK kind \in {"then", "else"} : In(kind)
  BY DEF EndIf
<1>3. /\ frames # <<>> /\ TopOf(frames).kind = kind /\ Top.at \in Nat
      /\ Top.obj \in IfType(Len(b.blocks))
  BY <1>2, TopType
<1>4. /\ \E S : text' \in Seq(S) /\ Len(text)' \in Nat /\ Len(text) <= Len(text)'
  BY <1>1, Facts, VisitNext
<1>5. Grows(b, b')
  BY <1>1, <1>3, Facts, MakeEndIfGrows
<1>6. Builds(b, b') /\ SameStacks(b, b')
  BY <1>5 DEF Grows
<1>7. TopOf(frames).kind \notin Both
  BY <1>3 DEF Both
<1>8. StacksOK(b', Pop(frames), breakForLoop, loopTerminal)
  BY <1>3, <1>6, <1>7, Facts, PopPlain
<1>9. loopTerminal \in Seq(0..Len(text)') /\ breakForLoop \in Seq(BOOLEAN)
  BY <1>4, Facts, TextUpTo
<1>10. StateOK(b', frames', breakForLoop, loopTerminal, Len(text)')
  BY <1>1, <1>3, <1>4, <1>6, <1>8, <1>9, Facts, LeaveStep
<1> QED
  BY <1>1, <1>4, <1>6, <1>10, Nested DEF stacks

LEMMA ElseStep == IInv /\ VisitElse => IInv'
<1> SUFFICES ASSUME IInv, VisitElse PROVE IInv'
  OBVIOUS
<1> DEFINE outer == Pop(frames)
           e     == Frame("else", Top.at, [Top.obj EXCEPT !.else = Next1(b)])
           S     == FrameType(Len(b'.blocks))
<1>1. /\ Visit("else", Top.at, 0) /\ b' = MakeBeginElse(b, Top.obj)
      /\ frames' = Append(outer, e) /\ UNCHANGED <<stacks, unit>> /\ In("then")
  BY DEF VisitElse
<1>2. /\ frames # <<>> /\ TopOf(frames).kind = "then" /\ Top.at \in Nat
      /\ Top.obj \in IfType(Len(b.blocks))
  BY <1>1, TopType
<1>3. /\ \E T : text' \in Seq(T) /\ Len(text)' \in Nat /\ Len(text) <= Len(text)'
  BY <1>1, Facts, VisitNext
<1>4. /\ Grows(b, b')
      /\ [Top.obj EXCEPT !.else = Next1(b)] \in IfType(Len(b'.blocks))
  BY <1>1, <1>2, Facts, MakeBeginElseGrows
<1>5. e \in S /\ e.kind \notin Both
  BY <1>2, <1>4, IfFrame
<1>6. TopOf(frames).kind \notin Both
  BY <1>2 DEF Both
<1> HIDE DEF e, outer
<1>7. Builds(b, b') /\ SameStacks(b, b')
  BY <1>4 DEF Grows
<1>8. Grows(b, b) /\ Builds(b, b) /\ SameStacks(b, b)
  BY Facts, GrowsReflexive DEF Grows
<1>9. StacksOK(b, outer, breakForLoop, loopTerminal)
  BY <1>2, <1>6, <1>8, Facts, PopPlain DEF outer
<1>10. StateOK(b, outer, breakForLoop, loopTerminal, Len(text))
  BY <1>2, <1>8, <1>9, Facts, LeaveStep DEF outer
<1>11. StateOK(b', outer, breakForLoop, loopTerminal, Len(text)')
  BY <1>3, <1>4, <1>10, QuietStep
<1>12. /\ StacksTyped(b', outer, breakForLoop, loopTerminal) /\ outer \in Seq(S)
       /\ StacksOK(b', outer, breakForLoop, loopTerminal) /\ BuilderOK(b')
  BY <1>11, StateTyped
<1>13. Builds(b', b') /\ SameStacks(b', b')
  BY <1>12, GrowsReflexive DEF Grows
<1>14. StacksOK(b', Append(outer, e), breakForLoop, loopTerminal)
  BY <1>5, <1>12, <1>13, PushPlain
<1>15. loopTerminal \in Seq(0..Len(text)') /\ breakForLoop \in Seq(BOOLEAN)
  BY <1>3, Facts, TextUpTo
<1>16. StateOK(b', frames', breakForLoop, loopTerminal, Len(text)')
  BY <1>1, <1>3, <1>5, <1>11, <1>13, <1>14, <1>15, EnterStep
<1> QED
  BY <1>1, <1>3, <1>7, <1>16, Nested DEF stacks

LEMMA LoopStep ==
  ASSUME IInv, NEW form \in LoopForms, VisitLoop(form)
  PROVE  IInv'
<1> DEFINE e    == Frame("loop", Here, form)
           made == MakeNewLoop(b)
           t    == IF form.terminal THEN Here ELSE 0
<1>1. /\ Visit("loop", 0, form) /\ loopTerminal' = Append(loopTerminal, t)
      /\ breakForLoop' = Append(breakForLoop, TRUE) /\ frames' = Append(frames, e)
      /\ b' = IF form.testFirst /\ form.test THEN LoopTest(made, Here) ELSE made
      /\ UNCHANGED unit
  BY DEF VisitLoop
<1>2. /\ \E T : text' \in Seq(T) /\ Here \in Nat /\ Len(text)' = Here
      /\ Len(text)' \in Nat /\ Len(text) <= Len(text)'
  BY <1>1, Facts, VisitNext
<1>3. t \in 0..Len(text)' /\ t \in Nat
  BY <1>2
<1>4. /\ Builds(b, made) /\ made.switches = b.switches
      /\ made.loops = Append(b.loops, [header |-> Next1(b), exit |-> Next1(b) + 1])
  BY Facts, MakeNewLoopBuilds
<1> HIDE DEF made
<1>5. Len(made.loops) = Len(b.loops) + 1 /\ made.loops # <<>>
  <2>1. \E S : b.loops \in Seq(S)
    BY Facts
  <2>2. Len(made.loops) = Len(b.loops) + 1 /\ Len(b.loops) \in Nat
    BY <1>4, <2>1, TextGrows
  <2> QED
    BY <2>2
<1>6. Grows(made, b')
  <2>1. BuilderOK(made)
    BY <1>4 DEF Builds
  <2> QED
    BY <1>1, <1>2, <1>5, <2>1, LoopTestGrows, GrowsReflexive
<1>7. /\ Builds(b, b') /\ Len(b'.loops) = Len(b.loops) + 1 /\ b'.switches = b.switches
  BY <1>4, <1>5, <1>6, BuildsThenGrows DEF SameStacks
<1>8. e \in FrameType(Len(b'.blocks)) /\ e.kind = "loop" /\ e.obj = form /\ e.at = Here
  BY <1>2, FormAssumption DEF FrameType, Frame, FormAssumption
<1>9. t = IF e.obj.terminal THEN e.at ELSE 0
  BY <1>8
<1> HIDE DEF e, t
<1>10. /\ Len(b.blocks) <= Len(b'.blocks) /\ Len(b'.blocks) \in Nat
  BY <1>7 DEF Builds
<1>11. frames \in Seq(FrameType(Len(b'.blocks)))
  BY <1>10, Facts, FramesGrow
<1>12. StacksOK(b', Append(frames, e), Append(breakForLoop, TRUE), Append(loopTerminal, t))
  BY <1>3, <1>7, <1>8, <1>9, <1>11, Facts, PushLoop
<1>13. /\ Append(loopTerminal, t) \in Seq(0..Len(text)')
       /\ Append(breakForLoop, TRUE) \in Seq(BOOLEAN)
  <2>1. loopTerminal \in Seq(0..Len(text)')
    BY <1>2, TextUpTo
  <2> QED
    BY <1>3, <2>1, Facts, AppendProperties
<1>14. StateOK(b', frames', breakForLoop', loopTerminal', Len(text)')
  BY <1>1, <1>2, <1>7, <1>8, <1>12, <1>13, Facts, EnterStep
<1> QED
  BY <1>1, <1>2, <1>7, <1>14, Nested

LEMMA EndLoopStep == IInv /\ EndLoop => IInv'
<1> SUFFICES ASSUME IInv, EndLoop PROVE IInv'
  OBVIOUS
<1> DEFINE tested == IF ~ Top.obj.testFirst /\ Top.obj.test THEN LoopTest(b, Top.at) ELSE b
           back   == MakeLoopBackEdge(Terminal(tested), FALSE)
<1>1. /\ Visit("endloop", Top.at, 0) /\ breakForLoop' = Pop(breakForLoop)
      /\ b' = CloseLoop(back) /\ loopTerminal' = Pop(loopTerminal)
      /\ frames' = Pop(frames) /\ UNCHANGED unit /\ In("loop")
  BY DEF EndLoop
<1>2. frames # <<>> /\ TopOf(frames).kind = "loop" /\ Top.at \in Nat
  BY <1>1, TopType
<1>3. /\ \E T : text' \in Seq(T) /\ Len(text)' \in Nat /\ Len(text) <= Len(text)'
  BY <1>1, Facts, VisitNext
<1>4. /\ breakForLoop # <<>> /\ loopTerminal # <<>> /\ b.loops # <<>>
      /\ (b'.loops = Pop(b.loops) /\ b'.switches = b.switches)
           => StacksOK(b', Pop(frames), Pop(breakForLoop), Pop(loopTerminal))
  BY <1>2, Facts, PopLoop
<1>5. Grows(b, tested)
  BY <1>2, <1>4, Facts, LoopTestGrows, GrowsReflexive
<1> HIDE DEF tested
<1>6. BuilderOK(tested) /\ tested.loops # <<>>
  BY <1>4, <1>5, GrownOK DEF SameStacks
<1>7. Grows(tested, back)
  BY <1>4, <1>6, Facts, BackEdgeGrows
<1> HIDE DEF back
<1>8. Grows(b, back)
  BY <1>5, <1>7, GrowsTransitive
<1>9. BuilderOK(back) /\ back.loops = b.loops /\ back.switches = b.switches
  BY <1>8, GrownOK DEF SameStacks
<1>10. /\ Builds(back, b') /\ b'.loops = Pop(b.loops) /\ b'.switches = b.switches
  BY <1>1, <1>4, <1>9, CloseLoopBuilds
<1>11. Builds(b, b')
  BY <1>8, <1>10, GrowsThenBuilds
<1>12. StacksOK(b', Pop(frames), Pop(breakForLoop), Pop(loopTerminal))
  BY <1>4, <1>10
<1>13. Pop(loopTerminal) \in Seq(0..Len(text)') /\ Pop(breakForLoop) \in Seq(BOOLEAN)
  <2>1. loopTerminal \in Seq(0..Len(text)')
    BY <1>3, TextUpTo
  <2> QED
    BY <1>4, <2>1, Facts, TopPopType
<1>14. StateOK(b', frames', breakForLoop', loopTerminal', Len(text)')
  BY <1>1, <1>2, <1>3, <1>11, <1>12, <1>13, Facts, LeaveStep
<1> QED
  BY <1>1, <1>3, <1>11, <1>14, Nested

LEMMA SegmentsMade ==
  ASSUME NEW bk, Len(bk.blocks) \in Nat, NEW n \in Nat \ {0}
  PROVE  LET segs == SegmentBlocks(bk, n)
         IN  /\ segs \in Seq(1..(Len(bk.blocks) + n)) /\ Len(segs) = n
             /\ segs[Len(segs)] + 1 = Len(bk.blocks) + n + 1
<1>1. SegmentBlocks(bk, n) \in Seq(1..(Len(bk.blocks) + n)) /\ Len(SegmentBlocks(bk, n)) = n
  BY SegmentBlocksType
<1>2. SegmentBlocks(bk, n)[n] = Len(bk.blocks) + n
  BY DEF SegmentBlocks
<1> QED
  BY <1>1, <1>2

LEMMA TwoMore ==
  ASSUME NEW t, \E S : t \in Seq(S), NEW x, NEW y
  PROVE  /\ \E S : t \o <<x, y>> \in Seq(S)
         /\ Len(t) \in Nat /\ Len(t \o <<x, y>>) = Len(t) + 2
<1>1. PICK S : t \in Seq(S)
  OBVIOUS
<1> DEFINE T == S \cup {x, y}
<1>2. t \in Seq(T)
  BY <1>1, SeqSubset, S \subseteq T
<1>3. <<x, y>> \in Seq(T) /\ Len(<<x, y>>) = 2
  BY x \in T, y \in T
<1> HIDE DEF T
<1>4. t \o <<x, y>> \in Seq(T) /\ Len(t) \in Nat /\ Len(t \o <<x, y>>) = Len(t) + 2
  BY <1>2, <1>3
<1> QED
  BY <1>4

LEMMA SwitchStep ==
  ASSUME IInv, NEW body \in SwitchBodies, VisitSwitch(body)
  PROVE  IInv'
<1>1. PICK n \in SegmentCounts(body) :
        LET made == MakeSwitch(b, n, ValueToSegment(body), DefaultSegment(body), Here)
            segs == SegmentBlocks(b, n)
        IN  /\ b' = EnterSegment(made, segs, 1, CodeCount(body))
            /\ frames' = Append(frames, Frame("switch", Here,
                          [segments |-> segs, s |-> 1, code |-> CodeCount(body)]))
            /\ \E x, y : text' = text \o <<x, y>>
  BY DEF VisitSwitch
<1> DEFINE made == MakeSwitch(b, n, ValueToSegment(body), DefaultSegment(body), Here)
           segs == SegmentBlocks(b, n)
           obj  == [segments |-> segs, s |-> 1, code |-> CodeCount(body)]
           e    == Frame("switch", Here, obj)
           m    == Len(b.blocks) + n + 1
<1>2. /\ b' = EnterSegment(made, segs, 1, CodeCount(body))
      /\ frames' = Append(frames, e)
      /\ breakForLoop' = Append(breakForLoop, FALSE) /\ loopTerminal' = loopTerminal
      /\ UNCHANGED unit
  BY <1>1 DEF VisitSwitch
<1>3. /\ \E T : text' \in Seq(T)
      /\ Here \in Nat /\ Len(text)' \in Nat /\ Len(text) <= Len(text)'
  <2>a. PICK x, y : text' = text \o <<x, y>>
    BY <1>1
  <2>b. \E S : text \in Seq(S)
    BY Facts
  <2>1. /\ \E T : text' \in Seq(T)
        /\ Len(text) \in Nat /\ Len(text') = Len(text) + 2
    BY <2>a, <2>b, TwoMore
  <2> QED
    BY <2>1 DEF Here
<1>4. /\ n \in Nat \ {0} /\ ValueToSegment(body) \in Seq(0..(n - 1))
      /\ DefaultSegment(body) \in -1..(n - 1) /\ CodeCount(body) \in Nat
  BY SwitchSegments
<1>5. /\ Builds(b, made) /\ Len(made.blocks) = m /\ made.loops = b.loops
      /\ made.switches = Append(b.switches, m)
  <2>1. BuilderOK(b) /\ Here \in Nat
    BY <1>3, Facts
  <2> DEFINE values == ValueToSegment(body)
             default == DefaultSegment(body)
  <2> HIDE DEF values, default, made, m
  <2>3. n \in Nat \ {0} /\ values \in Seq(0..(n - 1)) /\ default \in -1..(n - 1)
    BY <1>4 DEF values, default
  <2>2. LET c == MakeSwitch(b, n, values, default, Here)
        IN  /\ Builds(b, c) /\ Len(c.blocks) = Len(b.blocks) + n + 1
            /\ c.loops = b.loops
            /\ c.switches = Append(b.switches, Len(b.blocks) + n + 1)
    BY <2>1, <2>3, MakeSwitchBuilds
  <2> QED
    BY <2>2 DEF made, m, values, default
<1>6. /\ segs \in Seq(1..(Len(b.blocks) + n)) /\ Len(segs) = n
      /\ segs[Len(segs)] + 1 = m /\ m \in Nat /\ Len(b.blocks) + n \in Nat
      /\ Len(b.blocks) + n <= m /\ 1 \in 1..Len(segs)
  <2>1. Len(b.blocks) \in Nat
    BY Facts
  <2>2. /\ segs \in Seq(1..(Len(b.blocks) + n)) /\ Len(segs) = n
        /\ segs[Len(segs)] + 1 = m
    BY <1>4, <2>1, SegmentsMade
  <2> HIDE DEF segs
  <2>3. m \in Nat /\ Len(b.blocks) + n \in Nat /\ Len(b.blocks) + n <= m /\ 1 \in 1..n
    BY <1>4, <2>1
  <2> QED
    BY <2>2, <2>3
<1> HIDE DEF made, segs, m
<1>7. BuilderOK(made) /\ Len(made.blocks) \in Nat
  BY <1>5 DEF Builds
<1>8. segs \in Seq(1..Len(made.blocks))
  BY <1>5, <1>6, SegmentsMonotone
<1>9. made.switches # <<>>
  <2>1. \E S : b.switches \in Seq(S)
    BY Facts DEF StacksTyped
  <2>2. Len(made.switches) = Len(b.switches) + 1 /\ Len(b.switches) \in Nat
    BY <1>5, <2>1, TextGrows
  <2> QED
    BY <2>2
<1>10. Grows(made, b')
  BY <1>2, <1>6, <1>7, <1>8, <1>9, EnterSegmentGrows
<1>11. Builds(b, b') /\ b'.loops = b.loops /\ b'.switches = Append(b.switches, m)
  BY <1>5, <1>10, BuildsThenGrows DEF SameStacks
<1>12. /\ Len(made.blocks) <= Len(b'.blocks) /\ Len(b'.blocks) \in Nat
       /\ Len(b.blocks) <= Len(b'.blocks)
  BY <1>10, <1>11, GrownOK DEF Builds
<1>13. segs \in Seq(1..Len(b'.blocks))
  BY <1>7, <1>8, <1>12, SegmentsMonotone
<1>14. obj \in SwitchType(Len(b'.blocks)) /\ obj.segments = segs
  BY <1>4, <1>6, <1>13 DEF SwitchType
<1> HIDE DEF obj
<1>15. e \in FrameType(Len(b'.blocks)) /\ e.kind = "switch" /\ e.obj = obj
  BY <1>3, <1>14 DEF FrameType, Frame
<1> HIDE DEF e
<1>16. frames \in Seq(FrameType(Len(b'.blocks)))
  BY <1>12, Facts, FramesGrow
<1>17. StacksOK(b', Append(frames, e), Append(breakForLoop, FALSE), loopTerminal)
  BY <1>6, <1>11, <1>14, <1>15, <1>16, Facts, PushSwitch
<1>18. loopTerminal \in Seq(0..Len(text)') /\ Append(breakForLoop, FALSE) \in Seq(BOOLEAN)
  BY <1>3, TextUpTo, Facts, AppendProperties
<1>19. StateOK(b', frames', breakForLoop', loopTerminal', Len(text)')
  BY <1>2, <1>3, <1>11, <1>15, <1>17, <1>18, Facts, EnterStep
<1> QED
  BY <1>2, <1>3, <1>11, <1>19, Nested

(* The frame of a switch goes on to another of its segments. *)
LEMMA AdvanceFrame ==
  ASSUME NEW n \in Nat, NEW f \in Seq(FrameType(n)), f # <<>>,
         TopOf(f).obj \in SwitchType(n), TopOf(f).kind = "switch",
         NEW s \in 1..Len(TopOf(f).obj.segments)
  PROVE  LET g == [f EXCEPT ![Len(f)].obj.s = s]
         IN  /\ g \in Seq(FrameType(n)) /\ Len(g) = Len(f)
             /\ \A i \in 1..Len(f) :
                  /\ g[i].kind = f[i].kind
                  /\ f[i].kind = "loop" => g[i] = f[i]
                  /\ f[i].kind = "switch" => g[i].obj.segments = f[i].obj.segments
<1> DEFINE top == TopOf(f)
           new == [top EXCEPT !.obj.s = s]
           g   == [f EXCEPT ![Len(f)] = new]
<1>1. Len(f) \in Nat \ {0} /\ top = f[Len(f)] /\ top \in FrameType(n) /\ Len(f) \in 1..Len(f)
  BY PopElements
<1>2. top.obj \in SwitchType(n) /\ top.kind = "switch" /\ s \in 1..Len(top.obj.segments)
  OBVIOUS
<1>3. [f EXCEPT ![Len(f)].obj.s = s] = g
  BY DEF TopOf
<1> HIDE DEF top
<1>4. /\ new \in FrameType(n) /\ new.kind = top.kind
      /\ new.obj.segments = top.obj.segments
  <2>1. top \in [kind : {"switch"}, at : Nat, obj : SwitchType(n)]
    BY <1>1, <1>2 DEF FrameType
  <2>2. Len(top.obj.segments) \in Nat /\ s \in Nat
    BY <1>2 DEF SwitchType
  <2> DEFINE o == [top.obj EXCEPT !.s = s]
  <2>3. o \in SwitchType(n) /\ o.segments = top.obj.segments
    BY <1>2, <2>2 DEF SwitchType
  <2>4. new = [top EXCEPT !.obj = o]
    OBVIOUS
  <2> HIDE DEF o, new
  <2>5. new \in [kind : {"switch"}, at : Nat, obj : SwitchType(n)] /\ new.obj = o
        /\ new.kind = top.kind
    BY <2>1, <2>3, <2>4
  <2> QED
    BY <2>3, <2>5 DEF FrameType
<1> HIDE DEF new
<1>5. g \in Seq(FrameType(n)) /\ Len(g) = Len(f)
  BY <1>1, <1>4, ReplaceOne
<1>6. \A i \in 1..Len(f) : g[i] = IF i = Len(f) THEN new ELSE f[i]
  BY <1>1
<1>7. /\ g \in Seq(FrameType(n)) /\ Len(g) = Len(f)
      /\ \A i \in 1..Len(f) :
           /\ g[i].kind = f[i].kind
           /\ f[i].kind = "loop" => g[i] = f[i]
           /\ f[i].kind = "switch" => g[i].obj.segments = f[i].obj.segments
  <2> HIDE DEF g
  <2> QED
    BY <1>1, <1>2, <1>4, <1>5, <1>6
<1> QED
  BY <1>3, <1>7

LEMMA NextSegmentStep == IInv /\ NextSegment => IInv'
<1> SUFFICES ASSUME IInv, NextSegment PROVE IInv'
  OBVIOUS
<1> DEFINE s    == Top.obj.s + 1
           segs == Top.obj.segments
           g    == [frames EXCEPT ![Len(frames)].obj.s = s]
<1>1. /\ b' = EnterSegment(b, segs, s, Top.obj.code) /\ frames' = g
      /\ Visit("segment", Top.at, s - 1) /\ UNCHANGED <<stacks, unit>>
      /\ In("switch") /\ Top.obj.s < Len(segs)
  BY DEF NextSegment
<1>2. /\ frames # <<>> /\ TopOf(frames) = Top /\ Top.kind = "switch"
      /\ Top.obj \in SwitchType(Len(b.blocks))
  BY <1>1, TopType
<1>3. segs \in Seq(1..Len(b.blocks)) /\ s \in 1..Len(segs)
  BY <1>1, <1>2 DEF SwitchType
<1>4. /\ \E T : text' \in Seq(T) /\ Len(text)' \in Nat /\ Len(text) <= Len(text)'
  BY <1>1, Facts, VisitNext
<1>5. b.switches # <<>>
  BY <1>2, Facts, PopSwitch
<1> HIDE DEF s, segs
<1>6. Grows(b, b')
  BY <1>1, <1>3, <1>5, Facts, EnterSegmentGrows
<1>7. Builds(b, b') /\ SameStacks(b, b') /\ Grows(b, b)
  BY <1>6, Facts, GrowsReflexive DEF Grows
<1>8. /\ g \in Seq(FrameType(Len(b.blocks))) /\ Len(g) = Len(frames)
      /\ \A i \in 1..Len(frames) :
           /\ g[i].kind = frames[i].kind
           /\ frames[i].kind = "loop" => g[i] = frames[i]
           /\ frames[i].kind = "switch" => g[i].obj.segments = frames[i].obj.segments
  <2>1. /\ Len(b.blocks) \in Nat /\ frames \in Seq(FrameType(Len(b.blocks)))
        /\ s \in 1..Len(TopOf(frames).obj.segments)
        /\ TopOf(frames).kind = "switch" /\ TopOf(frames).obj \in SwitchType(Len(b.blocks))
    BY <1>2, <1>3, Facts DEF segs
  <2> QED
    BY <1>2, <2>1, AdvanceFrame
<1> HIDE DEF g
<1>9. SameStacks(b, b) /\ Len(frames) \in Nat
  BY Facts DEF SameStacks
<1>10. StacksOK(b, g, breakForLoop, loopTerminal)
  BY <1>8, <1>9, Facts, Restack
<1>11. StateOK(b, g, breakForLoop, loopTerminal, Len(text))
  BY <1>8, <1>10, Facts DEF StateOK
<1>12. StateOK(b', g, breakForLoop, loopTerminal, Len(text)')
  BY <1>4, <1>6, <1>11, QuietStep
<1> QED
  BY <1>1, <1>4, <1>7, <1>12, Nested DEF stacks

LEMMA EndOfSwitchStep == IInv /\ EndOfSwitch => IInv'
<1> SUFFICES ASSUME IInv, EndOfSwitch PROVE IInv'
  OBVIOUS
<1>1. /\ Visit("endswitch", Top.at, 0) /\ breakForLoop' = Pop(breakForLoop)
      /\ b' = EndSwitch(b) /\ frames' = Pop(frames) /\ loopTerminal' = loopTerminal
      /\ UNCHANGED unit /\ In("switch")
  BY DEF EndOfSwitch
<1>2. frames # <<>> /\ TopOf(frames).kind = "switch"
  BY <1>1, TopType
<1>3. /\ \E T : text' \in Seq(T) /\ Len(text)' \in Nat /\ Len(text) <= Len(text)'
  BY <1>1, Facts, VisitNext
<1>4. /\ breakForLoop # <<>> /\ b.switches # <<>>
      /\ (b'.loops = b.loops /\ b'.switches = Pop(b.switches))
           => StacksOK(b', Pop(frames), Pop(breakForLoop), loopTerminal)
  BY <1>2, Facts, PopSwitch
<1>5. /\ Builds(b, b') /\ b'.loops = b.loops /\ b'.switches = Pop(b.switches)
  BY <1>1, <1>4, Facts, EndSwitchBuilds
<1>6. StacksOK(b', Pop(frames), Pop(breakForLoop), loopTerminal)
  BY <1>4, <1>5
<1>7. loopTerminal \in Seq(0..Len(text)') /\ Pop(breakForLoop) \in Seq(BOOLEAN)
  BY <1>3, <1>4, TextUpTo, Facts, TopPopType
<1>8. StateOK(b', frames', breakForLoop', loopTerminal', Len(text)')
  BY <1>1, <1>2, <1>3, <1>5, <1>6, <1>7, Facts, LeaveStep
<1> QED
  BY <1>1, <1>3, <1>5, <1>8, Nested

-----------------------------------------------------------------------------
(* The theorems. *)

LEMMA Inductive == IInv /\ [Next]_vars => IInv'
<1> SUFFICES ASSUME IInv, [Next]_vars PROVE IInv'
  OBVIOUS
<1>1. CASE VisitInitializer \/ VisitFlowInitializer \/ EndFunction \/ Finish
  BY <1>1, InitializerStep, FlowInitializerStep, EndFunctionStep, FinishStep
<1>2. CASE \E fn \in ProgramFunctions : VisitFunction(fn)
  BY <1>2, FunctionStep
<1>3. CASE VisitStatement \/ VisitDiscard \/ VisitBreak \/ VisitContinue \/ VisitReturn
  BY <1>3, StatementStep, DiscardStep, BreakStep, ContinueStep, ReturnStep
<1>4. CASE VisitIf \/ VisitElse \/ EndIf
  BY <1>4, IfStep, ElseStep, EndIfStep
<1>5. CASE \E form \in LoopForms : VisitLoop(form)
  BY <1>5, LoopStep
<1>6. CASE EndLoop
  BY <1>6, EndLoopStep
<1>7. CASE \E body \in SwitchBodies : VisitSwitch(body)
  BY <1>7, SwitchStep
<1>8. CASE NextSegment \/ EndOfSwitch
  BY <1>8, NextSegmentStep, EndOfSwitchStep
<1>9. CASE UNCHANGED vars
  BY <1>9 DEF vars, stacks, unit, IInv
<1> QED
  BY <1>1, <1>2, <1>3, <1>4, <1>5, <1>6, <1>7, <1>8, <1>9 DEF Next

LEMMA Invariance == Spec => []IInv
BY Initially, Inductive, PTL DEF Spec

LEMMA InvariantTypes == IInv => TypeOK
<1> SUFFICES ASSUME IInv PROVE TypeOK
  OBVIOUS
<1> DEFINE n == Len(b.blocks)
<1>1. b \in BuilderType(n) /\ n \in Nat
  BY Facts DEF BuilderOK
<1>2. b.blocks \in Seq(BlockType(n)) /\ b.layout \in Seq(1..n) /\ b.insert \in 1..n
  BY <1>1 DEF BuilderType
<1>3. \A i \in 1..n : b.blocks[i] \in BlockType(n)
  BY <1>2
<1>4. \A i \in 1..n : /\ b.blocks[i].name \in BlockNames
                      /\ b.blocks[i].fn \in FunctionNames
                      /\ b.blocks[i].term \in TermType(n)
  BY <1>3 DEF BlockType
<1>5. \A t \in TermType(n) : t.kind \in TermKinds /\ \A k \in DOMAIN t.to : t.to[k] \in 1..n
  BY DEF TermType
<1>6. \A k \in DOMAIN b.layout : b.layout[k] \in 1..n
  BY <1>2
<1>7. breakForLoop \in Seq(BOOLEAN) /\ loopTerminal \in Seq(0..Len(text))
  BY Facts
<1>8. /\ initPoint \in 1..n /\ lastBodyBlock \in 1..n
      /\ inMain \in BOOLEAN /\ phase \in {"global", "body", "built"}
  BY DEF IInv
<1> HIDE DEF n
<1> QED
  BY <1>2, <1>4, <1>5, <1>6, <1>7, <1>8 DEF TypeOK, BlockIds, n

LEMMA InvariantStacks == IInv => StacksFollowTree
<1> SUFFICES ASSUME IInv PROVE StacksFollowTree
  OBVIOUS
<1>1. StacksOK(b, frames, breakForLoop, loopTerminal) /\ DOMAIN frames = 1..Len(frames)
  BY Facts
<1>2. \A kinds, i : DepthOf(frames, kinds, i) = Depth(kinds, i)
  BY DEF Depth, DepthOf
<1>3. StackLengths(b, frames, breakForLoop, loopTerminal, Len(frames))
  BY <1>1 DEF StacksOK
<1>4. \A i \in DOMAIN frames : InStacks(b, frames, breakForLoop, loopTerminal, i)
  BY <1>1 DEF StacksOK
<1> QED
  BY <1>2, <1>3, <1>4 DEF StacksFollowTree, StackLengths, InStacks, Both

(* visitSwitch and makeSwitch, for every switch body glslang accepts: the  *)
(* k-th case and the default lead to the code that follows them first, a   *)
(* case to a segment that exists whatever is read in front of              *)
(* valueToSegment, and the default to one just if the body is none of      *)
(* those SwitchAssumption leaves out.                                      *)
THEOREM SegmentsCorrect ==
  ASSUME NEW body \in Seq(SwitchChildren), AcceptedSwitch(body)
  PROVE  /\ \A k \in DOMAIN ValueToSegment(body) :
              /\ \E i \in CaseChildren(body) :
                   /\ Cardinality({j \in CaseChildren(body) : j <= i}) = k
                   /\ LeadsTo(body, i, ValueToSegment(body)[k])
              /\ \A n \in SegmentCounts(body) : ValueToSegment(body)[k] \in 0..(n - 1)
         /\ \A i \in DOMAIN body :
              body[i] = "default" => LeadsTo(body, i, DefaultSegment(body))
         /\ (\A n \in SegmentCounts(body) : DefaultSegment(body) < n)
              <=> DefaultHasSegment(body)
<1> DEFINE values == ValueToSegment(body)
<1>1. body # <<>>
  BY DEF AcceptedSwitch
<1>2. DOMAIN values = 1..Cardinality(CaseChildren(body))
  BY DEF ValueToSegment
<1>3. ASSUME NEW k \in DOMAIN values
      PROVE  \E i \in CaseChildren(body) :
               /\ Cardinality({j \in CaseChildren(body) : j <= i}) = k
               /\ LeadsTo(body, i, values[k])
  <2>1. PICK i \in CaseChildren(body) :
          /\ Cardinality({j \in CaseChildren(body) : j <= i}) = k
          /\ values[k] = SegmentsBefore(body, i)
    BY <1>2, <1>3, CaseOfLabel DEF ValueToSegment
  <2>2. i \in DOMAIN body /\ body[i] # "code"
    BY DEF CaseChildren
  <2> HIDE DEF values
  <2> QED
    BY <2>1, <2>2, SegmentLeads
<1>4. ASSUME NEW n \in SegmentCounts(body), NEW k \in DOMAIN values
      PROVE  values[k] \in 0..(n - 1)
  <2>1. values \in Seq(0..(n - 1))
    BY <1>1, CaseSegments
  <2>2. DOMAIN values = 1..Len(values)
    BY <2>1
  <2> HIDE DEF values
  <2>3. values[k] \in 0..(n - 1)
    BY <2>1, <2>2, SeqElements
  <2> QED
    BY <2>3 DEF values
<1>5. ASSUME NEW i \in DOMAIN body, body[i] = "default"
      PROVE  LeadsTo(body, i, DefaultSegment(body))
  <2>1. {j \in DOMAIN body : body[j] = "default"} = {i}
    BY <1>5 DEF AcceptedSwitch
  <2>2. DefaultSegment(body) = SegmentsBefore(body, i)
    BY <2>1 DEF DefaultSegment
  <2> QED
    BY <1>5, <2>2, SegmentLeads
<1>6. ASSUME DefaultHasSegment(body), NEW n \in SegmentCounts(body)
      PROVE  DefaultSegment(body) < n
  <2>1. DefaultSegment(body) \in -1..(n - 1) /\ n \in Nat
    BY <1>1, <1>6, DefaultInFront, CaseSegments
  <2> QED
    BY <2>1
<1>7. ASSUME ~ DefaultHasSegment(body)
      PROVE  \E n \in SegmentCounts(body) : ~ (DefaultSegment(body) < n)
  <2>1. PICK n \in SegmentCounts(body) : DefaultSegment(body) = n
    BY <1>7, DefaultBehind
  <2>2. n \in Nat
    BY <1>1, CaseSegments
  <2> QED
    BY <2>1, <2>2
<1> QED
  BY <1>3, <1>4, <1>5, <1>6, <1>7

(* Whatever the shader, with the switch bodies SwitchAssumption admits: the *)
(* blocks the traverser and the builder make, place, jump to and remember  *)
(* exist, and the stacks are well typed.                                   *)
THEOREM TypeCorrect == Spec => []TypeOK
BY Invariance, InvariantTypes, PTL

(* visitLoop, visitSwitch, makeNewLoop, makeSwitch: in a shader of any     *)
(* size and nesting, each of the four stacks holds the open constructs of  *)
(* its kinds in order.                                                     *)
THEOREM StacksCorrect == Spec => []StacksFollowTree
BY Invariance, InvariantStacks, PTL
=============================================================================
