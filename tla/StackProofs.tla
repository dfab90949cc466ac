---------------------------- MODULE StackProofs ----------------------------
(***************************************************************************)
(* What the operations on the operand stack return, for every stack: the   *)
(* facts about Stack that the proofs about the evaluation loop cite.       *)
(***************************************************************************)
EXTENDS Stack, Integers, FiniteSetTheorems, SequenceTheorems, WellFoundedInduction, TLAPS

----------------------------------------------------------------------------
(* Least and greatest elements *)

LEMMA NatMin ==
  ASSUME NEW T \in SUBSET Nat, T # {}
  PROVE  \E x \in T : \A y \in T : x <= y
<1>1. \E x \in T : \A y \in T : ~ (<<y, x>> \in OpToRel(<, Nat))
  BY WFMin, NatLessThanWellFounded
<1>2. PICK x \in T : \A y \in T : ~ (<<y, x>> \in OpToRel(<, Nat))
  BY <1>1
<1>3. \A y \in T : ~ (y < x)
  BY <1>2 DEF OpToRel
<1>. QED BY <1>3

LEMMA NatMax ==
  ASSUME NEW n \in Nat, NEW T \in SUBSET (1..n), T # {}
  PROVE  \E x \in T : \A y \in T : y <= x
<1>. DEFINE U == {u \in 0..n : n - u \in T}
<1>1. U \subseteq Nat
  OBVIOUS
<1>2. U # {}
  <2>1. PICK x \in T : TRUE
    OBVIOUS
  <2>2. n - (n - x) = x /\ n - x \in 0..n
    BY <2>1
  <2>. QED BY <2>1, <2>2
<1>3. PICK u \in U : \A y \in U : u <= y
  BY <1>1, <1>2, NatMin
<1>4. n - u \in T
  BY <1>3
<1>5. \A y \in T : y <= n - u
  <2>. TAKE y \in T
  <2>1. n - (n - y) = y /\ n - y \in 0..n /\ y \in Nat
    OBVIOUS
  <2>2. u <= n - y
    BY <1>3, <2>1
  <2>. QED BY <2>1, <2>2
<1>. QED BY <1>4, <1>5

----------------------------------------------------------------------------
(* Popping values *)

LEMMA DroppedType ==
  ASSUME NEW S, NEW s \in Seq(S), NEW n \in Nat, n <= Len(s)
  PROVE  /\ Dropped(s, n) \in Seq(S)
         /\ Len(Dropped(s, n)) = Len(s) - n
         /\ \A k \in 1..Len(s) - n : Dropped(s, n)[k] = s[k]
<1>1. Len(s) - n \in 0..Len(s)
  OBVIOUS
<1>. QED BY <1>1, SubSeqProperties DEF Dropped

LEMMA KeptType ==
  ASSUME NEW S, NEW s \in Seq(S), NEW n \in Nat, n <= Len(s)
  PROVE  /\ Kept(s, n) \in Seq(S)
         /\ Len(Kept(s, n)) = n
         /\ \A k \in 1..n : Kept(s, n)[k] = s[Len(s) - n + k]
<1>1. CASE n = 0
  <2>1. Kept(s, n) = << >>
    BY <1>1, SubSeqEmpty DEF Kept
  <2>2. Kept(s, n) \in Seq(S) /\ Len(Kept(s, n)) = n
    BY <1>1, <2>1, EmptySeq
  <2>3. \A k \in 1..n : FALSE
    BY <1>1
  <2>. QED BY <2>2, <2>3
<1>2. CASE n # 0
  <2>1. /\ Len(s) - n + 1 \in 1..Len(s) + 1
        /\ Len(s) \in Len(s) - n + 1 - 1..Len(s)
        /\ Len(s) - (Len(s) - n + 1) + 1 = n
    BY <1>2
  <2>. QED BY <2>1, <1>2, SubSeqProperties DEF Kept
<1>. QED BY <1>1, <1>2

\* Pops that pass their assertions return values, not markers.
LEMMA HoldsValues ==
  ASSUME NEW s \in Seq(Entries), NEW T, NEW ts \in Seq(T), Holds(s, ts)
  PROVE  /\ Len(ts) <= Len(s)
         /\ \A k \in 1..Len(ts) : s[Len(s) - Len(ts) + k] \in Values
         /\ \A k \in 1..Len(ts) : Popped(s, k) \in Values
<1>1. Len(ts) \in Nat /\ Len(s) \in Nat /\ Len(ts) <= Len(s)
  BY DEF Holds
<1>2. ASSUME NEW k \in 1..Len(ts)
      PROVE  s[Len(s) - Len(ts) + k] \in Values
  <2>1. Len(s) - Len(ts) + k \in 1..Len(s)
    BY <1>1
  <2>2. s[Len(s) - Len(ts) + k] \in Entries
    BY <2>1, ElementOfSeq
  <2>3. ~IsMarker(s[Len(s) - Len(ts) + k])
    BY DEF Holds
  <2>. QED BY <2>2, <2>3 DEF Entries, IsMarker, LabelMarker, FuncMarker
<1>3. ASSUME NEW k \in 1..Len(ts)
      PROVE  Popped(s, k) \in Values
  <2>1. Len(ts) - k + 1 \in 1..Len(ts)
    BY <1>1
  <2>2. Len(s) - Len(ts) + (Len(ts) - k + 1) = Len(s) - k + 1
    BY <1>1
  <2>. QED BY <1>2, <2>1, <2>2 DEF Popped
<1>. QED BY <1>1, <1>2, <1>3

LEMMA KeptValues ==
  ASSUME NEW s \in Seq(Entries), NEW T, NEW ts \in Seq(T), Holds(s, ts)
  PROVE  Kept(s, Len(ts)) \in Seq(Values) /\ Len(Kept(s, Len(ts))) = Len(ts)
<1>1. Len(ts) \in Nat /\ Len(ts) <= Len(s)
  BY HoldsValues
<1>2. /\ Kept(s, Len(ts)) \in Seq(Entries) /\ Len(Kept(s, Len(ts))) = Len(ts)
      /\ \A k \in 1..Len(ts) : Kept(s, Len(ts))[k] = s[Len(s) - Len(ts) + k]
  BY <1>1, KeptType
<1>3. \A k \in 1..Len(ts) : Kept(s, Len(ts))[k] \in Values
  BY <1>2, HoldsValues
<1>4. Kept(s, Len(ts)) = [k \in 1..Len(ts) |-> Kept(s, Len(ts))[k]]
  BY <1>1, <1>2
<1>. QED BY <1>1, <1>2, <1>3, <1>4, IsASeq

\* Pops that run out of entries before an assertion fails have popped values.
LEMMA EmptiedValues ==
  ASSUME NEW s \in Seq(Entries), NEW T, NEW ts \in Seq(T), ~Holds(s, ts), ~Mismatch(s, ts)
  PROVE  s \in Seq(Values) /\ Len(s) < Len(ts)
<1>1. Len(ts) \in Nat /\ Len(s) \in Nat
  OBVIOUS
<1>2. ASSUME NEW p \in 1..Len(s), p >= Len(s) - Len(ts) + 1
      PROVE  ~IsMarker(s[p]) /\ s[p].valtype = ts[Len(ts) - (Len(s) - p + 1) + 1]
  <2>1. Len(s) - p + 1 \in 1..Len(ts) /\ Len(s) - p + 1 <= Len(s)
    BY <1>1, <1>2
  <2>2. Len(s) - (Len(s) - p + 1) + 1 = p
    BY <1>1
  <2>. QED BY <2>1, <2>2 DEF Mismatch, Popped
<1>3. Len(s) < Len(ts)
  <2>1. SUFFICES ASSUME Len(s) >= Len(ts) PROVE FALSE
    BY <1>1
  <2>2. ASSUME NEW k \in 1..Len(ts)
        PROVE  ~IsMarker(s[Len(s) - Len(ts) + k]) /\ s[Len(s) - Len(ts) + k].valtype = ts[k]
    <3>1. /\ Len(s) - Len(ts) + k \in 1..Len(s)
          /\ Len(s) - Len(ts) + k >= Len(s) - Len(ts) + 1
          /\ Len(ts) - (Len(s) - (Len(s) - Len(ts) + k) + 1) + 1 = k
      BY <1>1, <2>1
    <3>. QED BY <3>1, <1>2
  <2>. QED BY <2>1, <2>2 DEF Holds
<1>4. ASSUME NEW p \in 1..Len(s)
      PROVE  s[p] \in Values
  <2>1. ~IsMarker(s[p])
    BY <1>1, <1>2, <1>3
  <2>2. s[p] \in Entries
    BY ElementOfSeq
  <2>. QED BY <2>1, <2>2 DEF Entries, IsMarker, LabelMarker, FuncMarker
<1>5. s = [p \in 1..Len(s) |-> s[p]]
  BY <1>1
<1>. QED BY <1>1, <1>3, <1>4, <1>5, IsASeq
----------------------------------------------------------------------------
(* Popping down to a marker *)

\* The topmost marker of a kind is there when a marker of that kind is.
LEMMA TopmostType ==
  ASSUME NEW s \in Seq(Entries), NEW m, HasMarker(s, m)
  PROVE  /\ Topmost(s, m) \in 1..Len(s)
         /\ s[Topmost(s, m)].marker = m
         /\ \A q \in Topmost(s, m) + 1..Len(s) : s[q].marker # m
<1>. DEFINE T == {p \in 1..Len(s) : s[p].marker = m}
<1>1. Len(s) \in Nat /\ T \subseteq 1..Len(s) /\ T # {}
  BY DEF HasMarker
<1>2. PICK p \in T : \A q \in T : q <= p
  BY <1>1, NatMax
<1>3. p \in 1..Len(s) /\ s[p].marker = m /\ \A q \in p + 1..Len(s) : s[q].marker # m
  <2>1. SUFFICES ASSUME NEW q \in p + 1..Len(s), s[q].marker = m PROVE FALSE
    BY <1>2
  <2>2. q \in T /\ q > p
    BY <1>1, <1>2, <2>1
  <2>. QED BY <1>2, <2>2
<1>. HIDE DEF T
<1>4. \E r \in 1..Len(s) : s[r].marker = m /\ \A q \in r + 1..Len(s) : s[q].marker # m
  BY <1>3
<1>. QED BY <1>4 DEF Topmost

LEMMA BelowTopmostType ==
  ASSUME NEW s \in Seq(Entries), NEW m, HasMarker(s, m)
  PROVE  BelowTopmost(s, m) \in Seq(Entries) /\ Len(BelowTopmost(s, m)) = Topmost(s, m) - 1
<1>1. Topmost(s, m) \in 1..Len(s) /\ Len(s) \in Nat
  BY TopmostType
<1>2. Topmost(s, m) - 1 \in 0..Len(s)
  BY <1>1
<1>. QED BY <1>1, <1>2, SubSeqProperties DEF BelowTopmost

\* The number of markers up to a position: it grows by one at each marker.
MarkersUpTo(s, p) == {q \in Markers(s) : q <= p}
Rank(s, p)        == Cardinality(MarkersUpTo(s, p))

LEMMA RankType ==
  ASSUME NEW s \in Seq(Entries)
  PROVE  /\ Markers(s) \subseteq 1..Len(s)
         /\ MarkerCount(s) \in Nat
         /\ \A p : IsFiniteSet(MarkersUpTo(s, p)) /\ Rank(s, p) \in Nat
         /\ Rank(s, 0) = 0 /\ Rank(s, Len(s)) = MarkerCount(s)
<1>1. Len(s) \in Nat /\ Markers(s) \subseteq 1..Len(s)
  BY DEF Markers
<1>2. IsFiniteSet(Markers(s)) /\ MarkerCount(s) \in Nat
  <2>1. IsFiniteSet(1..Len(s))
    BY <1>1, FS_Interval
  <2>2. IsFiniteSet(Markers(s))
    BY <2>1, <1>1, FS_Subset
  <2>. QED BY <2>2, FS_CardinalityType DEF MarkerCount
<1>3. ASSUME NEW p PROVE IsFiniteSet(MarkersUpTo(s, p)) /\ Rank(s, p) \in Nat
  <2>1. MarkersUpTo(s, p) \in SUBSET Markers(s)
    BY DEF MarkersUpTo
  <2>2. IsFiniteSet(MarkersUpTo(s, p))
    BY <2>1, <1>2, FS_Subset
  <2>. QED BY <2>2, FS_CardinalityType DEF Rank
<1>4. Rank(s, 0) = 0
  <2>1. MarkersUpTo(s, 0) = {}
    BY <1>1 DEF MarkersUpTo
  <2>. QED BY <2>1, FS_EmptySet DEF Rank
<1>5. Rank(s, Len(s)) = MarkerCount(s)
  <2>1. MarkersUpTo(s, Len(s)) = Markers(s)
    BY <1>1 DEF MarkersUpTo
  <2>. QED BY <2>1 DEF Rank, MarkerCount
<1>. QED BY <1>1, <1>2, <1>3, <1>4, <1>5

LEMMA RankStep ==
  ASSUME NEW s \in Seq(Entries), NEW p \in 1..Len(s)
  PROVE  Rank(s, p) = Rank(s, p - 1) + (IF p \in Markers(s) THEN 1 ELSE 0)
<1>1. Markers(s) \subseteq Nat /\ IsFiniteSet(MarkersUpTo(s, p - 1)) /\ Rank(s, p - 1) \in Nat
  BY RankType
<1>2. CASE p \notin Markers(s)
  <2>1. MarkersUpTo(s, p) = MarkersUpTo(s, p - 1)
    BY <1>1, <1>2 DEF MarkersUpTo
  <2>. QED BY <1>1, <1>2, <2>1 DEF Rank
<1>3. CASE p \in Markers(s)
  <2>1. MarkersUpTo(s, p) = MarkersUpTo(s, p - 1) \cup {p} /\ p \notin MarkersUpTo(s, p - 1)
    BY <1>1, <1>3 DEF MarkersUpTo
  <2>2. Cardinality(MarkersUpTo(s, p - 1) \cup {p}) = Cardinality(MarkersUpTo(s, p - 1)) + 1
    BY <1>1, <2>1, FS_AddElement
  <2>. QED BY <1>3, <2>1, <2>2 DEF Rank
<1>. QED BY <1>2, <1>3

\* The k-th marker from the bottom is there when there are at least k markers.
LEMMA MarkerPosType ==
  ASSUME NEW s \in Seq(Entries), NEW k \in 1..MarkerCount(s)
  PROVE  MarkerPos(s, k) \in Markers(s) /\ Rank(s, MarkerPos(s, k)) = k
<1>. DEFINE T == {p \in 1..Len(s) : Rank(s, p) >= k}
<1>1. /\ Len(s) \in Nat /\ MarkerCount(s) \in Nat /\ k \in Nat \ {0} /\ k <= MarkerCount(s)
      /\ \A p : Rank(s, p) \in Nat
      /\ Rank(s, 0) = 0 /\ Rank(s, Len(s)) = MarkerCount(s)
  BY RankType
<1>2. T \in SUBSET Nat /\ Len(s) \in T
  BY <1>1
<1>3. PICK p \in T : \A r \in T : p <= r
  BY <1>2, NatMin
<1>4. Rank(s, p - 1) < k
  <2>1. CASE p = 1
    BY <1>1, <2>1
  <2>2. CASE p # 1
    <3>1. p - 1 \in 1..Len(s) /\ ~(p <= p - 1)
      BY <1>1, <2>2
    <3>2. ~(Rank(s, p - 1) >= k)
      BY <1>3, <3>1
    <3>. QED BY <1>1, <3>2
  <2>. QED BY <2>1, <2>2
<1>5. Rank(s, p) >= k /\ p \in 1..Len(s)
  BY <1>3
<1>6. Rank(s, p) = Rank(s, p - 1) + (IF p \in Markers(s) THEN 1 ELSE 0)
  BY <1>5, RankStep
<1>7. p \in Markers(s) /\ Rank(s, p) = k
  BY <1>1, <1>4, <1>5, <1>6
<1>8. \E r \in Markers(s) : Cardinality({q \in Markers(s) : q <= r}) = k
  BY <1>7 DEF Rank, MarkersUpTo
<1>9. MarkerPos(s, k) \in Markers(s) /\ Cardinality({q \in Markers(s) : q <= MarkerPos(s, k)}) = k
  BY <1>8 DEF MarkerPos
<1>. QED BY <1>9 DEF Rank, MarkersUpTo

LEMMA BelowMarkersType ==
  ASSUME NEW s \in Seq(Entries), NEW n \in 1..MarkerCount(s)
  PROVE  BelowMarkers(s, n) \in Seq(Entries)
<1>1. MarkerCount(s) \in Nat
  BY RankType
<1>2. MarkerCount(s) - n + 1 \in 1..MarkerCount(s)
  BY <1>1
<1>3. MarkerPos(s, MarkerCount(s) - n + 1) \in 1..Len(s)
  BY <1>2, MarkerPosType DEF Markers
<1>4. MarkerPos(s, MarkerCount(s) - n + 1) - 1 \in 0..Len(s)
  BY <1>3
<1>. QED BY <1>4, SubSeqProperties DEF BelowMarkers

----------------------------------------------------------------------------
(* The stack as its segments: values at the bottom, and above each marker  *)
(* the operands that belong to it                                          *)

MarkerKind == {"label", "function"}

\* The markers of s are at m[1], m[2], ..., of the kinds ks; one more position
\* behind the top ends the last segment.
Marks(s, ks, m) ==
  /\ m \in [1..Len(ks) + 1 -> Nat \ {0}] /\ m[Len(ks) + 1] = Len(s) + 1
  /\ \A i \in 1..Len(ks) + 1 : \A j \in 1..Len(ks) + 1 : i < j => m[i] < m[j]
  /\ \A k \in 1..Len(ks) : s[m[k]].marker = ks[k]
  /\ \A p \in Markers(s) : \E k \in 1..Len(ks) : p = m[k]

\* Below the first marker are the values rs, above the k-th the values os[k].
Segments(s, os, rs, m) ==
  /\ m[1] = Len(rs) + 1 /\ \A i \in 1..Len(rs) : s[i] = rs[i]
  /\ \A k \in 1..Len(os) : /\ m[k + 1] = m[k] + Len(os[k]) + 1
                           /\ \A i \in 1..Len(os[k]) : s[m[k] + i] = os[k][i]

Laid(s, ks, os, rs, m) ==
  /\ s \in Seq(Entries) /\ ks \in Seq(MarkerKind) /\ os \in Seq(Seq(Values)) /\ rs \in Seq(Values)
  /\ Len(os) = Len(ks) /\ Marks(s, ks, m) /\ Segments(s, os, rs, m)

Reads(s, ks, os, rs) == \E m : Laid(s, ks, os, rs, m)

LEMMA LaidType ==
  ASSUME NEW s, NEW ks, NEW os, NEW rs, NEW m, Laid(s, ks, os, rs, m)
  PROVE  /\ s \in Seq(Entries) /\ Len(s) \in Nat
         /\ ks \in Seq(MarkerKind) /\ Len(ks) \in Nat /\ Len(os) = Len(ks)
         /\ rs \in Seq(Values) /\ Len(rs) \in Nat
         /\ os \in Seq(Seq(Values))
         /\ \A k \in 1..Len(ks) : os[k] \in Seq(Values) /\ Len(os[k]) \in Nat
         /\ \A k \in 1..Len(ks) + 1 : m[k] \in Nat /\ m[k] \in 1..Len(s) + 1
         /\ \A k \in 1..Len(ks) : m[k] \in 1..Len(s) /\ m[k] <= Len(s)
<1>1. /\ s \in Seq(Entries) /\ ks \in Seq(MarkerKind) /\ os \in Seq(Seq(Values)) /\ rs \in Seq(Values)
      /\ Len(os) = Len(ks)
      /\ m \in [1..Len(ks) + 1 -> Nat \ {0}] /\ m[Len(ks) + 1] = Len(s) + 1
      /\ \A i \in 1..Len(ks) + 1 : \A j \in 1..Len(ks) + 1 : i < j => m[i] < m[j]
  BY DEF Laid, Marks
<1>2. PICK n, h : n = Len(ks) /\ h = Len(s)
  OBVIOUS
<1>3. n \in Nat /\ h \in Nat /\ Len(rs) \in Nat
  BY <1>1, <1>2
<1>4. /\ m \in [1..n + 1 -> Nat \ {0}] /\ m[n + 1] = h + 1
      /\ \A i \in 1..n + 1 : \A j \in 1..n + 1 : i < j => m[i] < m[j]
  BY <1>1, <1>2
<1>5. ASSUME NEW k \in 1..n PROVE m[k] \in Nat /\ m[k] \in 1..h
  <2>1. k \in 1..n + 1 /\ n + 1 \in 1..n + 1 /\ k < n + 1
    BY <1>3
  <2>2. m[k] \in Nat \ {0} /\ m[k] < h + 1
    BY <1>4, <2>1
  <2>. QED BY <1>3, <2>2
<1>6. \A k \in 1..n : m[k] \in Nat /\ m[k] \in 1..h /\ m[k] <= h
  BY <1>3, <1>5
<1>7. \A k \in 1..n + 1 : m[k] \in Nat /\ m[k] \in 1..h + 1
  BY <1>3, <1>4, <1>6
<1>8. \A k \in 1..n : os[k] \in Seq(Values) /\ Len(os[k]) \in Nat
  BY <1>1, <1>2, ElementOfSeq
<1>. QED BY <1>1, <1>2, <1>3, <1>6, <1>7, <1>8

\* The markers are counted, and found by their number.
LEMMA LaidMarkers ==
  ASSUME NEW s, NEW ks, NEW os, NEW rs, NEW m, Laid(s, ks, os, rs, m)
  PROVE  /\ MarkerCount(s) = Len(ks)
         /\ \A k \in 1..Len(ks) : m[k] \in Markers(s) /\ MarkerPos(s, k) = m[k]
<1>1. PICK n, h : n = Len(ks) /\ h = Len(s)
  OBVIOUS
<1>2. /\ s \in Seq(Entries) /\ n \in Nat /\ h \in Nat
      /\ \A k \in 1..n : m[k] \in Nat /\ m[k] \in 1..h
      /\ ks \in Seq(MarkerKind)
  BY <1>1, LaidType
<1>3. /\ \A i \in 1..n + 1 : \A j \in 1..n + 1 : i < j => m[i] < m[j]
      /\ \A k \in 1..n : s[m[k]].marker = ks[k]
      /\ \A p \in Markers(s) : \E k \in 1..n : p = m[k]
  BY <1>1 DEF Laid, Marks
<1>4. ASSUME NEW k \in 1..n PROVE m[k] \in Markers(s)
  <2>1. ks[k] \in MarkerKind
    BY <1>1, <1>2, ElementOfSeq
  <2>2. s[m[k]].marker # "value"
    BY <1>3, <2>1 DEF MarkerKind
  <2>. QED BY <1>1, <1>2, <2>2 DEF Markers, IsMarker
<1>5. ASSUME NEW i \in 1..n, NEW j \in 1..n PROVE i <= j <=> m[i] <= m[j]
  <2>1. i \in 1..n + 1 /\ j \in 1..n + 1 /\ i \in Nat /\ j \in Nat
    BY <1>2
  <2>2. (i < j => m[i] < m[j]) /\ (j < i => m[j] < m[i])
    BY <1>3, <2>1
  <2>3. m[i] \in Nat /\ m[j] \in Nat
    BY <1>2
  <2>. QED BY <2>1, <2>2, <2>3
<1>6. ASSUME NEW j \in 0..n
      PROVE  Cardinality({m[i] : i \in 1..j}) = j
  <2>. DEFINE f == [i \in 1..j |-> m[i]]
              T == {m[i] : i \in 1..j}
  <2>1. \A i \in 1..j : i \in 1..n
    BY <1>2
  <2>2. \A a \in 1..j, b \in 1..j : f[a] = f[b] => a = b
    <3>. TAKE a \in 1..j, b \in 1..j
    <3>1. a \in 1..n /\ b \in 1..n /\ a \in Nat /\ b \in Nat
      BY <1>2, <2>1
    <3>2. m[a] = m[b] => a <= b /\ b <= a
      <4>1. m[a] \in Nat /\ m[b] \in Nat
        BY <1>2, <3>1
      <4>. QED BY <1>5, <3>1, <4>1
    <3>. QED BY <3>1, <3>2
  <2>3. f \in [1..j -> T] /\ \A t \in T : \E i \in 1..j : f[i] = t
    OBVIOUS
  <2>4. f \in Bijection(1..j, T)
    BY <2>2, <2>3 DEF Bijection, Injection, Surjection, IsInjective
  <2>. QED BY <1>2, <2>4, FS_CountingElements DEF ExistsBijection
<1>7. MarkerCount(s) = n
  <2>1. Markers(s) = {m[i] : i \in 1..n}
    BY <1>3, <1>4
  <2>. QED BY <1>2, <1>6, <2>1 DEF MarkerCount
<1>8. ASSUME NEW k \in 1..n PROVE Rank(s, m[k]) = k
  <2>1. MarkersUpTo(s, m[k]) = {m[i] : i \in 1..k}
    <3>1. ASSUME NEW p \in MarkersUpTo(s, m[k]) PROVE p \in {m[i] : i \in 1..k}
      <4>1. p \in Markers(s) /\ p <= m[k]
        BY DEF MarkersUpTo
      <4>2. PICK i \in 1..n : p = m[i]
        BY <1>3, <4>1
      <4>3. i <= k
        BY <1>5, <4>1, <4>2
      <4>4. i \in 1..k
        BY <1>2, <4>3
      <4>. QED BY <4>2, <4>4
    <3>2. ASSUME NEW i \in 1..k PROVE m[i] \in MarkersUpTo(s, m[k])
      <4>1. i \in 1..n /\ i <= k
        BY <1>2
      <4>. QED BY <1>4, <1>5, <4>1 DEF MarkersUpTo
    <3>. QED BY <3>1, <3>2
  <2>2. k \in 0..n
    BY <1>2
  <2>. QED BY <1>6, <2>1, <2>2 DEF Rank
<1>9. ASSUME NEW k \in 1..n PROVE MarkerPos(s, k) = m[k]
  <2>1. MarkerPos(s, k) \in Markers(s) /\ Rank(s, MarkerPos(s, k)) = k
    BY <1>2, <1>7, MarkerPosType
  <2>2. PICK j \in 1..n : MarkerPos(s, k) = m[j]
    BY <1>3, <2>1
  <2>. QED BY <1>8, <2>1, <2>2
<1>. QED BY <1>1, <1>4, <1>7, <1>9

LEMMA Slice ==
  ASSUME NEW S, NEW s, NEW lo \in Nat, NEW c \in Nat, \A i \in 1..c : s[lo + i] \in S
  PROVE  /\ SubSeq(s, lo + 1, lo + c) \in Seq(S) /\ Len(SubSeq(s, lo + 1, lo + c)) = c
         /\ \A i \in 1..c : SubSeq(s, lo + 1, lo + c)[i] = s[lo + i]
<1>1. PICK a, b : a = lo + 1 /\ b = lo + c
  OBVIOUS
<1>2. a \in Int /\ b \in Int /\ b - a + 1 = c /\ (a <= b <=> c # 0)
  BY <1>1
<1>3. \A i \in a..b : s[i] \in S
  <2>. TAKE i \in a..b
  <2>1. i - lo \in 1..c /\ lo + (i - lo) = i
    BY <1>1
  <2>. QED BY <2>1
<1>4. /\ SubSeq(s, a, b) \in Seq(S) /\ Len(SubSeq(s, a, b)) = IF a <= b THEN b - a + 1 ELSE 0
      /\ \A i \in 1..b - a + 1 : SubSeq(s, a, b)[i] = s[a + i - 1]
  BY <1>2, <1>3, SubSeqProperties
<1>5. \A i \in 1..c : a + i - 1 = lo + i
  BY <1>1
<1>. QED BY <1>1, <1>2, <1>4, <1>5

\* The segments, cut out of the stack.
LEMMA LaidSegments ==
  ASSUME NEW s, NEW ks, NEW os, NEW rs, NEW m, Laid(s, ks, os, rs, m)
  PROVE  /\ SubSeq(s, 1, m[1] - 1) = rs
         /\ \A k \in 1..Len(ks) : SubSeq(s, m[k] + 1, m[k + 1] - 1) = os[k]
<1>1. PICK n, h, r : n = Len(ks) /\ h = Len(s) /\ r = Len(rs)
  OBVIOUS
<1>2. /\ s \in Seq(Entries) /\ n \in Nat /\ h \in Nat /\ r \in Nat /\ rs \in Seq(Values) /\ Len(os) = n
      /\ \A k \in 1..n + 1 : m[k] \in Nat /\ m[k] \in 1..h + 1
      /\ \A k \in 1..n : os[k] \in Seq(Values) /\ Len(os[k]) \in Nat
  BY <1>1, LaidType
<1>3. /\ m[1] = r + 1 /\ \A i \in 1..r : s[i] = rs[i]
      /\ \A k \in 1..n : /\ m[k + 1] = m[k] + Len(os[k]) + 1
                         /\ \A i \in 1..Len(os[k]) : s[m[k] + i] = os[k][i]
  BY <1>1, <1>2 DEF Laid, Segments
<1>4. SubSeq(s, 1, m[1] - 1) = rs
  <2>1. m[1] - 1 = r
    BY <1>2, <1>3
  <2>2. \A i \in 1..r : s[i] \in Values
    BY <1>1, <1>2, <1>3, ElementOfSeq
  <2>3. /\ SubSeq(s, 1, r) \in Seq(Values) /\ Len(SubSeq(s, 1, r)) = r
        /\ \A i \in 1..r : SubSeq(s, 1, r)[i] = s[i]
    <3>1. /\ SubSeq(s, 1, r) \in Seq(Values)
          /\ Len(SubSeq(s, 1, r)) = IF 1 <= r THEN r - 1 + 1 ELSE 0
          /\ \A i \in 1..r - 1 + 1 : SubSeq(s, 1, r)[i] = s[1 + i - 1]
      BY <1>2, <2>2, SubSeqProperties
    <3>2. r - 1 + 1 = r /\ (1 <= r <=> r # 0) /\ \A i \in 1..r : 1 + i - 1 = i
      BY <1>2
    <3>. QED BY <3>1, <3>2
  <2>. QED BY <1>1, <1>2, <1>3, <2>1, <2>3, SeqEqual
<1>5. ASSUME NEW k \in 1..n PROVE SubSeq(s, m[k] + 1, m[k + 1] - 1) = os[k]
  <2>1. PICK lo, o, c : lo = m[k] /\ o = os[k] /\ c = Len(os[k])
    OBVIOUS
  <2>2. lo \in Nat /\ o \in Seq(Values) /\ c \in Nat /\ c = Len(o)
    BY <1>2, <2>1
  <2>3. m[k + 1] - 1 = lo + c
    BY <1>3, <2>1, <2>2
  <2>4. \A i \in 1..c : s[lo + i] = o[i]
    BY <1>3, <2>1
  <2>5. \A i \in 1..c : o[i] \in Values
    BY <2>2, ElementOfSeq
  <2>6. \A i \in 1..c : s[lo + i] \in Values
    BY <2>4, <2>5
  <2>7. /\ SubSeq(s, lo + 1, lo + c) \in Seq(Values) /\ Len(SubSeq(s, lo + 1, lo + c)) = c
        /\ \A i \in 1..c : SubSeq(s, lo + 1, lo + c)[i] = s[lo + i]
    BY <2>2, <2>6, Slice
  <2>9. /\ Len(SubSeq(s, lo + 1, lo + c)) = Len(o)
        /\ \A i \in 1..c : SubSeq(s, lo + 1, lo + c)[i] = o[i]
    BY <2>2, <2>4, <2>7
  <2>10. SubSeq(s, lo + 1, lo + c) = o
    BY <2>2, <2>7, <2>9, SeqEqual
  <2>. QED BY <2>1, <2>3, <2>10
<1>. QED BY <1>1, <1>4, <1>5

\* The stack up to a marker is read as the segments below it.
LEMMA LaidCut ==
  ASSUME NEW s, NEW ks, NEW os, NEW rs, NEW m, Laid(s, ks, os, rs, m), NEW j \in 0..Len(ks)
  PROVE  Laid(SubSeq(s, 1, m[j + 1] - 1), SubSeq(ks, 1, j), SubSeq(os, 1, j), rs,
              [k \in 1..j + 1 |-> m[k]])
<1>1. PICK n, h, q, t, kt, ot, mt :
        /\ n = Len(ks) /\ h = Len(s) /\ q = m[j + 1] - 1 /\ t = SubSeq(s, 1, q)
        /\ kt = SubSeq(ks, 1, j) /\ ot = SubSeq(os, 1, j) /\ mt = [k \in 1..j + 1 |-> m[k]]
  OBVIOUS
<1>2. /\ s \in Seq(Entries) /\ ks \in Seq(MarkerKind) /\ os \in Seq(Seq(Values)) /\ rs \in Seq(Values)
      /\ n \in Nat /\ h \in Nat /\ j \in Nat /\ j <= n /\ Len(rs) \in Nat /\ Len(os) = n
      /\ \A k \in 1..n + 1 : m[k] \in Nat /\ m[k] \in 1..h + 1
      /\ \A k \in 1..n : os[k] \in Seq(Values) /\ Len(os[k]) \in Nat
  BY <1>1, LaidType
<1>3. /\ \A i \in 1..n + 1 : \A k \in 1..n + 1 : i < k => m[i] < m[k]
      /\ \A k \in 1..n : s[m[k]].marker = ks[k]
      /\ \A p \in Markers(s) : \E k \in 1..n : p = m[k]
  BY <1>1 DEF Laid, Marks
<1>4. /\ m[1] = Len(rs) + 1 /\ \A i \in 1..Len(rs) : s[i] = rs[i]
      /\ \A k \in 1..n : /\ m[k + 1] = m[k] + Len(os[k]) + 1
                         /\ \A i \in 1..Len(os[k]) : s[m[k] + i] = os[k][i]
  BY <1>1, <1>2 DEF Laid, Segments
<1>5. q \in 0..h /\ q + 1 = m[j + 1] /\ j + 1 \in 1..n + 1
  <2>1. j + 1 \in 1..n + 1
    BY <1>2
  <2>2. m[j + 1] \in Nat /\ m[j + 1] \in 1..h + 1
    BY <1>2, <2>1
  <2>. QED BY <1>1, <1>2, <2>1, <2>2
<1>6. t \in Seq(Entries) /\ Len(t) = q /\ \A i \in 1..q : t[i] = s[i]
  BY <1>1, <1>2, <1>5, SubSeqProperties
<1>7. kt \in Seq(MarkerKind) /\ Len(kt) = j /\ \A k \in 1..j : kt[k] = ks[k]
  BY <1>1, <1>2, SubSeqProperties
<1>8. ot \in Seq(Seq(Values)) /\ Len(ot) = j /\ \A k \in 1..j : ot[k] = os[k]
  BY <1>1, <1>2, SubSeqProperties
<1>9. \A k \in 1..j + 1 : mt[k] = m[k] /\ k \in 1..n + 1 /\ k \in Nat
  BY <1>1, <1>2
<1>10. \A k \in 1..j : k \in 1..n /\ k \in 1..j + 1 /\ k + 1 \in 1..j + 1 /\ m[k] <= q
  <2>. TAKE k \in 1..j
  <2>1. k \in 1..n /\ k \in 1..j + 1 /\ k + 1 \in 1..j + 1 /\ k < j + 1 /\ k \in 1..n + 1
    BY <1>2
  <2>2. m[k] < m[j + 1]
    BY <1>3, <1>5, <2>1
  <2>3. m[k] \in Nat /\ m[j + 1] \in Nat
    BY <1>2, <1>5, <2>1
  <2>. QED BY <1>5, <2>1, <2>2, <2>3
<1>11. Marks(t, kt, mt)
  <2>1. mt \in [1..j + 1 -> Nat \ {0}]
    BY <1>1, <1>2, <1>9
  <2>2. mt[j + 1] = Len(t) + 1
    BY <1>2, <1>5, <1>6, <1>9
  <2>3. \A i \in 1..j + 1 : \A k \in 1..j + 1 : i < k => mt[i] < mt[k]
    BY <1>3, <1>9
  <2>4. \A k \in 1..j : t[mt[k]].marker = kt[k]
    <3>. TAKE k \in 1..j
    <3>1. mt[k] = m[k] /\ m[k] \in 1..q /\ k \in 1..n
      BY <1>2, <1>5, <1>9, <1>10
    <3>. QED BY <1>3, <1>6, <1>7, <3>1
  <2>5. \A p \in Markers(t) : \E k \in 1..j : p = mt[k]
    <3>. TAKE p \in Markers(t)
    <3>1. p \in 1..q /\ IsMarker(t[p])
      BY <1>6 DEF Markers
    <3>2. p \in Markers(s)
      BY <1>1, <1>2, <1>5, <1>6, <3>1 DEF Markers
    <3>3. PICK k \in 1..n : p = m[k]
      BY <1>3, <3>2
    <3>4. k <= j
      <4>1. SUFFICES ASSUME j < k PROVE FALSE
        BY <1>2
      <4>2. k \in 1..n + 1 /\ (k = j + 1 \/ j + 1 < k)
        BY <1>2, <4>1
      <4>3. m[j + 1] <= m[k]
        BY <1>2, <1>3, <1>5, <4>2
      <4>. QED BY <1>2, <1>5, <3>1, <3>3, <4>2, <4>3
    <3>5. k \in 1..j /\ k \in 1..j + 1
      BY <1>2, <3>4
    <3>. QED BY <1>9, <3>3, <3>5
  <2>. QED BY <1>7, <2>1, <2>2, <2>3, <2>4, <2>5 DEF Marks
<1>12. Segments(t, ot, rs, mt)
  <2>1. 1 \in 1..j + 1 /\ mt[1] = m[1] /\ Len(rs) <= q
    <3>1. 1 \in 1..j + 1 /\ mt[1] = m[1]
      BY <1>2, <1>9
    <3>2. m[1] <= m[j + 1]
      <4>1. j = 0 \/ 1 < j + 1
        BY <1>2
      <4>2. 1 \in 1..n + 1 /\ m[1] \in Nat
        BY <1>2
      <4>. QED BY <1>2, <1>3, <1>5, <4>1, <4>2
    <3>. QED BY <1>2, <1>4, <1>5, <3>1, <3>2
  <2>2. \A i \in 1..Len(rs) : t[i] = rs[i]
    <3>. TAKE i \in 1..Len(rs)
    <3>1. i \in 1..q
      BY <1>2, <1>5, <2>1
    <3>. QED BY <1>4, <1>6, <3>1
  <2>3. ASSUME NEW k \in 1..j
        PROVE  /\ mt[k + 1] = mt[k] + Len(ot[k]) + 1
               /\ \A i \in 1..Len(ot[k]) : t[mt[k] + i] = ot[k][i]
    <3>1. /\ k \in 1..n /\ ot[k] = os[k] /\ mt[k] = m[k] /\ mt[k + 1] = m[k + 1]
          /\ k + 1 \in 1..j + 1 /\ k + 1 \in 1..n + 1
      BY <1>8, <1>9, <1>10
    <3>2. m[k + 1] = m[k] + Len(os[k]) + 1 /\ \A i \in 1..Len(os[k]) : s[m[k] + i] = os[k][i]
      BY <1>4, <3>1
    <3>3. m[k + 1] <= q + 1
      <4>1. k + 1 = j + 1 \/ k + 1 < j + 1
        BY <1>2
      <4>2. m[k + 1] \in Nat /\ m[j + 1] \in Nat
        BY <1>2, <1>5, <3>1
      <4>3. m[k + 1] <= m[j + 1]
        BY <1>3, <1>5, <3>1, <4>1, <4>2
      <4>. QED BY <1>5, <4>3
    <3>4. m[k] \in Nat /\ m[k] >= 1 /\ Len(os[k]) \in Nat
      BY <1>2, <3>1
    <3>5. \A i \in 1..Len(os[k]) : m[k] + i \in 1..q
      BY <1>5, <3>2, <3>3, <3>4
    <3>. QED BY <1>6, <3>1, <3>2, <3>5
  <2>. QED BY <1>4, <1>8, <2>1, <2>2, <2>3 DEF Segments
<1>13. Laid(t, kt, ot, rs, mt)
  BY <1>2, <1>6, <1>7, <1>8, <1>11, <1>12 DEF Laid
<1>. QED BY <1>1, <1>13

\* t is s up to position a, and above it the values vs.
OnTop(t, s, a, vs) ==
  /\ Len(t) = a + Len(vs)
  /\ \A i \in 1..a : t[i] = s[i]
  /\ \A i \in 1..Len(vs) : t[a + i] = vs[i]

\* The top segment replaced by other values.
LEMMA LaidTop ==
  ASSUME NEW s, NEW ks, NEW os, NEW rs, NEW m, Laid(s, ks, os, rs, m),
         NEW n, n = Len(ks), n # 0,
         NEW t \in Seq(Entries), NEW ops \in Seq(Values), OnTop(t, s, m[n], ops)
  PROVE  Laid(t, ks, [os EXCEPT ![n] = ops], rs, [m EXCEPT ![n + 1] = Len(t) + 1])
<1>1. PICK h, g, ot, mt : /\ h = Len(s) /\ g = Len(t) /\ ot = [os EXCEPT ![n] = ops]
                          /\ mt = [m EXCEPT ![n + 1] = g + 1]
  OBVIOUS
<1>2. /\ s \in Seq(Entries) /\ ks \in Seq(MarkerKind) /\ os \in Seq(Seq(Values)) /\ rs \in Seq(Values)
      /\ n \in Nat \ {0} /\ h \in Nat /\ Len(rs) \in Nat /\ Len(os) = n
      /\ \A k \in 1..n + 1 : m[k] \in Nat /\ m[k] \in 1..h + 1
      /\ \A k \in 1..n : os[k] \in Seq(Values) /\ Len(os[k]) \in Nat /\ m[k] \in 1..h /\ m[k] <= h
  BY <1>1, LaidType
<1>3. /\ m \in [1..n + 1 -> Nat \ {0}]
      /\ \A i \in 1..n + 1 : \A k \in 1..n + 1 : i < k => m[i] < m[k]
      /\ \A k \in 1..n : s[m[k]].marker = ks[k]
      /\ \A p \in Markers(s) : \E k \in 1..n : p = m[k]
  BY <1>1 DEF Laid, Marks
<1>4. /\ m[1] = Len(rs) + 1 /\ \A i \in 1..Len(rs) : s[i] = rs[i]
      /\ \A k \in 1..n : /\ m[k + 1] = m[k] + Len(os[k]) + 1
                         /\ \A i \in 1..Len(os[k]) : s[m[k] + i] = os[k][i]
  BY <1>1, <1>2 DEF Laid, Segments
<1>5. PICK a, c : a = m[n] /\ c = Len(ops)
  OBVIOUS
<1>6. a \in Nat /\ a >= 1 /\ a <= h /\ c \in Nat /\ g = a + c /\ g \in Nat /\ n \in 1..n /\ n \in 1..n + 1
  BY <1>1, <1>2, <1>5 DEF OnTop
<1>7. (\A i \in 1..a : t[i] = s[i]) /\ \A i \in 1..c : t[a + i] = ops[i]
  BY <1>5 DEF OnTop
<1>8. ot \in Seq(Seq(Values)) /\ Len(ot) = n /\ \A k \in 1..n : ot[k] = IF k = n THEN ops ELSE os[k]
  BY <1>1, <1>2, <1>6, ExceptSeq
<1>9. \A k \in 1..n : m[k] \in 1..a /\ m[k] <= a /\ (k # n => m[k] < a)
  <2>. TAKE k \in 1..n
  <2>1. k \in 1..n + 1 /\ (k = n \/ k < n) /\ m[k] \in Nat /\ m[k] >= 1
    BY <1>2
  <2>2. k < n => m[k] < a
    BY <1>3, <1>5, <1>6, <2>1
  <2>. QED BY <1>5, <1>6, <2>1, <2>2
<1>10. \A k \in 1..n : mt[k] = m[k] /\ mt[k] \in Nat \ {0} /\ k \in 1..n + 1 /\ k \in Nat
  <2>. TAKE k \in 1..n
  <2>1. k \in 1..n + 1 /\ k # n + 1 /\ k \in Nat
    BY <1>2
  <2>. QED BY <1>1, <1>3, <2>1
<1>11. mt[n + 1] = g + 1 /\ mt \in [1..n + 1 -> Nat \ {0}]
  <2>1. n + 1 \in 1..n + 1 /\ g + 1 \in Nat \ {0}
    BY <1>2, <1>6
  <2>. QED BY <1>1, <1>3, <2>1
<1>12. Marks(t, ks, mt)
  <2>1. ASSUME NEW i \in 1..n + 1, NEW k \in 1..n + 1, i < k PROVE mt[i] < mt[k]
    <3>1. i \in 1..n
      BY <1>2, <2>1
    <3>2. CASE k \in 1..n
      BY <1>3, <1>10, <2>1, <3>1, <3>2
    <3>3. CASE k = n + 1
      <4>1. mt[i] <= a /\ mt[i] \in Nat
        BY <1>9, <1>10, <3>1
      <4>. QED BY <1>6, <1>11, <3>3, <4>1
    <3>4. k \in 1..n \/ k = n + 1
      BY <1>2
    <3>. QED BY <3>2, <3>3, <3>4
  <2>2. \A k \in 1..n : t[mt[k]].marker = ks[k]
    BY <1>3, <1>7, <1>9, <1>10
  <2>3. ASSUME NEW p \in Markers(t) PROVE \E k \in 1..n : p = mt[k]
    <3>1. p \in 1..g /\ IsMarker(t[p])
      BY <1>1 DEF Markers
    <3>2. p <= a
      <4>1. SUFFICES ASSUME a < p PROVE FALSE
        BY <1>6, <3>1
      <4>2. p - a \in 1..c /\ a + (p - a) = p
        BY <1>6, <3>1, <4>1
      <4>3. t[p] \in Values
        BY <1>5, <1>7, <4>2, ElementOfSeq
      <4>. QED BY <3>1, <4>3 DEF Values, IsMarker
    <3>3. p \in 1..a /\ p \in 1..h
      <4>1. p \in Nat /\ p >= 1 /\ a \in Nat /\ h \in Nat
        BY <1>2, <1>6, <3>1
      <4>2. p <= a /\ p <= h
        BY <1>6, <3>2, <4>1
      <4>. QED BY <4>1, <4>2
    <3>4. p \in Markers(s)
      BY <1>1, <1>7, <3>1, <3>3 DEF Markers
    <3>. QED BY <1>3, <1>10, <3>4
  <2>. QED BY <1>1, <1>2, <1>11, <2>1, <2>2, <2>3 DEF Marks
<1>13. Segments(t, ot, rs, mt)
  <2>1. 1 \in 1..n /\ mt[1] = m[1] /\ Len(rs) <= a
    <3>1. 1 \in 1..n
      BY <1>2
    <3>2. m[1] <= a /\ m[1] \in Nat
      BY <1>9, <1>10, <3>1
    <3>. QED BY <1>2, <1>4, <1>6, <1>10, <3>1, <3>2
  <2>2. \A i \in 1..Len(rs) : t[i] = rs[i]
    <3>. TAKE i \in 1..Len(rs)
    <3>1. i \in 1..a
      BY <1>2, <1>6, <2>1
    <3>. QED BY <1>4, <1>7, <3>1
  <2>3. ASSUME NEW k \in 1..n
        PROVE  /\ mt[k + 1] = mt[k] + Len(ot[k]) + 1
               /\ \A i \in 1..Len(ot[k]) : t[mt[k] + i] = ot[k][i]
    <3>1. CASE k = n
      <4>1. mt[k] = a /\ mt[k + 1] = g + 1 /\ ot[k] = ops
        BY <1>5, <1>8, <1>10, <1>11, <3>1
      <4>. QED BY <1>5, <1>6, <1>7, <4>1
    <3>2. CASE k # n
      <4>1. k + 1 \in 1..n /\ k \in Nat
        BY <1>2, <3>2
      <4>2. mt[k] = m[k] /\ mt[k + 1] = m[k + 1] /\ ot[k] = os[k] /\ m[k + 1] <= a
        BY <1>8, <1>9, <1>10, <3>2, <4>1
      <4>3. m[k + 1] = m[k] + Len(os[k]) + 1 /\ \A i \in 1..Len(os[k]) : s[m[k] + i] = os[k][i]
        BY <1>4
      <4>4. m[k] \in Nat /\ m[k] >= 1 /\ Len(os[k]) \in Nat
        BY <1>2
      <4>5. \A i \in 1..Len(os[k]) : m[k] + i \in 1..a
        BY <1>6, <4>2, <4>3, <4>4
      <4>. QED BY <1>7, <4>2, <4>3, <4>5
    <3>. QED BY <3>1, <3>2
  <2>. QED BY <1>4, <1>8, <2>1, <2>2, <2>3 DEF Segments
<1>14. Laid(t, ks, ot, rs, mt)
  BY <1>2, <1>8, <1>12, <1>13 DEF Laid
<1>. QED BY <1>1, <1>14

\* The top segment is the top of the stack.
LEMMA LaidUpper ==
  ASSUME NEW s, NEW ks, NEW os, NEW rs, NEW m, Laid(s, ks, os, rs, m),
         NEW n, n = Len(ks), n # 0
  PROVE  /\ n \in 1..n /\ n \in Nat \ {0} /\ os[n] \in Seq(Values) /\ Len(os[n]) \in Nat
         /\ m[n] \in Nat /\ m[n] \in 1..Len(s) /\ Len(s) = m[n] + Len(os[n])
         /\ \A i \in 1..Len(os[n]) : s[m[n] + i] = os[n][i]
<1>1. n \in Nat \ {0} /\ n \in 1..n /\ Len(s) \in Nat /\ Len(os) = n
  BY LaidType
<1>2. os[n] \in Seq(Values) /\ Len(os[n]) \in Nat /\ m[n] \in Nat /\ m[n] \in 1..Len(s)
  BY <1>1, LaidType
<1>3. m[n + 1] = m[n] + Len(os[n]) + 1 /\ \A i \in 1..Len(os[n]) : s[m[n] + i] = os[n][i]
  BY <1>1 DEF Laid, Segments
<1>4. m[n + 1] = Len(s) + 1
  BY DEF Laid, Marks
<1>. QED BY <1>1, <1>2, <1>3, <1>4

LEMMA ValuesAreEntries ==
  ASSUME NEW vs \in Seq(Values)
  PROVE  vs \in Seq(Entries)
<1>1. Values \subseteq Entries
  BY DEF Entries
<1>. QED BY <1>1, SeqMonotonic

\* The d topmost entries are popped, and the values vs pushed.
Traded(s, d, vs) == Dropped(s, d) \o vs

LEMMA TradedType ==
  ASSUME NEW S, NEW s \in Seq(S), NEW d \in Nat, d <= Len(s), NEW vs \in Seq(S)
  PROVE  Traded(s, d, vs) \in Seq(S) /\ OnTop(Traded(s, d, vs), s, Len(s) - d, vs)
<1>1. /\ Dropped(s, d) \in Seq(S) /\ Len(Dropped(s, d)) = Len(s) - d
      /\ \A k \in 1..Len(s) - d : Dropped(s, d)[k] = s[k]
  BY DroppedType
<1>2. PICK e, v : e = Len(s) - d /\ v = Len(vs)
  OBVIOUS
<1>3. e \in Nat /\ v \in Nat
  BY <1>2
<1>4. PICK x \in Seq(S) : x = Dropped(s, d)
  BY <1>1
<1>5. Len(x) = e /\ \A k \in 1..e : x[k] = s[k]
  BY <1>1, <1>2, <1>4
<1>6. /\ x \o vs \in Seq(S) /\ Len(x \o vs) = Len(x) + Len(vs)
      /\ \A i \in 1..Len(x) + Len(vs) : (x \o vs)[i] = IF i <= Len(x) THEN x[i] ELSE vs[i - Len(x)]
  BY ConcatProperties
<1>7. PICK t \in Seq(S) : t = x \o vs
  BY <1>6
<1>8. /\ Len(t) = e + v
      /\ \A i \in 1..e + v : t[i] = IF i <= e THEN x[i] ELSE vs[i - e]
  BY <1>2, <1>5, <1>6, <1>7
<1>9. ASSUME NEW i \in 1..e PROVE t[i] = s[i]
  <2>1. i \in 1..e + v /\ i <= e
    BY <1>3
  <2>. QED BY <1>5, <1>8, <2>1
<1>10. ASSUME NEW i \in 1..v PROVE t[e + i] = vs[i]
  <2>1. PICK j : j = e + i
    OBVIOUS
  <2>2. j \in 1..e + v /\ ~(j <= e) /\ j - e = i
    BY <1>3, <2>1
  <2>3. t[j] = vs[j - e]
    BY <1>8, <2>2
  <2>. QED BY <2>1, <2>2, <2>3
<1>11. Traded(s, d, vs) = t
  BY <1>4, <1>7 DEF Traded
<1>. QED BY <1>2, <1>7, <1>8, <1>9, <1>10, <1>11 DEF OnTop

SameUpTo(x, y, n) == \A i \in 1..n : x[i] = y[i]

\* The operands of the topmost context are popped, and others pushed.
LEMMA LaidTraded ==
  ASSUME NEW s, NEW ks, NEW os, NEW rs, NEW m, Laid(s, ks, os, rs, m),
         NEW n, n = Len(ks), n # 0, NEW d \in Nat, d <= Len(os[n]), NEW vs \in Seq(Values)
  PROVE  /\ Traded(os[n], d, vs) \in Seq(Values) /\ SameUpTo(Traded(s, d, vs), s, m[n])
         /\ \E mt : /\ Laid(Traded(s, d, vs), ks, [os EXCEPT ![n] = Traded(os[n], d, vs)], rs, mt)
                    /\ SameUpTo(mt, m, n)
<1>1. PICK h, a, o, c, v : h = Len(s) /\ a = m[n] /\ o = os[n] /\ c = Len(os[n]) /\ v = Len(vs)
  OBVIOUS
<1>2. /\ s \in Seq(Entries) /\ o \in Seq(Values) /\ c \in Nat /\ c = Len(o) /\ a \in Nat /\ h = a + c
      /\ h \in Nat /\ d <= c /\ v \in Nat /\ \A i \in 1..c : s[a + i] = o[i]
  <2>1. /\ os[n] \in Seq(Values) /\ Len(os[n]) \in Nat /\ m[n] \in Nat /\ Len(s) = m[n] + Len(os[n])
        /\ \A i \in 1..Len(os[n]) : s[m[n] + i] = os[n][i]
    BY LaidUpper
  <2>2. s \in Seq(Entries)
    BY LaidType
  <2>. QED BY <1>1, <2>1, <2>2
<1>3. PICK t, ops : t = Traded(s, d, vs) /\ ops = Traded(o, d, vs)
  OBVIOUS
<1>4. d <= h /\ h - d = a + (c - d) /\ c - d \in Nat
  <2>1. a \in Nat /\ c \in Nat /\ h = a + c /\ d <= c
    BY <1>2
  <2>. QED BY <2>1
<1>5. vs \in Seq(Entries)
  BY ValuesAreEntries
<1>6. /\ t \in Seq(Entries) /\ Len(t) = h - d + v
      /\ (\A i \in 1..h - d : t[i] = s[i]) /\ \A i \in 1..v : t[h - d + i] = vs[i]
  <2>1. s \in Seq(Entries) /\ d <= Len(s)
    BY <1>1, <1>2, <1>4
  <2>2. Traded(s, d, vs) \in Seq(Entries) /\ OnTop(Traded(s, d, vs), s, Len(s) - d, vs)
    BY <1>5, <2>1, TradedType
  <2>. QED BY <1>1, <1>3, <2>2 DEF OnTop
<1>7. /\ ops \in Seq(Values) /\ Len(ops) = c - d + v
      /\ (\A i \in 1..c - d : ops[i] = o[i]) /\ \A i \in 1..v : ops[c - d + i] = vs[i]
  <2>1. o \in Seq(Values) /\ d <= Len(o)
    BY <1>2
  <2>2. Traded(o, d, vs) \in Seq(Values) /\ OnTop(Traded(o, d, vs), o, Len(o) - d, vs)
    BY <2>1, TradedType
  <2>. QED BY <1>1, <1>2, <1>3, <2>2 DEF OnTop
<1>8. Len(t) = a + Len(ops)
  <2>1. h - d + v = a + (c - d + v)
    BY <1>2
  <2>. QED BY <1>6, <1>7, <2>1
<1>9. \A i \in 1..a : t[i] = s[i]
  <2>1. \A i \in 1..a : i \in 1..h - d
    BY <1>2, <1>4
  <2>. QED BY <1>6, <2>1
<1>10. ASSUME NEW i \in 1..c - d + v PROVE t[a + i] = ops[i]
  <2>1. CASE i <= c - d
    <3>1. a + i \in 1..h - d /\ i \in 1..c - d /\ i \in 1..c
      BY <1>2, <1>4, <2>1
    <3>. QED BY <1>2, <1>6, <1>7, <3>1
  <2>2. CASE ~(i <= c - d)
    <3>1. PICK j : j = i - (c - d)
      OBVIOUS
    <3>2. j \in 1..v /\ a + i = h - d + j /\ i = c - d + j
      BY <1>2, <1>4, <2>2, <3>1
    <3>3. t[h - d + j] = vs[j] /\ ops[c - d + j] = vs[j]
      BY <1>6, <1>7, <3>2
    <3>. QED BY <3>2, <3>3
  <2>. QED BY <2>1, <2>2
<1>11. OnTop(t, s, m[n], ops)
  BY <1>1, <1>7, <1>8, <1>9, <1>10 DEF OnTop
<1>12. PICK mt : mt = [m EXCEPT ![n + 1] = Len(t) + 1]
  OBVIOUS
<1>13. Laid(t, ks, [os EXCEPT ![n] = ops], rs, mt)
  BY <1>6, <1>7, <1>11, <1>12, LaidTop
<1>14. SameUpTo(mt, m, n)
  <2>1. n \in Nat /\ m \in [1..n + 1 -> Nat \ {0}]
    BY LaidType DEF Laid, Marks
  <2>2. \A k \in 1..n : k \in 1..n + 1 /\ k # n + 1
    BY <2>1
  <2>3. \A k \in 1..n : mt[k] = m[k]
    BY <1>12, <2>1, <2>2
  <2>. QED BY <2>3 DEF SameUpTo
<1>15. SameUpTo(t, s, m[n])
  BY <1>1, <1>9 DEF SameUpTo
<1>16. t = Traded(s, d, vs) /\ ops = Traded(os[n], d, vs)
  BY <1>1, <1>3
<1>17. \E nt : Laid(t, ks, [os EXCEPT ![n] = ops], rs, nt) /\ SameUpTo(nt, m, n)
  BY <1>13, <1>14
<1>. QED BY <1>7, <1>15, <1>16, <1>17

\* Without markers the stack is values.
LEMMA LaidBare ==
  ASSUME NEW s, NEW ks, NEW os, NEW rs, NEW m, Laid(s, ks, os, rs, m), Len(ks) = 0
  PROVE  s = rs /\ os = << >>
<1>1. s \in Seq(Entries) /\ rs \in Seq(Values) /\ os \in Seq(Seq(Values)) /\ Len(os) = 0
  BY LaidType
<1>2. m[1] = Len(s) + 1 /\ m[1] = Len(rs) + 1
  BY DEF Laid, Marks, Segments
<1>3. \A i \in 1..Len(rs) : s[i] = rs[i]
  BY DEF Laid, Segments
<1>4. Len(s) = Len(rs) /\ rs \in Seq(Entries)
  BY <1>1, <1>2, ValuesAreEntries
<1>5. s = rs
  BY <1>1, <1>3, <1>4, SeqEqual
<1>. QED BY <1>1, <1>5, EmptySeq

LEMMA BareReads ==
  ASSUME NEW vs \in Seq(Values)
  PROVE  Reads(vs, << >>, << >>, vs)
<1>. DEFINE m == [k \in 1..1 |-> Len(vs) + 1]
<1>1. vs \in Seq(Entries) /\ Len(vs) \in Nat
  BY ValuesAreEntries
<1>2. Markers(vs) = {}
  <2>1. ASSUME NEW p \in 1..Len(vs) PROVE ~IsMarker(vs[p])
    <3>1. vs[p] \in Values
      BY ElementOfSeq
    <3>. QED BY <3>1 DEF Values, IsMarker
  <2>. QED BY <2>1 DEF Markers
<1>3. Marks(vs, << >>, m)
  <2>1. m \in [1..Len(<< >>) + 1 -> Nat \ {0}] /\ m[Len(<< >>) + 1] = Len(vs) + 1
    BY <1>1
  <2>2. \A i \in 1..Len(<< >>) + 1 : \A j \in 1..Len(<< >>) + 1 : ~(i < j)
    OBVIOUS
  <2>. QED BY <1>2, <2>1, <2>2 DEF Marks
<1>4. Segments(vs, << >>, vs, m)
  BY DEF Segments
<1>5. Laid(vs, << >>, << >>, vs, m)
  BY <1>1, <1>3, <1>4 DEF Laid
<1>. QED BY <1>5 DEF Reads

\* Popping operands of the topmost context alone does not move the markers.
LEMMA LaidDropped ==
  ASSUME NEW s, NEW ks, NEW os, NEW rs, NEW m, Laid(s, ks, os, rs, m),
         NEW n, n = Len(ks), n # 0, NEW d \in Nat, d <= Len(os[n])
  PROVE  \E ot, mt : /\ Laid(Dropped(s, d), ks, ot, rs, mt) /\ SameUpTo(mt, m, n)
                     /\ SameUpTo(Dropped(s, d), s, m[n])
<1>1. PICK vs \in Seq(Values) : vs = << >>
  <2>1. << >> \in Seq(Values)
    OBVIOUS
  <2>. QED BY <2>1
<1>2. SameUpTo(Traded(s, d, vs), s, m[n])
  BY LaidTraded
<1>3. \E mt : /\ Laid(Traded(s, d, vs), ks, [os EXCEPT ![n] = Traded(os[n], d, vs)], rs, mt)
              /\ SameUpTo(mt, m, n)
  BY LaidTraded
<1>4. Traded(s, d, vs) = Dropped(s, d)
  <2>1. s \in Seq(Entries) /\ d <= Len(s)
    <3>1. m[n] \in Nat /\ Len(os[n]) \in Nat /\ Len(s) = m[n] + Len(os[n])
      BY LaidUpper
    <3>2. d <= Len(s)
      BY <3>1
    <3>. QED BY <3>2, LaidType
  <2>2. Dropped(s, d) \in Seq(Entries)
    BY <2>1, DroppedType
  <2>. QED BY <1>1, <2>2, ConcatEmptySeq DEF Traded
<1>. QED BY <1>2, <1>3, <1>4

\* What is popped down to the marker of context a.
LEMMA SameBelow ==
  ASSUME NEW s \in Seq(Entries), NEW t \in Seq(Entries), NEW a \in Nat, a <= Len(s), a <= Len(t),
         SameUpTo(t, s, a), NEW q \in 0..a
  PROVE  SubSeq(t, 1, q) = SubSeq(s, 1, q)
<1>1. q \in 0..Len(s) /\ q \in 0..Len(t)
  OBVIOUS
<1>2. /\ SubSeq(s, 1, q) \in Seq(Entries) /\ Len(SubSeq(s, 1, q)) = q
      /\ \A i \in 1..q : SubSeq(s, 1, q)[i] = s[i]
  BY <1>1, SubSeqProperties
<1>3. /\ SubSeq(t, 1, q) \in Seq(Entries) /\ Len(SubSeq(t, 1, q)) = q
      /\ \A i \in 1..q : SubSeq(t, 1, q)[i] = t[i]
  BY <1>1, SubSeqProperties
<1>4. \A i \in 1..q : SubSeq(t, 1, q)[i] = SubSeq(s, 1, q)[i]
  <2>. TAKE i \in 1..q
  <2>1. t[i] = s[i]
    BY DEF SameUpTo
  <2>. QED BY <1>2, <1>3, <2>1
<1>. QED BY <1>2, <1>3, <1>4, SeqEqual

LEMMA LaidBelowMarkers ==
  ASSUME NEW s, NEW ks, NEW os, NEW rs, NEW m, Laid(s, ks, os, rs, m),
         NEW n, n = Len(ks), n # 0, NEW d \in Nat, d <= Len(os[n]), NEW a \in 1..n
  PROVE  /\ MarkerCount(Dropped(s, d)) = n
         /\ BelowMarkers(Dropped(s, d), n - a + 1) = SubSeq(s, 1, m[a] - 1)
<1>1. PICK t : t = Dropped(s, d)
  OBVIOUS
<1>2. PICK ot, mt : Laid(t, ks, ot, rs, mt) /\ SameUpTo(mt, m, n) /\ SameUpTo(t, s, m[n])
  BY <1>1, LaidDropped
<1>3. MarkerCount(t) = n /\ MarkerPos(t, a) = m[a]
  <2>1. MarkerCount(t) = Len(ks) /\ \A k \in 1..Len(ks) : MarkerPos(t, k) = mt[k]
    BY <1>2, LaidMarkers
  <2>. QED BY <1>2, <2>1 DEF SameUpTo
<1>4. s \in Seq(Entries) /\ t \in Seq(Entries) /\ n \in Nat /\ n \in 1..n
  <2>1. s \in Seq(Entries) /\ n \in Nat
    BY LaidType
  <2>2. t \in Seq(Entries)
    BY <1>2, LaidType
  <2>. QED BY <2>1, <2>2
<1>5. m[n] \in Nat /\ m[n] <= Len(s) /\ m[n] <= Len(t)
  <2>1. m[n] \in 1..Len(s) /\ m[n] \in Nat /\ m[n] <= Len(s)
    BY <1>4, LaidType
  <2>2. mt[n] <= Len(t)
    BY <1>2, <1>4, LaidType
  <2>. QED BY <1>2, <1>4, <2>1, <2>2 DEF SameUpTo
<1>6. m[a] - 1 \in 0..m[n]
  <2>1. m[a] \in Nat /\ m[a] \in 1..Len(s)
    BY LaidType
  <2>2. a \in 1..n + 1 /\ n \in 1..n + 1 /\ (a = n \/ a < n)
    BY <1>4
  <2>3. m[a] <= m[n]
    <3>1. a < n => m[a] < m[n]
      BY <2>2 DEF Laid, Marks
    <3>. QED BY <1>5, <2>1, <2>2, <3>1
  <2>. QED BY <1>4, <1>5, <2>1, <2>3
<1>7. n - (n - a + 1) + 1 = a
  BY <1>4
<1>8. BelowMarkers(t, n - a + 1) = SubSeq(t, 1, m[a] - 1)
  BY <1>3, <1>7 DEF BelowMarkers
<1>9. SubSeq(t, 1, m[a] - 1) = SubSeq(s, 1, m[a] - 1)
  BY <1>2, <1>4, <1>5, <1>6, SameBelow
<1>. QED BY <1>1, <1>3, <1>8, <1>9

LEMMA LaidBelowTopmost ==
  ASSUME NEW s, NEW ks, NEW os, NEW rs, NEW m, Laid(s, ks, os, rs, m),
         NEW n, n = Len(ks), n # 0, NEW d \in Nat, d <= Len(os[n]), NEW a \in 1..n,
         NEW x, ks[a] = x, \A k \in a + 1..n : ks[k] # x
  PROVE  /\ HasMarker(Dropped(s, d), x)
         /\ Topmost(Dropped(s, d), x) = m[a]
         /\ BelowTopmost(Dropped(s, d), x) = SubSeq(s, 1, m[a] - 1)
<1>1. PICK t : t = Dropped(s, d)
  OBVIOUS
<1>2. PICK ot, mt : Laid(t, ks, ot, rs, mt) /\ SameUpTo(mt, m, n) /\ SameUpTo(t, s, m[n])
  BY <1>1, LaidDropped
<1>3. n \in Nat /\ ks \in Seq(MarkerKind) /\ t \in Seq(Entries) /\ x \in MarkerKind
  <2>1. n \in Nat /\ ks \in Seq(MarkerKind)
    BY LaidType
  <2>2. ks[a] \in MarkerKind
    BY <2>1, ElementOfSeq
  <2>3. t \in Seq(Entries)
    BY <1>2, LaidType
  <2>. QED BY <2>1, <2>2, <2>3
<1>4. /\ \A k \in 1..n : t[m[k]].marker = ks[k] /\ m[k] \in 1..Len(t) /\ m[k] \in Nat
      /\ \A p \in Markers(t) : \E k \in 1..n : p = m[k]
  <2>1. /\ \A k \in 1..n : t[mt[k]].marker = ks[k]
        /\ \A p \in Markers(t) : \E k \in 1..n : p = mt[k]
    BY <1>2 DEF Laid, Marks
  <2>2. \A k \in 1..n : mt[k] \in 1..Len(t)
    BY <1>2, LaidType
  <2>3. \A k \in 1..n : mt[k] = m[k]
    BY <1>2 DEF SameUpTo
  <2>4. \A k \in 1..n : m[k] \in 1..Len(t) /\ m[k] \in Nat
    BY <2>2, <2>3
  <2>5. \A k \in 1..n : t[m[k]].marker = ks[k]
    BY <2>1, <2>3
  <2>6. ASSUME NEW p \in Markers(t) PROVE \E k \in 1..n : p = m[k]
    BY <2>1, <2>3
  <2>. QED BY <2>4, <2>5, <2>6
<1>5. HasMarker(t, x)
  BY <1>4 DEF HasMarker
<1>6. PICK p : p = Topmost(t, x)
  OBVIOUS
<1>7. p \in 1..Len(t) /\ t[p].marker = x /\ \A q \in p + 1..Len(t) : t[q].marker # x
  BY <1>3, <1>5, <1>6, TopmostType
<1>8. p = m[a]
  <2>1. p \in Markers(t)
    BY <1>3, <1>7 DEF Markers, IsMarker, MarkerKind
  <2>2. PICK k \in 1..n : p = m[k]
    BY <1>4, <2>1
  <2>3. ks[k] = x
    BY <1>4, <1>7, <2>2
  <2>4. k <= a
    <3>1. SUFFICES ASSUME a < k PROVE FALSE
      BY <1>3
    <3>2. k \in a + 1..n
      BY <1>3, <3>1
    <3>. QED BY <2>3, <3>2
  <2>5. CASE k = a
    BY <2>2, <2>5
  <2>6. CASE k < a
    <3>1. m[k] < m[a]
      <4>1. k \in 1..n + 1 /\ a \in 1..n + 1
        BY <1>3
      <4>. QED BY <2>6, <4>1 DEF Laid, Marks
    <3>2. m[a] \in 1..Len(t) /\ m[k] \in Nat /\ m[a] \in Nat
      BY <1>4
    <3>3. m[a] \in p + 1..Len(t)
      BY <1>7, <2>2, <3>1, <3>2
    <3>. QED BY <1>4, <1>7, <3>3
  <2>. QED BY <1>3, <2>4, <2>5, <2>6
<1>9. SubSeq(t, 1, m[a] - 1) = SubSeq(s, 1, m[a] - 1)
  <2>1. m[a] - 1 \in 0..m[n] /\ m[n] \in Nat /\ n \in 1..n
    <3>1. n \in 1..n /\ m[a] \in 1..Len(t) /\ m[n] \in 1..Len(t) /\ m[a] \in Nat /\ m[n] \in Nat
      BY <1>3, <1>4
    <3>2. a \in 1..n + 1 /\ n \in 1..n + 1 /\ (a = n \/ a < n)
      BY <1>3
    <3>3. m[a] <= m[n]
      <4>1. a < n => m[a] < m[n]
        BY <3>2 DEF Laid, Marks
      <4>. QED BY <3>1, <3>2, <4>1
    <3>. QED BY <3>1, <3>3
  <2>2. s \in Seq(Entries) /\ m[n] <= Len(s) /\ m[n] <= Len(t)
    <3>1. m[n] \in 1..Len(t)
      BY <1>4, <2>1
    <3>2. s \in Seq(Entries) /\ m[n] <= Len(s)
      BY <2>1, LaidType
    <3>. QED BY <1>3, <3>1, <3>2
  <2>3. PICK q, b : q = m[a] - 1 /\ b = m[n]
    OBVIOUS
  <2>4. /\ s \in Seq(Entries) /\ t \in Seq(Entries) /\ b \in Nat /\ b <= Len(s) /\ b <= Len(t)
        /\ SameUpTo(t, s, b) /\ q \in 0..b
    BY <1>2, <1>3, <2>1, <2>2, <2>3
  <2>5. SubSeq(t, 1, q) = SubSeq(s, 1, q)
    BY <2>4, SameBelow
  <2>. QED BY <2>3, <2>5
<1>. QED BY <1>1, <1>5, <1>6, <1>8, <1>9 DEF BelowTopmost

----------------------------------------------------------------------------
(* What popping and pushing does to the contexts that are read *)

LEMMA ReadsType ==
  ASSUME NEW s, NEW ks, NEW os, NEW rs, Reads(s, ks, os, rs)
  PROVE  /\ s \in Seq(Entries) /\ ks \in Seq(MarkerKind) /\ rs \in Seq(Values)
         /\ os \in Seq(Seq(Values)) /\ Len(os) = Len(ks) /\ Len(ks) \in Nat
         /\ \A k \in 1..Len(ks) : os[k] \in Seq(Values) /\ Len(os[k]) \in Nat
<1>1. PICK m : Laid(s, ks, os, rs, m)
  BY DEF Reads
<1>. QED BY <1>1, LaidType

LEMMA ReadsMarkers ==
  ASSUME NEW s, NEW ks, NEW os, NEW rs, Reads(s, ks, os, rs)
  PROVE  /\ MarkerCount(s) = Len(ks)
         /\ \A k \in 1..Len(ks) :
              /\ s[MarkerPos(s, k)].marker = ks[k]
              /\ k = Len(ks) => SubSeq(s, MarkerPos(s, k) + 1, Len(s) + 1 - 1) = os[k]
              /\ k # Len(ks) => SubSeq(s, MarkerPos(s, k) + 1, MarkerPos(s, k + 1) - 1) = os[k]
         /\ Len(ks) # 0 => SubSeq(s, 1, MarkerPos(s, 1) - 1) = rs
         /\ Len(ks) = 0 => s = rs
<1>1. PICK m : Laid(s, ks, os, rs, m)
  BY DEF Reads
<1>2. PICK n : n = Len(ks)
  OBVIOUS
<1>3. n \in Nat /\ MarkerCount(s) = n /\ \A k \in 1..n : MarkerPos(s, k) = m[k]
  BY <1>1, <1>2, LaidType, LaidMarkers
<1>4. /\ SubSeq(s, 1, m[1] - 1) = rs
      /\ \A k \in 1..n : SubSeq(s, m[k] + 1, m[k + 1] - 1) = os[k]
  BY <1>1, <1>2, LaidSegments
<1>5. m[n + 1] = Len(s) + 1 /\ \A k \in 1..n : s[m[k]].marker = ks[k]
  BY <1>1, <1>2 DEF Laid, Marks
<1>6. ASSUME NEW k \in 1..n
      PROVE  /\ s[MarkerPos(s, k)].marker = ks[k]
             /\ k = n => SubSeq(s, MarkerPos(s, k) + 1, Len(s) + 1 - 1) = os[k]
             /\ k # n => SubSeq(s, MarkerPos(s, k) + 1, MarkerPos(s, k + 1) - 1) = os[k]
  <2>1. MarkerPos(s, k) = m[k] /\ s[m[k]].marker = ks[k] /\ SubSeq(s, m[k] + 1, m[k + 1] - 1) = os[k]
    BY <1>3, <1>4, <1>5
  <2>2. k # n => MarkerPos(s, k + 1) = m[k + 1]
    <3>1. k # n => k + 1 \in 1..n
      BY <1>3
    <3>. QED BY <1>3, <3>1
  <2>3. k = n => m[k + 1] = Len(s) + 1
    BY <1>5
  <2>. QED BY <2>1, <2>2, <2>3
<1>7. n # 0 => MarkerPos(s, 1) = m[1]
  <2>1. n # 0 => 1 \in 1..n
    BY <1>3
  <2>. QED BY <1>3, <2>1
<1>8. n = 0 => s = rs
  BY <1>1, <1>2, LaidBare
<1>. QED BY <1>2, <1>3, <1>4, <1>6, <1>7, <1>8

\* The topmost context's operands are the topmost entries.
LEMMA ReadsTop ==
  ASSUME NEW s, NEW ks, NEW os, NEW rs, Reads(s, ks, os, rs), NEW n, n = Len(ks), n # 0
  PROVE  /\ n \in Nat \ {0} /\ n \in 1..n /\ os[n] \in Seq(Values) /\ Len(os[n]) \in Nat
         /\ s \in Seq(Entries) /\ Len(os[n]) < Len(s)
         /\ \A k \in 1..Len(os[n]) : Popped(s, k) = Popped(os[n], k)
<1>1. PICK m : Laid(s, ks, os, rs, m)
  BY DEF Reads
<1>2. PICK o, c, h, a : o = os[n] /\ c = Len(os[n]) /\ h = Len(s) /\ a = m[n]
  OBVIOUS
<1>3. /\ n \in 1..n /\ n \in Nat \ {0} /\ o \in Seq(Values) /\ c \in Nat
      /\ a \in Nat /\ a >= 1 /\ h = a + c /\ \A i \in 1..c : s[a + i] = o[i]
  <2>1. /\ n \in 1..n /\ n \in Nat \ {0} /\ os[n] \in Seq(Values) /\ Len(os[n]) \in Nat
        /\ m[n] \in Nat /\ m[n] \in 1..Len(s) /\ Len(s) = m[n] + Len(os[n])
        /\ \A i \in 1..Len(os[n]) : s[m[n] + i] = os[n][i]
    BY <1>1, LaidUpper
  <2>. QED BY <1>2, <2>1
<1>4. s \in Seq(Entries) /\ c < h
  BY <1>1, <1>2, <1>3, LaidType
<1>5. ASSUME NEW k \in 1..c PROVE Popped(s, k) = Popped(o, k)
  <2>1. PICK i : i = c - k + 1
    OBVIOUS
  <2>2. i \in 1..c /\ h - k + 1 = a + i
    BY <1>3, <2>1
  <2>3. s[h - k + 1] = o[c - k + 1]
    BY <1>3, <2>1, <2>2
  <2>. QED BY <1>2, <2>3 DEF Popped
<1>. QED BY <1>2, <1>3, <1>4, <1>5

LEMMA ReadsKept ==
  ASSUME NEW s, NEW ks, NEW os, NEW rs, Reads(s, ks, os, rs), NEW n, n = Len(ks), n # 0,
         NEW c \in Nat, c <= Len(os[n])
  PROVE  Kept(s, c) = Kept(os[n], c) /\ Kept(s, c) \in Seq(Values) /\ c <= Len(s)
<1>1. PICK o, h, l : o = os[n] /\ h = Len(s) /\ l = Len(os[n])
  OBVIOUS
<1>2. /\ o \in Seq(Values) /\ l \in Nat /\ l = Len(o) /\ s \in Seq(Entries) /\ l < h /\ h \in Nat /\ c <= l
      /\ \A k \in 1..l : Popped(s, k) = Popped(o, k)
  BY <1>1, ReadsTop
<1>3. c <= Len(s) /\ c <= Len(o)
  BY <1>1, <1>2
<1>4. /\ Kept(s, c) \in Seq(Entries) /\ Len(Kept(s, c)) = c
      /\ \A k \in 1..c : Kept(s, c)[k] = s[Len(s) - c + k]
  BY <1>2, <1>3, KeptType
<1>5. /\ Kept(o, c) \in Seq(Values) /\ Len(Kept(o, c)) = c
      /\ \A k \in 1..c : Kept(o, c)[k] = o[Len(o) - c + k]
  BY <1>2, <1>3, KeptType
<1>6. ASSUME NEW k \in 1..c PROVE s[h - c + k] = o[l - c + k]
  <2>1. PICK j : j = c - k + 1
    OBVIOUS
  <2>2. j \in 1..l /\ h - j + 1 = h - c + k /\ l - j + 1 = l - c + k
    BY <1>2, <2>1
  <2>3. Popped(s, j) = Popped(o, j)
    BY <1>2, <2>2
  <2>4. s[h - j + 1] = o[l - j + 1]
    BY <1>1, <1>2, <2>3 DEF Popped
  <2>. QED BY <2>2, <2>4
<1>7. \A k \in 1..c : Kept(s, c)[k] = Kept(o, c)[k]
  BY <1>1, <1>2, <1>4, <1>5, <1>6
<1>8. Kept(o, c) \in Seq(Entries)
  BY <1>5, ValuesAreEntries
<1>9. Kept(s, c) = Kept(o, c)
  BY <1>4, <1>5, <1>7, <1>8, SeqEqual
<1>. QED BY <1>1, <1>3, <1>5, <1>9

\* What can be popped off the operands of the topmost context, can be popped off the stack.
LEMMA ReadsHolds ==
  ASSUME NEW s, NEW ks, NEW os, NEW rs, Reads(s, ks, os, rs), NEW n, n = Len(ks), n # 0,
         NEW ts \in Seq(AnyType), Holds(os[n], ts)
  PROVE  Holds(s, ts) /\ Len(ts) \in Nat /\ Len(ts) <= Len(os[n])
<1>1. PICK o, h, l, c : o = os[n] /\ h = Len(s) /\ l = Len(os[n]) /\ c = Len(ts)
  OBVIOUS
<1>2. /\ o \in Seq(Values) /\ l \in Nat /\ s \in Seq(Entries) /\ l < h /\ h \in Nat /\ c \in Nat
      /\ \A k \in 1..l : Popped(s, k) = Popped(o, k)
  BY <1>1, ReadsTop
<1>3. c <= l /\ \A k \in 1..c : ~IsMarker(o[l - c + k]) /\ o[l - c + k].valtype = ts[k]
  BY <1>1, <1>2 DEF Holds
<1>4. ASSUME NEW k \in 1..c PROVE s[h - c + k] = o[l - c + k]
  <2>1. PICK j : j = c - k + 1
    OBVIOUS
  <2>2. j \in 1..l /\ h - j + 1 = h - c + k /\ l - j + 1 = l - c + k
    BY <1>2, <1>3, <2>1
  <2>3. Popped(s, j) = Popped(o, j)
    BY <1>2, <2>2
  <2>4. s[h - j + 1] = o[l - j + 1]
    BY <1>1, <1>2, <2>3 DEF Popped
  <2>. QED BY <2>2, <2>4
<1>5. ASSUME NEW k \in 1..c PROVE ~IsMarker(s[h - c + k]) /\ s[h - c + k].valtype = ts[k]
  <2>1. ~IsMarker(o[l - c + k]) /\ o[l - c + k].valtype = ts[k]
    BY <1>3
  <2>. QED BY <1>4, <2>1
<1>6. Holds(s, ts)
  <2>1. c <= h
    BY <1>2, <1>3
  <2>. QED BY <1>1, <1>5, <2>1 DEF Holds
<1>. QED BY <1>1, <1>2, <1>3, <1>6

LEMMA DroppedNone ==
  ASSUME NEW S, NEW s \in Seq(S)
  PROVE  Dropped(s, 0) = s
<1>1. 0 <= Len(s) /\ 0 \in Nat /\ Len(s) - 0 = Len(s)
  OBVIOUS
<1>2. /\ Dropped(s, 0) \in Seq(S) /\ Len(Dropped(s, 0)) = Len(s) - 0
      /\ \A k \in 1..Len(s) - 0 : Dropped(s, 0)[k] = s[k]
  BY <1>1, DroppedType
<1>. QED BY <1>1, <1>2, SeqEqual

LEMMA ReadsTraded ==
  ASSUME NEW s, NEW ks, NEW os, NEW rs, Reads(s, ks, os, rs), NEW n, n = Len(ks), n # 0,
         NEW d \in Nat, d <= Len(os[n]), NEW vs \in Seq(Values)
  PROVE  /\ Reads(Traded(s, d, vs), ks, [os EXCEPT ![n] = Traded(os[n], d, vs)], rs)
         /\ Traded(os[n], d, vs) \in Seq(Values)
<1>1. PICK m : Laid(s, ks, os, rs, m)
  BY DEF Reads
<1>2. Traded(os[n], d, vs) \in Seq(Values)
  BY <1>1, LaidTraded
<1>3. \E mt : /\ Laid(Traded(s, d, vs), ks, [os EXCEPT ![n] = Traded(os[n], d, vs)], rs, mt)
              /\ SameUpTo(mt, m, n)
  BY <1>1, LaidTraded
<1>. QED BY <1>2, <1>3 DEF Reads

\* Values are pushed.
LEMMA ReadsPushed ==
  ASSUME NEW s, NEW ks, NEW os, NEW rs, Reads(s, ks, os, rs), NEW vs \in Seq(Values),
         NEW n, n = Len(ks)
  PROVE  /\ n # 0 => Reads(s \o vs, ks, [os EXCEPT ![n] = os[n] \o vs], rs) /\ os[n] \o vs \in Seq(Values)
         /\ n = 0 => Reads(s \o vs, ks, os, rs \o vs)
<1>1. s \in Seq(Entries) /\ rs \in Seq(Values) /\ ks \in Seq(MarkerKind)
  BY ReadsType
<1>2. CASE n # 0
  <2>1. os[n] \in Seq(Values) /\ Len(os[n]) \in Nat
    BY <1>2, ReadsTop
  <2>2. PICK d \in Nat : d = 0
    OBVIOUS
  <2>3. d <= Len(os[n])
    BY <2>1, <2>2
  <2>4. /\ Reads(Traded(s, d, vs), ks, [os EXCEPT ![n] = Traded(os[n], d, vs)], rs)
        /\ Traded(os[n], d, vs) \in Seq(Values)
    BY <1>2, <2>3, ReadsTraded
  <2>5. Traded(s, d, vs) = s \o vs
    BY <1>1, <2>2, DroppedNone DEF Traded
  <2>6. Traded(os[n], d, vs) = os[n] \o vs
    BY <2>1, <2>2, DroppedNone DEF Traded
  <2>. QED BY <1>2, <2>4, <2>5, <2>6
<1>3. CASE n = 0
  <2>1. s = rs /\ os = << >> /\ ks = << >>
    <3>1. PICK m : Laid(s, ks, os, rs, m)
      BY DEF Reads
    <3>2. s = rs /\ os = << >>
      BY <1>3, <3>1, LaidBare
    <3>. QED BY <1>1, <1>3, <3>2, EmptySeq
  <2>2. rs \o vs \in Seq(Values)
    BY <1>1, ConcatProperties
  <2>3. Reads(rs \o vs, << >>, << >>, rs \o vs)
    BY <2>2, BareReads
  <2>. QED BY <1>3, <2>1, <2>3
<1>. QED BY <1>2, <1>3

\* A marker is pushed: a context with no operands yet.
LEMMA ReadsMarked ==
  ASSUME NEW s, NEW ks, NEW os, NEW rs, Reads(s, ks, os, rs), NEW e \in {LabelMarker, FuncMarker}
  PROVE  Reads(Append(s, e), Append(ks, e.marker), Append(os, << >>), rs)
<1>1. PICK m : Laid(s, ks, os, rs, m)
  BY DEF Reads
<1>2. PICK n, h, t, kt, ot, mt :
        /\ n = Len(ks) /\ h = Len(s) /\ t = Append(s, e) /\ kt = Append(ks, e.marker)
        /\ ot = Append(os, << >>) /\ mt = Append([k \in 1..n + 1 |-> m[k]], h + 2)
  OBVIOUS
<1>3. /\ s \in Seq(Entries) /\ ks \in Seq(MarkerKind) /\ os \in Seq(Seq(Values)) /\ rs \in Seq(Values)
      /\ n \in Nat /\ h \in Nat /\ Len(rs) \in Nat /\ Len(os) = n
      /\ \A k \in 1..n + 1 : m[k] \in Nat /\ m[k] \in 1..h + 1
      /\ \A k \in 1..n : os[k] \in Seq(Values) /\ Len(os[k]) \in Nat /\ m[k] \in 1..h
  BY <1>1, <1>2, LaidType
<1>4. /\ \A i \in 1..n + 1 : \A k \in 1..n + 1 : i < k => m[i] < m[k]
      /\ \A k \in 1..n : s[m[k]].marker = ks[k]
      /\ \A p \in Markers(s) : \E k \in 1..n : p = m[k]
      /\ m[n + 1] = h + 1
  BY <1>1, <1>2 DEF Laid, Marks
<1>5. /\ m[1] = Len(rs) + 1 /\ \A i \in 1..Len(rs) : s[i] = rs[i]
      /\ \A k \in 1..n : /\ m[k + 1] = m[k] + Len(os[k]) + 1
                         /\ \A i \in 1..Len(os[k]) : s[m[k] + i] = os[k][i]
  BY <1>1, <1>2, <1>3 DEF Laid, Segments
<1>6. /\ e \in Entries /\ IsMarker(e) /\ e.marker \in MarkerKind
  BY DEF Entries, IsMarker, MarkerKind, LabelMarker, FuncMarker
<1>7. t \in Seq(Entries) /\ Len(t) = h + 1 /\ t[h + 1] = e /\ \A i \in 1..h : t[i] = s[i]
  BY <1>2, <1>3, <1>6, AppendProperties
<1>8. kt \in Seq(MarkerKind) /\ Len(kt) = n + 1 /\ kt[n + 1] = e.marker /\ \A k \in 1..n : kt[k] = ks[k]
  BY <1>2, <1>3, <1>6, AppendProperties
<1>9. ot \in Seq(Seq(Values)) /\ Len(ot) = n + 1 /\ ot[n + 1] = << >> /\ \A k \in 1..n : ot[k] = os[k]
  <2>1. << >> \in Seq(Values)
    OBVIOUS
  <2>. QED BY <1>2, <1>3, <2>1, AppendProperties
<1>10. /\ mt \in [1..n + 1 + 1 -> Nat \ {0}] /\ mt[n + 1 + 1] = h + 2
       /\ \A k \in 1..n + 1 : mt[k] = m[k]
  <2>1. PICK r : r = [k \in 1..n + 1 |-> m[k]]
    OBVIOUS
  <2>2. r \in [1..n + 1 -> Nat \ {0}] /\ n + 1 \in Nat
    BY <1>3, <2>1
  <2>3. r \in Seq(Nat \ {0}) /\ Len(r) = n + 1
    BY <2>2
  <2>4. h + 2 \in Nat \ {0}
    BY <1>3
  <2>5. /\ mt \in Seq(Nat \ {0}) /\ Len(mt) = n + 1 + 1 /\ mt[n + 1 + 1] = h + 2
        /\ \A k \in 1..n + 1 : mt[k] = r[k]
    BY <1>2, <2>1, <2>3, <2>4, AppendProperties
  <2>6. mt \in [1..n + 1 + 1 -> Nat \ {0}]
    BY <2>5
  <2>. QED BY <2>1, <2>5, <2>6
<1>11. \A k \in 1..n + 1 + 1 : k \in 1..n + 1 \/ k = n + 1 + 1
  BY <1>3
<1>12. \A k \in 1..n + 1 : k \in Nat /\ (k \in 1..n \/ k = n + 1)
  BY <1>3
<1>13. mt[n + 1] = h + 1
  <2>1. n + 1 \in 1..n + 1
    BY <1>3
  <2>. QED BY <1>4, <1>10, <2>1
<1>14. Marks(t, kt, mt)
  <2>1. ASSUME NEW i \in 1..n + 1 + 1, NEW k \in 1..n + 1 + 1, i < k PROVE mt[i] < mt[k]
    <3>1. i \in 1..n + 1
      BY <1>3, <1>11, <2>1
    <3>2. CASE k \in 1..n + 1
      BY <1>4, <1>10, <2>1, <3>1, <3>2
    <3>3. CASE k = n + 1 + 1
      <4>1. mt[i] \in Nat /\ mt[i] \in 1..h + 1
        BY <1>3, <1>10, <3>1
      <4>. QED BY <1>3, <1>10, <3>3, <4>1
    <3>. QED BY <1>11, <3>2, <3>3
  <2>2. ASSUME NEW k \in 1..n + 1 PROVE t[mt[k]].marker = kt[k]
    <3>1. CASE k \in 1..n
      <4>1. mt[k] = m[k] /\ m[k] \in 1..h /\ s[m[k]].marker = ks[k]
        BY <1>3, <1>4, <1>10, <3>1
      <4>. QED BY <1>7, <1>8, <3>1, <4>1
    <3>2. CASE k = n + 1
      BY <1>7, <1>8, <1>13, <3>2
    <3>. QED BY <1>12, <3>1, <3>2
  <2>3. ASSUME NEW p \in Markers(t) PROVE \E k \in 1..n + 1 : p = mt[k]
    <3>1. p \in 1..h + 1 /\ IsMarker(t[p])
      BY <1>7 DEF Markers
    <3>2. CASE p \in 1..h
      <4>1. p \in Markers(s)
        BY <1>2, <1>7, <3>1, <3>2 DEF Markers
      <4>2. PICK k \in 1..n : p = m[k]
        BY <1>4, <4>1
      <4>3. k \in 1..n + 1
        BY <1>3
      <4>. QED BY <1>10, <4>2, <4>3
    <3>3. CASE p = h + 1
      <4>1. n + 1 \in 1..n + 1
        BY <1>3
      <4>. QED BY <1>13, <3>3, <4>1
    <3>4. p \in 1..h \/ p = h + 1
      BY <1>3, <3>1
    <3>. QED BY <3>2, <3>3, <3>4
  <2>4. mt[n + 1 + 1] = Len(t) + 1
    <3>1. h + 2 = h + 1 + 1
      BY <1>3
    <3>. QED BY <1>7, <1>10, <3>1
  <2>. QED BY <1>8, <1>10, <2>1, <2>2, <2>3, <2>4 DEF Marks
<1>15. Segments(t, ot, rs, mt)
  <2>1. mt[1] = Len(rs) + 1 /\ Len(rs) <= h
    <3>1. 1 \in 1..n + 1
      BY <1>3
    <3>2. m[1] \in 1..h + 1
      BY <1>3, <3>1
    <3>. QED BY <1>3, <1>5, <1>10, <3>1, <3>2
  <2>2. \A i \in 1..Len(rs) : t[i] = rs[i]
    <3>. TAKE i \in 1..Len(rs)
    <3>1. i \in 1..h
      BY <1>3, <2>1
    <3>. QED BY <1>5, <1>7, <3>1
  <2>3. ASSUME NEW k \in 1..n + 1
        PROVE  /\ mt[k + 1] = mt[k] + Len(ot[k]) + 1
               /\ \A i \in 1..Len(ot[k]) : t[mt[k] + i] = ot[k][i]
    <3>1. CASE k \in 1..n
      <4>1. k + 1 \in 1..n + 1
        BY <1>3, <3>1
      <4>2. mt[k] = m[k] /\ mt[k + 1] = m[k + 1] /\ ot[k] = os[k]
        BY <1>9, <1>10, <3>1, <4>1
      <4>3. m[k + 1] = m[k] + Len(os[k]) + 1 /\ \A i \in 1..Len(os[k]) : s[m[k] + i] = os[k][i]
        BY <1>5, <3>1
      <4>4. m[k] \in Nat /\ m[k] >= 1 /\ Len(os[k]) \in Nat /\ m[k + 1] \in 1..h + 1
        BY <1>3, <3>1, <4>1
      <4>5. m[k] + Len(os[k]) <= h
        BY <1>3, <4>3, <4>4
      <4>6. \A i \in 1..Len(os[k]) : m[k] + i \in 1..h
        <5>1. PICK x, c : x = m[k] /\ c = Len(os[k])
          OBVIOUS
        <5>2. x \in Nat /\ x >= 1 /\ c \in Nat /\ h \in Nat /\ x + c <= h
          BY <1>3, <4>4, <4>5, <5>1
        <5>3. \A i \in 1..c : x + i \in 1..h
          BY <5>2
        <5>. QED BY <5>1, <5>3
      <4>. QED BY <1>7, <4>2, <4>3, <4>6
    <3>2. CASE k = n + 1
      <4>1. Len(ot[k]) = 0
        BY <1>9, <3>2
      <4>2. mt[k + 1] = h + 2 /\ mt[k] = h + 1
        BY <1>10, <1>13, <3>2
      <4>. QED BY <1>3, <4>1, <4>2
    <3>. QED BY <1>12, <3>1, <3>2
  <2>. QED BY <1>9, <2>1, <2>2, <2>3 DEF Segments
<1>16. Laid(t, kt, ot, rs, mt)
  BY <1>3, <1>7, <1>8, <1>9, <1>14, <1>15 DEF Laid
<1>. QED BY <1>2, <1>16 DEF Reads

\* The stack is popped down to the marker of context a, and that marker too.
LEMMA ReadsBelowMarkers ==
  ASSUME NEW s, NEW ks, NEW os, NEW rs, Reads(s, ks, os, rs), NEW n, n = Len(ks), n # 0,
         NEW d \in Nat, d <= Len(os[n]), NEW a \in 1..n
  PROVE  /\ MarkerCount(Dropped(s, d)) = n
         /\ Reads(BelowMarkers(Dropped(s, d), n - a + 1), SubSeq(ks, 1, a - 1), SubSeq(os, 1, a - 1), rs)
<1>1. PICK m : Laid(s, ks, os, rs, m)
  BY DEF Reads
<1>2. PICK j : j = a - 1
  OBVIOUS
<1>3. j \in 0..n /\ j + 1 = a
  <2>1. n \in Nat
    BY ReadsType
  <2>. QED BY <1>2, <2>1
<1>4. MarkerCount(Dropped(s, d)) = n
  BY <1>1, LaidBelowMarkers
<1>5. BelowMarkers(Dropped(s, d), n - a + 1) = SubSeq(s, 1, m[a] - 1)
  BY <1>1, LaidBelowMarkers
<1>6. Laid(SubSeq(s, 1, m[j + 1] - 1), SubSeq(ks, 1, j), SubSeq(os, 1, j), rs, [k \in 1..j + 1 |-> m[k]])
  BY <1>1, <1>3, LaidCut
<1>. QED BY <1>2, <1>3, <1>4, <1>5, <1>6 DEF Reads

LEMMA ReadsBelowTopmost ==
  ASSUME NEW s, NEW ks, NEW os, NEW rs, Reads(s, ks, os, rs), NEW n, n = Len(ks), n # 0,
         NEW d \in Nat, d <= Len(os[n]), NEW a \in 1..n,
         NEW x, ks[a] = x, \A k \in a + 1..n : ks[k] # x
  PROVE  /\ HasMarker(Dropped(s, d), x)
         /\ Reads(BelowTopmost(Dropped(s, d), x), SubSeq(ks, 1, a - 1), SubSeq(os, 1, a - 1), rs)
<1>1. PICK m : Laid(s, ks, os, rs, m)
  BY DEF Reads
<1>2. PICK j : j = a - 1
  OBVIOUS
<1>3. j \in 0..n /\ j + 1 = a
  <2>1. n \in Nat
    BY ReadsType
  <2>. QED BY <1>2, <2>1
<1>4. HasMarker(Dropped(s, d), x)
  BY <1>1, LaidBelowTopmost
<1>5. BelowTopmost(Dropped(s, d), x) = SubSeq(s, 1, m[a] - 1)
  BY <1>1, LaidBelowTopmost
<1>6. Laid(SubSeq(s, 1, m[j + 1] - 1), SubSeq(ks, 1, j), SubSeq(os, 1, j), rs, [k \in 1..j + 1 |-> m[k]])
  BY <1>1, <1>3, LaidCut
<1>. QED BY <1>2, <1>3, <1>4, <1>5, <1>6 DEF Reads
=============================================================================
