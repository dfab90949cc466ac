----------------------------- MODULE VecProofs -----------------------------
(***************************************************************************)
(* The vector of vec.h keeps its allocation discipline and implements the  *)
(* list of VecList, for every element set and every bound on its length.   *)
(***************************************************************************)
EXTENDS VecIterator, SequenceTheorems, TLAPS

LEMMA FallbacksAreAnswers == Fallbacks \subseteq Answers
  BY DEF Fallbacks, Answers

\* What vec_resize does to the block, for any block of the current capacity:
\* it stays a block of elements, of the capacity ResizeTo records.
LEMMA ResizedType ==
  ASSUME TypeOK, NEW mem \in [0..capacity - 1 -> Element], NEW n \in 0..MaxLength
  PROVE  /\ Resized(mem, n) \in [0..NewCapacity(n) - 1 -> Element]
         /\ NewCapacity(n) \in 0..MaxLength
         /\ n <= NewCapacity(n)
<1>. USE VecAssumption DEF TypeOK, NewCapacity
<1>1. CASE n = length
  BY <1>1 DEF Resized
<1>2. CASE n # length
  <2>1. \A i \in 0..NewCapacity(n) - 1 : i < length => mem[i] \in Element
    OBVIOUS
  <2>2. Zero \in Element
    BY DEF Element
  <2>. QED BY <1>2, <2>1, <2>2 DEF Resized
<1>. QED BY <1>1, <1>2

\* ... and every slot below both lengths keeps what it held, every slot from
\* the old length up to a larger new one reads zero.
LEMMA ResizedSlots ==
  ASSUME TypeOK, NEW mem \in [0..capacity - 1 -> Element], NEW n \in 0..MaxLength,
         NEW i \in 0..n - 1
  PROVE  Resized(mem, n)[i] = IF i < length THEN mem[i] ELSE Zero
<1>1. CASE n = length
  BY <1>1 DEF Resized
<1>2. CASE n # length
  BY <1>2, VecAssumption DEF Resized, NewCapacity, TypeOK
<1>. QED BY <1>1, <1>2

\* Every call keeps the types: no live slot ends up outside the block.
LEMMA TypeStep == TypeOK /\ [Next]_vars => TypeOK'
<1>. SUFFICES ASSUME TypeOK, [Next]_vars PROVE TypeOK'
  OBVIOUS
<1>. USE VecAssumption
<1>1. ASSUME NEW e \in Element, Add(e) PROVE TypeOK'
  <2>1. length + 1 \in 0..MaxLength
    BY <1>1 DEF Add, TypeOK
  <2>2. elements \in [0..capacity - 1 -> Element]
    BY DEF TypeOK
  <2>3. /\ Resized(elements, length + 1) \in [0..NewCapacity(length + 1) - 1 -> Element]
        /\ NewCapacity(length + 1) \in 0..MaxLength
        /\ length + 1 <= NewCapacity(length + 1)
    BY <2>1, <2>2, ResizedType
  <2>4. elements' \in [0..NewCapacity(length + 1) - 1 -> Element]
    BY <1>1, <2>3 DEF Add
  <2>. QED BY <1>1, <2>1, <2>3, <2>4 DEF Add, ResizeTo, TypeOK, Answers
<1>2. ASSUME NEW idx \in 0..MaxLength - 1, NEW e \in Element, Set(idx, e)
      PROVE  TypeOK'
  <2>. DEFINE n == Max(length, idx + 1)
  <2>1. n \in 0..MaxLength
    BY DEF Max, TypeOK
  <2>2. elements \in [0..capacity - 1 -> Element]
    BY DEF TypeOK
  <2>3. /\ Resized(elements, n) \in [0..NewCapacity(n) - 1 -> Element]
        /\ NewCapacity(n) \in 0..MaxLength
        /\ n <= NewCapacity(n)
    BY <2>1, <2>2, ResizedType
  <2>4. /\ length' = n /\ capacity' = NewCapacity(n) /\ ret' = Void
        /\ elements' = [Resized(elements, n) EXCEPT ![idx] = e]
    BY <1>2 DEF Set, ResizeTo
  <2>. HIDE DEF n
  <2>5. elements' \in [0..NewCapacity(n) - 1 -> Element]
    BY <2>3, <2>4
  <2>. QED BY <2>1, <2>3, <2>4, <2>5 DEF TypeOK, Answers
<1>3. ASSUME NEW idx \in 0..MaxLength - 1, NEW e \in Element, Insert(idx, e)
      PROVE  TypeOK'
  <2>. DEFINE n   == Max(length + 1, idx + 1)
              mem == Resized(elements, n)
  <2>1. n \in 0..MaxLength
    BY <1>3 DEF Max, TypeOK, Insert
  <2>2. elements \in [0..capacity - 1 -> Element]
    BY DEF TypeOK
  <2>3. /\ mem \in [0..NewCapacity(n) - 1 -> Element]
        /\ NewCapacity(n) \in 0..MaxLength /\ n <= NewCapacity(n)
    BY <2>1, <2>2, ResizedType
  <2>4. elements' = [i \in DOMAIN mem |-> CASE i = idx          -> e
                                            [] i > idx /\ i < n -> mem[i - 1]
                                            [] OTHER            -> mem[i]]
    BY <1>3 DEF Insert
  <2>5. elements' \in [0..NewCapacity(n) - 1 -> Element]
    <3>. HIDE DEF n, mem
    <3>. QED BY <2>1, <2>3, <2>4
  <2>6. length' = n /\ capacity' = NewCapacity(n) /\ ret' = Void
    BY <1>3 DEF Insert, ResizeTo
  <2>. HIDE DEF n, mem
  <2>. QED BY <2>1, <2>3, <2>5, <2>6 DEF TypeOK, Answers
<1>4. ASSUME NEW idx \in 0..MaxLength, Remove(idx) PROVE TypeOK'
  <2>1. CASE idx < length
    <3>. DEFINE closed == [i \in DOMAIN elements |->
                             IF i >= idx /\ i < length - 1 THEN elements[i + 1]
                             ELSE elements[i]]
    <3>1. closed \in [0..capacity - 1 -> Element]
      BY DEF TypeOK
    <3>2. length - 1 \in 0..MaxLength
      BY <2>1 DEF TypeOK
    <3>3. length' = length - 1 /\ capacity' = NewCapacity(length - 1)
          /\ elements' = Resized(closed, length - 1) /\ ret' = Ok(elements[idx])
      BY <1>4, <2>1 DEF Remove, ResizeTo
    <3>4. elements[idx] \in Element
      BY <2>1 DEF TypeOK
    <3>. HIDE DEF closed
    <3>. QED BY <3>1, <3>2, <3>3, <3>4, ResizedType DEF TypeOK, Answers
  <2>2. CASE ~(idx < length)
    BY <1>4, <2>2 DEF Remove, TypeOK, Answers
  <2>. QED BY <2>1, <2>2
<1>5. ASSUME NEW f \in Fallbacks, Pop(f) PROVE TypeOK'
  <2>1. CASE length > 0
    <3>1. length - 1 \in 0..MaxLength /\ elements \in [0..capacity - 1 -> Element]
      BY <2>1 DEF TypeOK
    <3>2. length - 1 < NewCapacity(length - 1) /\ length - 1 \in Nat
      BY <2>1 DEF TypeOK, NewCapacity
    <3>3. Resized(elements, length - 1) \in [0..NewCapacity(length - 1) - 1 -> Element]
          /\ NewCapacity(length - 1) \in 0..MaxLength
      BY <3>1, ResizedType
    <3>4. Resized(elements, length - 1)[length - 1] \in Element
      BY <3>2, <3>3
    <3>. QED BY <1>5, <2>1, <3>1, <3>2, <3>3, <3>4 DEF Pop, ResizeTo, TypeOK, Answers
  <2>2. CASE ~(length > 0)
    BY <1>5, <2>2, FallbacksAreAnswers DEF Pop, TypeOK
  <2>. QED BY <2>1, <2>2
<1>6. ASSUME NEW idx \in 0..MaxLength, NEW f \in Fallbacks, Get(idx, f)
      PROVE  TypeOK'
  <2>1. idx < length => elements[idx] \in Element
    BY DEF TypeOK
  <2>. QED BY <1>6, <2>1, FallbacksAreAnswers DEF Get, TypeOK, Answers
<1>7. ASSUME NEW f \in Fallbacks, Peek(f) PROVE TypeOK'
  <2>1. length > 0 => elements[length - 1] \in Element
    BY DEF TypeOK
  <2>. QED BY <1>7, <2>1, FallbacksAreAnswers DEF Peek, TypeOK, Answers
<1>8. CASE ReallocFails
  BY <1>8 DEF ReallocFails, TypeOK, Answers
<1>9. CASE UNCHANGED vars
  BY <1>9 DEF vars, TypeOK
<1>. QED BY <1>1, <1>2, <1>3, <1>4, <1>5, <1>6, <1>7, <1>8, <1>9 DEF Next

\* The type invariant holds of every vector: no live slot lies outside the block.
THEOREM TypeCorrect == Spec => []TypeOK
<1>1. Init => TypeOK
  BY VecAssumption DEF Init, TypeOK, Answers
<1>. QED BY <1>1, TypeStep, PTL DEF Spec

----------------------------------------------------------------------------
(* The refinement of VecList *)

\* The caller's list is as long as the vector and holds its live slots.
LEMMA LiveList ==
  ASSUME TypeOK
  PROVE  /\ Live \in Seq(Element) /\ Len(Live) = length
         /\ \A i \in 1..length : Live[i] = elements[i - 1]
         /\ DOMAIN Live = 1..length
<1>1. length \in Nat
  BY VecAssumption DEF TypeOK
<1>2. \A i \in 1..length : elements[i - 1] \in Element
  BY VecAssumption DEF TypeOK
<1>. QED BY <1>1, <1>2 DEF Live

\* Append, slot by slot.
LEMMA AppendAsFunction ==
  ASSUME NEW S, NEW s \in Seq(S), NEW e \in S
  PROVE  Append(s, e) = [i \in 1..Len(s) + 1 |-> IF i <= Len(s) THEN s[i] ELSE e]
<1>. DEFINE t == Append(s, e)
<1>1. /\ t \in Seq(S) /\ Len(t) = Len(s) + 1 /\ Len(s) \in Nat
      /\ \A i \in 1..Len(s) : t[i] = s[i]
      /\ t[Len(s) + 1] = e
  BY AppendProperties, LenProperties
<1>. HIDE DEF t
<1>2. t = [i \in 1..Len(s) + 1 |-> t[i]]
  BY <1>1, LenProperties
<1>3. \A i \in 1..Len(s) + 1 : t[i] = IF i <= Len(s) THEN s[i] ELSE e
  BY <1>1
<1>4. t = [i \in 1..Len(s) + 1 |-> IF i <= Len(s) THEN s[i] ELSE e]
  BY <1>2, <1>3
<1>. QED BY <1>4 DEF t

\* The length that results from a call that grows the vector to n, and the
\* list the caller then sees, when only slot k of the resized block is set.
LEMMA StoreExtends ==
  ASSUME TypeOK, NEW n \in 1..MaxLength, n >= length, NEW k \in 0..n - 1, NEW e \in Element,
         ResizeTo(n), elements' = [Resized(elements, n) EXCEPT ![k] = e]
  PROVE  Live' = [List!Extended(n) EXCEPT ![k + 1] = e]
<1>1. Live' = [i \in 1..n |-> elements'[i - 1]]
  BY DEF Live, ResizeTo
<1>2. elements \in [0..capacity - 1 -> Element]
  BY DEF TypeOK
<1>3. Resized(elements, n) \in [0..NewCapacity(n) - 1 -> Element] /\ n <= NewCapacity(n)
      /\ NewCapacity(n) \in Nat
  <2>1. n \in 0..MaxLength
    BY VecAssumption
  <2>. QED BY <1>2, <2>1, ResizedType
<1>4. ASSUME NEW i \in 1..n
      PROVE  elements'[i - 1] = IF i = k + 1 THEN e
                                ELSE IF i <= length THEN Live[i] ELSE Zero
  <2>1. i - 1 \in 0..n - 1 /\ n \in 0..MaxLength
    BY VecAssumption
  <2>2. Resized(elements, n)[i - 1] = IF i - 1 < length THEN elements[i - 1] ELSE Zero
    BY <1>2, <2>1, ResizedSlots
  <2>3. i <= length => Live[i] = elements[i - 1]
    BY LiveList
  <2>4. i - 1 \in 0..NewCapacity(n) - 1 /\ (i - 1 = k <=> i = k + 1) /\ (i - 1 < length <=> i <= length)
    BY <1>3, VecAssumption DEF TypeOK
  <2>. QED BY <1>3, <2>2, <2>3, <2>4
<1>5. List!Extended(n) = [i \in 1..n |-> IF i <= length THEN Live[i] ELSE Zero]
  BY LiveList DEF List!Extended
<1>. QED BY <1>1, <1>4, <1>5

\* The list after a pop: every entry but the last.
LEMMA ShrinkDropsLast ==
  ASSUME TypeOK, length > 0, ResizeTo(length - 1),
         elements' = Resized(elements, length - 1)
  PROVE  /\ Live' = [i \in 1..Len(Live) - 1 |-> Live[i]]
         /\ Resized(elements, length - 1)[length - 1] = Live[Len(Live)]
<1>1. length - 1 \in 0..MaxLength /\ length \in Nat
      /\ elements \in [0..capacity - 1 -> Element] /\ length <= capacity /\ capacity \in Nat
  BY VecAssumption DEF TypeOK
<1>2. \A i \in 1..length : Resized(elements, length - 1)[i - 1] = elements[i - 1]
  BY <1>1 DEF Resized, NewCapacity
<1>. QED BY <1>1, <1>2, LiveList DEF Live, ResizeTo

\* vec.h implements the list: every call is the list operation of its name,
\* with its answer, until an allocation fails.
THEOREM VecImplementsList == Spec => ListUntilCrash
<1>1. Init => List!Init
  <2>. SUFFICES ASSUME Init PROVE List!Init
    OBVIOUS
  <2>1. Live = << >>
    BY DEF Init, Live
  <2>. QED BY <2>1 DEF Init, List!Init, Void, Ok, List!Void, List!Ok
<1>2. TypeOK /\ [Next]_vars => [List!Next \/ ret' = Segfault]_<<Live, ret>>
  <2>. SUFFICES ASSUME TypeOK, [Next]_vars
                PROVE  List!Next \/ ret' = Segfault \/ UNCHANGED <<Live, ret>>
    OBVIOUS
  <2>0. /\ List!Void = Void /\ List!Error = Error /\ (\A v : List!Ok(v) = Ok(v))
        /\ List!Fallbacks = Fallbacks /\ List!Element = Element
        /\ length \in Nat /\ length <= MaxLength /\ MaxLength \in Nat
    BY VecAssumption DEF List!Void, Void, List!Error, Error, List!Ok, Ok, List!Fallbacks,
       Fallbacks, List!Element, Element, TypeOK
  <2>1. ASSUME NEW e \in Element, Add(e) PROVE List!Add(e)
    <3>1. length + 1 \in 1..MaxLength /\ ResizeTo(length + 1) /\ ret' = Void
          /\ elements' = [Resized(elements, length + 1) EXCEPT ![length] = e]
      BY <2>0, <2>1 DEF Add
    <3>2. Live' = [List!Extended(length + 1) EXCEPT ![length + 1] = e]
      BY <2>0, <3>1, StoreExtends
    <3>3. List!Extended(length + 1) = [i \in 1..length + 1 |-> IF i <= length THEN Live[i] ELSE Zero]
      BY LiveList DEF List!Extended
    <3>4. Append(Live, e) = [List!Extended(length + 1) EXCEPT ![length + 1] = e]
      <4>1. Append(Live, e) = [i \in 1..length + 1 |-> IF i <= length THEN Live[i] ELSE e]
        BY LiveList, AppendAsFunction
      <4>2. \A i \in 1..length + 1 : ~(i <= length) <=> i = length + 1
        BY <2>0
      <4>. QED BY <3>3, <4>1, <4>2
    <3>. QED BY <2>0, <2>1, <3>1, <3>2, <3>4, LiveList DEF List!Add, Add
  <2>2. ASSUME NEW idx \in 0..MaxLength - 1, NEW e \in Element, Set(idx, e)
        PROVE  List!Set(idx, e)
    <3>. DEFINE n == Max(length, idx + 1)
    <3>1. n \in 1..MaxLength /\ n >= length /\ idx \in 0..n - 1
      BY <2>0 DEF Max
    <3>2. ResizeTo(n) /\ elements' = [Resized(elements, n) EXCEPT ![idx] = e] /\ ret' = Void
      BY <2>2 DEF Set
    <3>3. List!Max(Len(Live), idx + 1) = n
      BY <2>0, LiveList DEF List!Max, Max
    <3>. HIDE DEF n
    <3>4. Live' = [List!Extended(n) EXCEPT ![idx + 1] = e]
      BY <3>1, <3>2, StoreExtends
    <3>5. idx < MaxLength /\ ret' = List!Void
      BY <2>0, <3>2
    <3>6. Live' = [List!Extended(List!Max(Len(Live), idx + 1)) EXCEPT ![idx + 1] = e]
      BY <3>3, <3>4
    <3>. QED BY <3>5, <3>6 DEF List!Set
  <2>3. ASSUME NEW idx \in 0..MaxLength - 1, NEW e \in Element, Insert(idx, e)
        PROVE  List!Insert(idx, e)
    <3>. DEFINE n   == Max(length + 1, idx + 1)
                mem == Resized(elements, n)
    <3>1. /\ n \in 1..MaxLength /\ n > length /\ idx \in 0..n - 1 /\ n \in 0..MaxLength
          /\ n = List!Max(Len(Live), idx) + 1
      <4>1. Len(Live) = length /\ length < MaxLength
        BY <2>3, LiveList DEF Insert
      <4>. QED BY <2>0, <4>1 DEF Max, List!Max
    <3>2. elements \in [0..capacity - 1 -> Element]
      BY DEF TypeOK
    <3>3. mem \in [0..NewCapacity(n) - 1 -> Element] /\ n <= NewCapacity(n)
          /\ NewCapacity(n) \in Nat
      BY <3>1, <3>2, ResizedType
    <3>4. \A i \in 0..n - 1 : mem[i] = IF i < length THEN elements[i] ELSE Zero
      BY <3>1, <3>2, ResizedSlots
    <3>5. /\ length' = n /\ ret' = Void
          /\ elements' = [i \in DOMAIN mem |-> CASE i = idx          -> e
                                              [] i > idx /\ i < n -> mem[i - 1]
                                              [] OTHER            -> mem[i]]
      BY <2>3 DEF Insert, ResizeTo
    <3>6. Live' = [i \in 1..n |-> elements'[i - 1]]
      BY <3>5 DEF Live
    <3>. HIDE DEF n, mem
    <3>7. \A i \in 1..idx : List!Extended(idx)[i] = IF i <= length THEN Live[i] ELSE Zero
      BY LiveList DEF List!Extended
    <3>8. ASSUME NEW i \in 1..n
          PROVE  elements'[i - 1] = CASE i <= idx    -> List!Extended(idx)[i]
                                      [] i = idx + 1 -> e
                                      [] OTHER       -> Live[i - 1]
      <4>1. i - 1 \in DOMAIN mem /\ i \in Nat /\ idx \in Nat /\ n \in Nat
        BY <3>1, <3>3
      <4>2. CASE i <= idx
        <5>1. elements'[i - 1] = mem[i - 1]
          BY <3>5, <4>1, <4>2
        <5>2. mem[i - 1] = IF i <= length THEN elements[i - 1] ELSE Zero
          BY <2>0, <3>1, <3>4, <4>1
        <5>3. i <= length => Live[i] = elements[i - 1]
          BY LiveList
        <5>. QED BY <3>7, <4>1, <4>2, <5>1, <5>2, <5>3
      <4>3. CASE i = idx + 1
        BY <3>5, <4>1, <4>3
      <4>4. CASE i > idx + 1
        <5>1. elements'[i - 1] = mem[i - 2]
          BY <3>1, <3>5, <4>1, <4>4
        <5>2. i - 2 < length /\ i - 2 \in 0..n - 1
          BY <2>0, <3>1, <4>1, <4>4, LiveList DEF List!Max
        <5>3. mem[i - 2] = elements[i - 2]
          BY <3>4, <5>2
        <5>4. Live[i - 1] = elements[i - 2]
          BY <2>0, <4>1, <4>4, <5>2, LiveList
        <5>. QED BY <4>1, <4>4, <5>1, <5>3, <5>4
      <4>. QED BY <4>1, <4>2, <4>3, <4>4
    <3>9. Live' = [i \in 1..n |-> CASE i <= idx    -> List!Extended(idx)[i]
                                    [] i = idx + 1 -> e
                                    [] OTHER       -> Live[i - 1]]
      BY <3>6, <3>8
    <3>. QED BY <2>0, <2>3, <3>1, <3>5, <3>9, LiveList DEF List!Insert, Insert
  <2>4. ASSUME NEW idx \in 0..MaxLength, Remove(idx) PROVE List!Remove(idx)
    <3>1. CASE idx < length
      <4>. DEFINE closed == [i \in DOMAIN elements |->
                               IF i >= idx /\ i < length - 1 THEN elements[i + 1]
                               ELSE elements[i]]
      <4>1. length' = length - 1 /\ elements' = Resized(closed, length - 1)
            /\ ret' = Ok(elements[idx])
        BY <2>4, <3>1 DEF Remove, ResizeTo
      <4>2. /\ closed \in [0..capacity - 1 -> Element] /\ length - 1 \in 0..MaxLength
            /\ capacity \in Nat /\ length <= capacity
            /\ elements \in [0..capacity - 1 -> Element]
        BY <2>0, <3>1 DEF TypeOK
      <4>3. \A i \in 1..length - 1 :
              closed[i - 1] = IF i <= idx THEN elements[i - 1] ELSE elements[i]
        BY <2>0, <4>2
      <4>. HIDE DEF closed
      <4>4. \A i \in 0..length - 2 : Resized(closed, length - 1)[i] = closed[i]
        BY <2>0, <4>2, ResizedSlots
      <4>5. \A i \in 1..length - 1 : elements'[i - 1] = closed[i - 1]
        BY <2>0, <4>1, <4>4
      <4>6. ASSUME NEW i \in 1..length - 1
            PROVE  elements'[i - 1] = IF i <= idx THEN Live[i] ELSE Live[i + 1]
        <5>1. i \in 1..length /\ i + 1 \in 1..length /\ (i + 1) - 1 = i
          BY <2>0
        <5>2. Live[i] = elements[i - 1] /\ Live[i + 1] = elements[i]
          BY <5>1, LiveList
        <5>. QED BY <4>3, <4>5, <5>2
      <4>7. Live' = [i \in 1..length - 1 |-> elements'[i - 1]]
        BY <4>1 DEF Live
      <4>8. Live' = [i \in 1..length - 1 |-> IF i <= idx THEN Live[i] ELSE Live[i + 1]]
        BY <4>6, <4>7
      <4>9. Live[idx + 1] = elements[idx]
        BY <2>0, <3>1, LiveList
      <4>. QED BY <2>0, <3>1, <4>1, <4>8, <4>9, LiveList DEF List!Remove
    <3>2. CASE ~(idx < length)
      BY <2>0, <2>4, <3>2, LiveList DEF Remove, List!Remove, Live
    <3>. QED BY <3>1, <3>2
  <2>5. ASSUME NEW f \in Fallbacks, Pop(f) PROVE List!Pop(f)
    <3>1. Live # << >> <=> length > 0
      BY <2>0, LiveList
    <3>2. CASE length > 0
      BY <2>0, <2>5, <3>1, <3>2, ShrinkDropsLast DEF Pop, List!Pop
    <3>3. CASE ~(length > 0)
      BY <2>5, <3>1, <3>3 DEF Pop, List!Pop, Live
    <3>. QED BY <3>2, <3>3
  <2>6. ASSUME NEW idx \in 0..MaxLength, NEW f \in Fallbacks, Get(idx, f)
        PROVE  List!Get(idx, f)
    <3>1. idx < length => Live[idx + 1] = elements[idx]
      BY <2>0, LiveList
    <3>2. UNCHANGED Live /\ ret' = IF idx < length THEN Ok(elements[idx]) ELSE f
      BY <2>6 DEF Get, Live
    <3>. QED BY <2>0, <3>1, <3>2, LiveList DEF List!Get
  <2>7. ASSUME NEW f \in Fallbacks, Peek(f) PROVE List!Peek(f)
    <3>1. (Live # << >> <=> length > 0) /\ (length > 0 => Live[length] = elements[length - 1])
      BY <2>0, LiveList
    <3>2. UNCHANGED Live /\ ret' = IF length > 0 THEN Ok(elements[length - 1]) ELSE f
      BY <2>7 DEF Peek, Live
    <3>. QED BY <2>0, <3>1, <3>2, LiveList DEF List!Peek
  <2>8. CASE ReallocFails
    BY <2>8 DEF ReallocFails
  <2>9. CASE UNCHANGED vars
    BY <2>9 DEF vars, Live
  <2>. QED BY <2>0, <2>1, <2>2, <2>3, <2>4, <2>5, <2>6, <2>7, <2>8, <2>9 DEF Next, List!Next
<1>. QED BY <1>1, <1>2, TypeCorrect, PTL DEF Spec, ListUntilCrash

----------------------------------------------------------------------------
(* The iterator *)

\* A step of the index in 32 bits: it wraps around at both ends of a word.
LEMMA SteppedInWord ==
  ASSUME NEW n \in 0..Words - 1
  PROVE  /\ (n + 1) % Words = IF n = Words - 1 THEN 0 ELSE n + 1
         /\ (n + -1) % Words = IF n = 0 THEN Words - 1 ELSE n - 1
BY IteratorAssumption, VecAssumption

\* Where the index stands after so many answers, in either direction: before
\* the first entry, on the one answered last, or somewhere behind the end.
IndexStands ==
  \/ /\ it.dir = 1 /\ it.idx = Words - 1 /\ Len(seen) = 0
  \/ /\ it.dir = 1 /\ it.idx \in 0..MaxLength + MaxPast
     /\ Len(seen) = IF it.idx < length THEN it.idx + 1 ELSE length
  \/ /\ it.dir = -1 /\ it.idx \in 0..length /\ Len(seen) = length - it.idx
  \/ /\ it.dir = -1 /\ it.idx \in Words - 1 - MaxPast..Words - 1 /\ Len(seen) = length

IteratorTypeOK ==
  /\ it = NoIterator \/ it \in [idx : 0..Words - 1, dir : Directions]
  /\ answer \in {NoAnswer, "yes", "no"}
  /\ seen \in Seq(Element)
  /\ steady \in BOOLEAN

\* What has been seen, and where that leaves the index.
SeenSoFar ==
  it # NoIterator /\ steady =>
    /\ IndexStands
    /\ \A i \in 1..Len(seen) : seen[i] = Live[IF it.dir = 1 THEN i ELSE length + 1 - i]

\* An answer of vec_has_next stays right until the next call.
AnswerStands ==
  it # NoIterator /\ answer # NoAnswer => (answer = "yes" <=> Next_idx < length)

IteratorInv == TypeOK /\ IteratorTypeOK /\ SeenSoFar /\ AnswerStands

\* The next index is an entry's exactly when not all have been answered, and then
\* it is the next one's in the iterator's direction.
LEMMA NextIndex ==
  ASSUME length \in 0..MaxLength, it \in [idx : 0..Words - 1, dir : Directions],
         Len(seen) \in Nat, IndexStands
  PROVE  /\ Len(seen) <= length
         /\ Next_idx < length <=> Len(seen) < length
         /\ Len(seen) < length =>
              Next_idx = IF it.dir = 1 THEN Len(seen) ELSE length - 1 - Len(seen)
<1>. DEFINE n == it.idx
<1>1. /\ n \in 0..Words - 1 /\ it.dir \in {1, -1} /\ length \in Nat /\ length <= MaxLength
      /\ MaxLength \in Nat /\ MaxPast \in Nat /\ Words \in Nat /\ MaxLength + 2 * MaxPast + 3 < Words
  BY VecAssumption, IteratorAssumption DEF Directions
<1>2. Next_idx = (n + it.dir) % Words
  BY DEF Next_idx
<1>3. it.dir = 1 => Next_idx = IF n = Words - 1 THEN 0 ELSE n + 1
  BY <1>1, <1>2, SteppedInWord
<1>4. it.dir = -1 => Next_idx = IF n = 0 THEN Words - 1 ELSE n - 1
  BY <1>1, <1>2, SteppedInWord
<1>. QED BY <1>1, <1>3, <1>4 DEF IndexStands

\* What the next call makes of that, within the bound on calls behind an end.
LEMMA IndexStep ==
  ASSUME length \in 0..MaxLength, it \in [idx : 0..Words - 1, dir : Directions],
         Len(seen) \in Nat, IndexStands, InReach,
         it' = [it EXCEPT !.idx = Next_idx], length' = length,
         Len(seen') = IF Next_idx < length THEN Len(seen) + 1 ELSE Len(seen)
  PROVE  IndexStands'
<1>. DEFINE n == it.idx
<1>1. /\ n \in 0..Words - 1 /\ it.dir \in {1, -1} /\ length \in Nat /\ length <= MaxLength
      /\ MaxLength \in Nat /\ MaxPast \in Nat /\ Words \in Nat /\ MaxLength + 2 * MaxPast + 3 < Words
  BY VecAssumption, IteratorAssumption DEF Directions
<1>2. Next_idx = (n + it.dir) % Words
  BY DEF Next_idx
<1>3. it.dir = 1 => Next_idx = IF n = Words - 1 THEN 0 ELSE n + 1
  BY <1>1, <1>2, SteppedInWord
<1>4. it.dir = -1 => Next_idx = IF n = 0 THEN Words - 1 ELSE n - 1
  BY <1>1, <1>2, SteppedInWord
<1>5. it'.dir = it.dir /\ it'.idx = Next_idx
  OBVIOUS
<1>6. PICK k, next, seenNow, seenNext :
        /\ k = n /\ next = Next_idx /\ seenNow = Len(seen) /\ seenNext = Len(seen')
        /\ seenNext = IF next < length THEN seenNow + 1 ELSE seenNow
  OBVIOUS
<1>7. next \in 0..MaxLength + MaxPast \/ next >= Words - 1 - MaxPast
  BY <1>6 DEF InReach
<1>8. IndexStands' <=>
        \/ /\ it.dir = 1 /\ next = Words - 1 /\ seenNext = 0
        \/ /\ it.dir = 1 /\ next \in 0..MaxLength + MaxPast
           /\ seenNext = IF next < length THEN next + 1 ELSE length
        \/ /\ it.dir = -1 /\ next \in 0..length /\ seenNext = length - next
        \/ /\ it.dir = -1 /\ next \in Words - 1 - MaxPast..Words - 1 /\ seenNext = length
  BY <1>5, <1>6 DEF IndexStands
<1>9. \/ /\ it.dir = 1 /\ k = Words - 1 /\ seenNow = 0
      \/ /\ it.dir = 1 /\ k \in 0..MaxLength + MaxPast
         /\ seenNow = IF k < length THEN k + 1 ELSE length
      \/ /\ it.dir = -1 /\ k \in 0..length /\ seenNow = length - k
      \/ /\ it.dir = -1 /\ k \in Words - 1 - MaxPast..Words - 1 /\ seenNow = length
  BY <1>6 DEF IndexStands
<1>10. CASE it.dir = 1
  <2>1. k \in 0..Words - 1 /\ next = IF k = Words - 1 THEN 0 ELSE k + 1
    BY <1>1, <1>3, <1>6, <1>10
  <2>2. next \in 0..MaxLength + MaxPast /\ seenNext = IF next < length THEN next + 1 ELSE length
    BY <1>1, <1>6, <1>7, <1>9, <1>10, <2>1
  <2>. QED BY <1>8, <1>10, <2>2
<1>11. CASE it.dir = -1
  <2>1. k \in 0..Words - 1 /\ next = IF k = 0 THEN Words - 1 ELSE k - 1
    BY <1>1, <1>4, <1>6, <1>11
  <2>2. CASE k \in 0..length /\ seenNow = length - k
    <3>1. CASE k = 0
      BY <1>1, <1>6, <1>8, <1>11, <2>1, <2>2, <3>1
    <3>2. CASE k # 0
      <4>1. next = k - 1 /\ k \in 1..length /\ length \in Nat
        BY <1>1, <2>1, <2>2, <3>2
      <4>2. seenNext = seenNow + 1 /\ seenNow = length - k
        BY <1>6, <2>2, <4>1
      <4>3. next \in 0..length /\ seenNext = length - next
        BY <4>1, <4>2
      <4>. QED BY <1>8, <1>11, <4>3
    <3>. QED BY <3>1, <3>2
  <2>3. CASE k \in Words - 1 - MaxPast..Words - 1 /\ seenNow = length
    BY <1>1, <1>6, <1>7, <1>8, <1>11, <2>1, <2>3
  <2>. QED BY <1>9, <1>11, <2>2, <2>3
<1>. QED BY <1>1, <1>10, <1>11

LEMMA IteratorInvInit == IteratorInit => IteratorInv
<1>. SUFFICES ASSUME IteratorInit PROVE IteratorInv
  OBVIOUS
<1>1. TypeOK
  BY VecAssumption DEF IteratorInit, Init, TypeOK, Answers
<1>. QED BY <1>1 DEF IteratorInit, IteratorInv, IteratorTypeOK, SeenSoFar, AnswerStands

\* The index of an iterator may be any word; a read there is a read at some index
\* that a caller of the vector may ask for.
LEMMA IteratorStepIsVecStep == TypeOK /\ IteratorTypeOK /\ [IteratorNext]_iterator_vars => [Next]_vars
<1>. SUFFICES ASSUME TypeOK, IteratorTypeOK, IteratorNext PROVE [Next]_vars
  BY DEF iterator_vars, vars
<1>1. ASSUME NextEntry PROVE Next
  <2>1. it.idx + it.dir \in Int /\ Words \in Nat \ {0}
    BY <1>1, IteratorAssumption, VecAssumption DEF NextEntry, IteratorTypeOK, Directions
  <2>2. Next_idx \in 0..Words - 1
    BY <2>1 DEF Next_idx
  <2>3. length \in 0..MaxLength /\ MaxLength \in Nat
    BY VecAssumption DEF TypeOK
  <2>4. Error \in Fallbacks
    BY DEF Fallbacks
  <2>5. CASE Next_idx \in 0..MaxLength
    BY <1>1, <2>4, <2>5 DEF NextEntry, Next
  <2>6. CASE Next_idx \notin 0..MaxLength
    <3>1. ~(Next_idx < length) /\ ~(MaxLength < length) /\ MaxLength \in 0..MaxLength
      BY <2>2, <2>3, <2>6, IteratorAssumption
    <3>2. Get(MaxLength, Error)
      BY <1>1, <3>1 DEF NextEntry, Get
    <3>. QED BY <2>4, <3>1, <3>2 DEF Next
  <2>. QED BY <2>5, <2>6
<1>2. ASSUME NEW dir \in Directions, Iterator(dir) \/ SetDirection(dir) PROVE UNCHANGED vars
  BY <1>2 DEF Iterator, SetDirection
<1>3. HasNext => UNCHANGED vars
  BY DEF HasNext
<1>4. VecCall => Next
  BY DEF VecCall
<1>. QED BY <1>1, <1>2, <1>3, <1>4 DEF IteratorNext

\* A call of vec_next: the entry that is seen is the next one of its direction.
LEMMA NextEntrySeen ==
  ASSUME IteratorInv, NextEntry
  PROVE  /\ seen' \in Seq(Element) /\ SeenSoFar'
         /\ it' \in [idx : 0..Words - 1, dir : Directions]
<1>1. /\ it \in [idx : 0..Words - 1, dir : Directions] /\ length \in 0..MaxLength
      /\ it' = [it EXCEPT !.idx = Next_idx] /\ length' = length /\ elements' = elements
      /\ ret' = IF Next_idx < length THEN Ok(elements[Next_idx]) ELSE Error
      /\ seen' = IF steady /\ ret' # Error THEN Append(seen, ret'.value) ELSE seen
      /\ seen \in Seq(Element) /\ Len(seen) \in Nat /\ steady' = steady /\ InReach
  BY VecAssumption DEF IteratorInv, IteratorTypeOK, TypeOK, NextEntry, Get
<1>2. it.idx + it.dir \in Int /\ Words \in Nat \ {0}
  BY <1>1, IteratorAssumption, VecAssumption DEF Directions
<1>3. Next_idx \in 0..Words - 1
  BY <1>2 DEF Next_idx
<1>4. it' \in [idx : 0..Words - 1, dir : Directions] /\ it'.dir = it.dir
  BY <1>1, <1>3
<1>5. Next_idx < length => elements[Next_idx] \in Element
  BY <1>3 DEF IteratorInv, TypeOK
<1>6. ret' # Error <=> Next_idx < length
  BY <1>1 DEF Ok, Error
<1>7. seen' \in Seq(Element)
  BY <1>1, <1>5, <1>6 DEF Ok
<1>8. CASE ~steady
  BY <1>1, <1>4, <1>7, <1>8 DEF SeenSoFar
<1>9. CASE steady
  <2>1. IndexStands /\ \A i \in 1..Len(seen) : seen[i] = Live[IF it.dir = 1 THEN i ELSE length + 1 - i]
    BY <1>1, <1>9 DEF IteratorInv, SeenSoFar, NextEntry
  <2>2. Live' = Live
    BY <1>1 DEF Live
  <2>3. /\ Len(seen) <= length
        /\ Next_idx < length <=> Len(seen) < length
        /\ Len(seen) < length =>
             Next_idx = IF it.dir = 1 THEN Len(seen) ELSE length - 1 - Len(seen)
    BY <1>1, <2>1, NextIndex
  <2>4. CASE Next_idx < length
    <3>1. seen' = Append(seen, elements[Next_idx])
      BY <1>1, <1>6, <1>9, <2>4 DEF Ok
    <3>2. Len(seen') = Len(seen) + 1 /\ (\A i \in 1..Len(seen) : seen'[i] = seen[i])
          /\ seen'[Len(seen) + 1] = elements[Next_idx]
      BY <1>1, <1>5, <2>4, <3>1
    <3>3. IndexStands'
      BY <1>1, <2>1, <2>4, <3>2, IndexStep
    <3>4. elements[Next_idx] = Live[Next_idx + 1]
      <4>1. Next_idx + 1 \in 1..length /\ (Next_idx + 1) - 1 = Next_idx
        BY <1>1, <1>3, <2>4, IteratorAssumption
      <4>. QED BY <4>1, LiveList DEF IteratorInv
    <3>5. Next_idx + 1 = IF it.dir = 1 THEN Len(seen) + 1 ELSE length + 1 - (Len(seen) + 1)
      BY <1>1, <2>3, <2>4
    <3>6. ASSUME NEW i \in 1..Len(seen')
          PROVE  seen'[i] = Live[IF it.dir = 1 THEN i ELSE length + 1 - i]
      <4>1. i \in 1..Len(seen) \/ i = Len(seen) + 1
        BY <1>1, <3>2
      <4>. QED BY <2>1, <3>2, <3>4, <3>5, <4>1
    <3>. QED BY <1>1, <1>4, <1>7, <2>2, <3>3, <3>6 DEF SeenSoFar
  <2>5. CASE ~(Next_idx < length)
    <3>1. seen' = seen
      BY <1>1, <1>6, <2>5
    <3>2. IndexStands'
      BY <1>1, <2>1, <2>5, <3>1, IndexStep
    <3>. QED BY <1>1, <1>4, <1>7, <2>1, <2>2, <3>1, <3>2 DEF SeenSoFar
  <2>. QED BY <2>4, <2>5
<1>. QED BY <1>4, <1>7, <1>8, <1>9

LEMMA IteratorInvStep ==
  IteratorInv /\ TypeOK' /\ [IteratorNext]_iterator_vars => IteratorInv'
<1>. SUFFICES ASSUME IteratorInv, TypeOK', [IteratorNext]_iterator_vars PROVE IteratorInv'
  OBVIOUS
<1>0. /\ length \in 0..MaxLength /\ MaxLength \in Nat /\ Words \in Nat /\ MaxLength < Words - 1
      /\ it = NoIterator \/ it \in [idx : 0..Words - 1, dir : Directions]
      /\ seen \in Seq(Element) /\ answer \in {NoAnswer, "yes", "no"} /\ steady \in BOOLEAN
  BY VecAssumption, IteratorAssumption DEF IteratorInv, IteratorTypeOK, TypeOK
<1>1. ASSUME NEW dir \in Directions, Iterator(dir) PROVE IteratorInv'
  <2>1. /\ it' = [idx |-> Start(dir), dir |-> dir] /\ seen' = << >> /\ length' = length
        /\ answer' = NoAnswer /\ steady' = TRUE
    BY <1>1 DEF Iterator, vars
  <2>2. Start(dir) \in 0..Words - 1
    BY <1>0 DEF Start
  <2>3. IteratorTypeOK'
    BY <2>1, <2>2 DEF IteratorTypeOK
  <2>4. IndexStands'
    BY <1>0, <2>1 DEF IndexStands, Start, Directions
  <2>. QED BY <2>1, <2>3, <2>4 DEF IteratorInv, SeenSoFar, AnswerStands
<1>2. ASSUME NEW dir \in Directions, SetDirection(dir) PROVE IteratorInv'
  <2>1. /\ it' = [it EXCEPT !.dir = dir] /\ length' = length /\ elements' = elements
        /\ answer' = NoAnswer /\ it # NoIterator /\ it \in [idx : 0..Words - 1, dir : Directions]
    BY <1>0, <1>2 DEF SetDirection, vars
  <2>2. CASE dir = it.dir
    <3>1. it' = it /\ seen' = seen /\ steady' = steady /\ Live' = Live
      BY <1>2, <2>1, <2>2 DEF SetDirection, Disturbed, Live
    <3>. QED BY <2>1, <3>1 DEF IteratorInv, IteratorTypeOK, SeenSoFar, AnswerStands, IndexStands
  <2>3. CASE dir # it.dir
    <3>1. seen' = << >> /\ steady' = FALSE
      BY <1>2, <2>1, <2>3 DEF SetDirection, Disturbed
    <3>2. it' \in [idx : 0..Words - 1, dir : Directions] /\ seen' \in Seq(Element)
      BY <2>1, <3>1
    <3>3. IteratorTypeOK' /\ AnswerStands'
      BY <2>1, <3>1, <3>2 DEF IteratorTypeOK, AnswerStands
    <3>4. SeenSoFar'
      BY <3>1 DEF SeenSoFar
    <3>. QED BY <3>3, <3>4 DEF IteratorInv
  <2>. QED BY <2>2, <2>3
<1>3. CASE HasNext
  <2>1. /\ it' = it /\ seen' = seen /\ steady' = steady /\ length' = length /\ elements' = elements
        /\ answer' = Answer(Next_idx)
    BY <1>3 DEF HasNext, vars
  <2>2. Live' = Live /\ Next_idx' = Next_idx
    BY <2>1 DEF Live, Next_idx
  <2>3. IteratorTypeOK' /\ AnswerStands'
    BY <2>1, <2>2 DEF IteratorInv, IteratorTypeOK, AnswerStands, Answer, NoAnswer
  <2>4. SeenSoFar'
    BY <2>1, <2>2 DEF IteratorInv, SeenSoFar, IndexStands
  <2>. QED BY <2>3, <2>4 DEF IteratorInv
<1>4. CASE NextEntry
  <2>1. answer' = NoAnswer /\ steady' = steady
    BY <1>4 DEF NextEntry
  <2>. QED BY <1>4, <2>1, NextEntrySeen DEF IteratorInv, IteratorTypeOK, AnswerStands
<1>5. CASE VecCall
  <2>1. answer' = NoAnswer /\ it' = it
    BY <1>5 DEF VecCall
  <2>2. CASE (length' # length \/ elements' # elements) /\ it # NoIterator
    <3>1. seen' = << >> /\ steady' = FALSE
      BY <1>5, <2>2 DEF VecCall, Disturbed
    <3>2. seen' \in Seq(Element)
      BY <3>1
    <3>3. IteratorTypeOK' /\ AnswerStands'
      BY <1>0, <2>1, <3>1, <3>2 DEF IteratorTypeOK, AnswerStands
    <3>4. SeenSoFar'
      BY <3>1 DEF SeenSoFar
    <3>. QED BY <3>3, <3>4 DEF IteratorInv
  <2>3. CASE ~((length' # length \/ elements' # elements) /\ it # NoIterator)
    <3>1. seen' = seen /\ steady' = steady
      BY <1>5, <2>3 DEF VecCall, Disturbed
    <3>2. CASE it = NoIterator
      BY <2>1, <3>1, <3>2 DEF IteratorInv, IteratorTypeOK, SeenSoFar, AnswerStands, NoIterator
    <3>3. CASE length' = length /\ elements' = elements
      <4>1. Live' = Live
        BY <3>3 DEF Live
      <4>2. SeenSoFar'
        BY <2>1, <3>1, <3>3, <4>1 DEF IteratorInv, SeenSoFar, IndexStands
      <4>. QED BY <2>1, <3>1, <4>2 DEF IteratorInv, IteratorTypeOK, AnswerStands
    <3>. QED BY <2>3, <3>2, <3>3
  <2>. QED BY <2>2, <2>3
<1>6. CASE UNCHANGED iterator_vars
  <2>1. /\ it' = it /\ seen' = seen /\ steady' = steady /\ length' = length /\ elements' = elements
        /\ answer' = answer
    BY <1>6 DEF iterator_vars
  <2>2. Live' = Live /\ Next_idx' = Next_idx
    BY <2>1 DEF Live, Next_idx
  <2>3. IteratorTypeOK' /\ AnswerStands'
    BY <2>1, <2>2 DEF IteratorInv, IteratorTypeOK, AnswerStands
  <2>4. SeenSoFar'
    BY <2>1, <2>2 DEF IteratorInv, SeenSoFar, IndexStands
  <2>. QED BY <2>3, <2>4 DEF IteratorInv
<1>. QED BY <1>1, <1>2, <1>3, <1>4, <1>5, <1>6 DEF IteratorNext

\* An iterator does nothing to its vector that a call of the vector could not do.
THEOREM IteratorKeepsVector == IteratorSpec => Spec
<1>1. IteratorInit => Init
  BY DEF IteratorInit
<1>2. IteratorInv /\ [IteratorNext]_iterator_vars => IteratorInv' /\ [Next]_vars
  <2>. SUFFICES ASSUME IteratorInv, [IteratorNext]_iterator_vars PROVE IteratorInv' /\ [Next]_vars
    OBVIOUS
  <2>1. [Next]_vars
    BY IteratorStepIsVecStep DEF IteratorInv
  <2>2. TypeOK'
    BY <2>1, TypeStep DEF IteratorInv
  <2>. QED BY <2>1, <2>2, IteratorInvStep
<1>. QED BY <1>1, <1>2, IteratorInvInit, PTL DEF IteratorSpec, Spec

LEMMA IteratorInvariant == IteratorSpec => []IteratorInv
<1>1. IteratorInv /\ TypeOK' /\ [IteratorNext]_iterator_vars => IteratorInv'
  BY IteratorInvStep
<1>. QED BY <1>1, IteratorInvInit, IteratorKeepsVector, TypeCorrect, PTL DEF IteratorSpec

\* For any length of a word and any number of calls: an iterator answers every
\* entry once, in its direction, and says that there is no next one exactly
\* behind the last (vec.h:156-184).
THEOREM IteratorComplete == IteratorSpec => []EveryEntryOnce
<1>1. IteratorInv => EveryEntryOnce
  <2>. SUFFICES ASSUME IteratorInv, it # NoIterator, steady
                PROVE  /\ Len(seen) <= length
                       /\ \A i \in 1..Len(seen) : seen[i] = Live[IF it.dir = 1 THEN i ELSE length + 1 - i]
                       /\ answer # NoAnswer => (answer = "yes" <=> Len(seen) < length)
    BY DEF EveryEntryOnce
  <2>1. /\ IndexStands
        /\ \A i \in 1..Len(seen) : seen[i] = Live[IF it.dir = 1 THEN i ELSE length + 1 - i]
        /\ answer # NoAnswer => (answer = "yes" <=> Next_idx < length)
    BY DEF IteratorInv, SeenSoFar, AnswerStands
  <2>2. /\ length \in 0..MaxLength /\ it \in [idx : 0..Words - 1, dir : Directions]
        /\ Len(seen) \in Nat
    BY VecAssumption DEF IteratorInv, IteratorTypeOK, TypeOK
  <2>3. Len(seen) <= length /\ (Next_idx < length <=> Len(seen) < length)
    BY <2>1, <2>2, NextIndex
  <2>. QED BY <2>1, <2>3
<1>. QED BY <1>1, IteratorInvariant, PTL

\* What vec_has_next has said is what vec_next does next, after turns and changes
\* of the vector too (vec.h:181-189).
THEOREM HasNextIsHonest == IteratorSpec => HasNextHonest
<1>1. IteratorInv /\ [IteratorNext]_iterator_vars
      => [NextEntry /\ answer # NoAnswer => (answer = "yes" <=> ret'.status = "ok")]_iterator_vars
  <2>. SUFFICES ASSUME IteratorInv, NextEntry, answer # NoAnswer
                PROVE  answer = "yes" <=> ret'.status = "ok"
    OBVIOUS
  <2>1. answer = "yes" <=> Next_idx < length
    BY DEF IteratorInv, AnswerStands, NextEntry
  <2>2. ret' = IF Next_idx < length THEN Ok(elements[Next_idx]) ELSE Error
    BY DEF NextEntry, Get
  <2>3. Error.status # "ok" /\ \A v : Ok(v).status = "ok"
    BY DEF Error, Ok
  <2>. QED BY <2>1, <2>2, <2>3
<1>. QED BY <1>1, IteratorInvariant, PTL DEF IteratorSpec, HasNextHonest
=============================================================================
