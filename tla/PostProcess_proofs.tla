-------------------------- MODULE PostProcess_proofs --------------------------
(***************************************************************************)
(* From the tensors to the boxes of a result, for any number of boxes and  *)
(* classes, any scores and any thresholds.  What IOU computes plays no     *)
(* part: IOUExceeds is not looked into.                                    *)
(***************************************************************************)
EXTENDS PostProcess, SequenceTheorems, TLAPS

USE PostAssumption

-----------------------------------------------------------------------------
(***************************************************************************)
(* The parts of the inductive invariant.                                   *)
(***************************************************************************)

(* All boxes there may be: those that have a best class.                   *)
AllBoxes == {BoxOf(n) : n \in {m \in 1..NBoxes : FirstBest(m) \in 1..NClasses}}

Shape ==
  /\ output \in Outputs
  /\ i \in 0..NBoxes
  /\ j \in 0..NClasses
  /\ maxValue \in Nat
  /\ maxIndex \in 0..NClasses - 1
  /\ boxes \in Seq(AllBoxes)
  /\ result \in Seq(AllBoxes)
  /\ index \in 0..NBoxes

(* The loop over the classes keeps the first of the best so far, if any is *)
(* better than 0.                                                          *)
BestSoFar ==
  LET s == output[i + 1].scores
  IN  /\ i = NBoxes => j = 0
      /\ \A c \in 1..j : s[c] <= maxValue
      /\ maxValue > 0 =>
           /\ maxIndex < j
           /\ s[maxIndex + 1] = maxValue
           /\ \A c \in 1..maxIndex : s[c] < maxValue

Scanned ==
  pc = "scan" =>
    /\ result = <<>>
    /\ Len(boxes) <= i
    /\ BestSoFar
    /\ {boxes[k].index : k \in DOMAIN boxes} = {n \in 1..i : IsCandidate(n)}

Apart(a, b) == ~IOUExceeds(a.rect, b.rect)

(* Between two rounds of the outer loop the boxes that are left overlap    *)
(* none that was kept.                                                     *)
OuterPart ==
  pc = "outer" =>
    /\ Len(result) + Len(boxes) <= NBoxes
    /\ \A k \in DOMAIN result : \A m \in DOMAIN boxes : Apart(result[k], boxes[m])

(* Within a round the box that was kept last is still the first of boxes,  *)
(* and those up to index have been compared with it.                       *)
InnerPart ==
  pc = "inner" =>
    /\ Len(result) > 0
    /\ Len(result) + Len(boxes) <= NBoxes + 1
    /\ index \in 1..Len(boxes)
    /\ result[Len(result)] = boxes[1]
    /\ \A k \in 1..Len(result) - 1 : \A m \in DOMAIN boxes : Apart(result[k], boxes[m])
    /\ \A m \in 2..index : Apart(boxes[1], boxes[m])

(* The boxes are in the order of their scores, after those of the result.  *)
Sorted ==
  pc # "scan" =>
    /\ \A k, m \in DOMAIN boxes : k < m => boxes[k].score >= boxes[m].score
    /\ \A k, m \in DOMAIN result : k < m => result[k].score >= result[m].score
    /\ \A k \in DOMAIN result : \A m \in DOMAIN boxes : result[k].score >= boxes[m].score

(* A box is dropped for one at least as good that overlaps it.             *)
Covers(b, n) == b.score >= Score(n) /\ IOUExceeds(b.rect, Rect(n))

(* No candidate gets lost on the way.                                      *)
Placed ==
  pc # "scan" =>
    \A n \in 1..NBoxes : IsCandidate(n) =>
      \/ \E m \in DOMAIN boxes : boxes[m].index = n
      \/ \E k \in DOMAIN result : result[k].index = n \/ Covers(result[k], n)

Over == pc \notin {"scan", "outer", "inner"} => boxes = <<>> /\ Len(result) <= NBoxes

PInv ==
  Shape /\ Scanned /\ KeptApart /\ OuterPart /\ InnerPart /\ Sorted /\ Placed /\ Over
-----------------------------------------------------------------------------
(***************************************************************************)
(* Operators.                                                              *)
(***************************************************************************)
LEMMA OutputType ==
  ASSUME NEW o \in Outputs, NEW n \in 1..NBoxes
  PROVE  /\ o[n].scores \in [1..NClasses -> Nat]
         /\ o[n].rect \in [cx : Int, cy : Int, w : Int, h : Int]
OBVIOUS

LEMMA MinIs ==
  ASSUME NEW S, S \subseteq Int, NEW x \in S, \A y \in S : x <= y
  PROVE  Min(S) = x
<1>1. ASSUME NEW z \in S, \A y \in S : z <= y
      PROVE  z = x
  <2>1. z \in Int /\ x \in Int /\ z <= x /\ x <= z
    BY <1>1
  <2>. QED  BY <2>1
<1>. QED  BY <1>1 DEF Min

(* The first of the best classes.                                          *)
LEMMA FirstOfIs ==
  ASSUME NEW s \in [1..NClasses -> Nat], NEW c \in 1..NClasses,
         \A d \in 1..NClasses : s[d] <= s[c],
         \A d \in 1..c - 1 : s[d] < s[c]
  PROVE  FirstOf(s) = c
<1>. DEFINE S == {e \in 1..NClasses : \A d \in 1..NClasses : s[e] >= s[d]}
<1>1. S \subseteq Int /\ c \in S
  OBVIOUS
<1>2. ASSUME NEW e \in S
      PROVE  c <= e
  <2>1. e \in 1..NClasses /\ s[e] >= s[c] /\ s[e] \in Nat /\ s[c] \in Nat
    OBVIOUS
  <2>2. ~(e \in 1..c - 1)
    BY <2>1
  <2>. QED  BY <2>1, <2>2
<1>3. Min(S) = c
  <2>. HIDE DEF S
  <2>. QED  BY <1>1, <1>2, MinIs
<1>. QED  BY <1>3 DEF FirstOf

LEMMA CornerType ==
  ASSUME NEW c \in Int, NEW w \in Int, NEW scale \in Int
  PROVE  2 * c * scale - w * scale \in Int /\ 2 * c * scale + w * scale \in Int
<1>. DEFINE a == 2 * c
            p == a * scale
            q == w * scale
<1>1. a \in Int
  OBVIOUS
<1>. HIDE DEF a
<1>2. p \in Int /\ q \in Int
  BY <1>1
<1>. HIDE DEF p, q
<1>3. p - q \in Int /\ p + q \in Int
  BY <1>2
<1>. QED  BY <1>3 DEF p, q, a

LEMMA RectOk ==
  ASSUME output \in Outputs, NEW n \in 1..NBoxes
  PROVE  Rect(n) \in [x : Int, y : Int, w : Int, h : Int]
<1>. DEFINE r == output[n].rect
<1>1. r \in [cx : Int, cy : Int, w : Int, h : Int]
  BY OutputType
<1>2. r.cx \in Int /\ r.cy \in Int /\ r.w \in Int /\ r.h \in Int
  BY <1>1
<1>3. XScale \in Int /\ YScale \in Int
  OBVIOUS
<1>. HIDE DEF r
<1>4. /\ 2 * r.cx * XScale - r.w * XScale \in Int
      /\ 2 * r.cx * XScale + r.w * XScale \in Int
      /\ 2 * r.cy * YScale - r.h * YScale \in Int
      /\ 2 * r.cy * YScale + r.h * YScale \in Int
  BY <1>2, <1>3, CornerType
<1>. QED  BY <1>4 DEF Rect, SetBoxInfo_v2, r

(* A box carries what belongs to its number.                               *)
LEMMA BoxFacts ==
  ASSUME output \in Outputs, NEW b \in AllBoxes
  PROVE  /\ b.index \in 1..NBoxes
         /\ b = BoxOf(b.index)
         /\ b.score = Score(b.index) /\ b.score \in Nat
         /\ b.rect = Rect(b.index)
         /\ b.classIndex \in 0..NClasses - 1
<1>1. PICK n \in 1..NBoxes : FirstBest(n) \in 1..NClasses /\ b = BoxOf(n)
  BY DEF AllBoxes
<1>2. /\ b.index = n /\ b.score = Score(n) /\ b.rect = Rect(n)
      /\ b.classIndex = FirstBest(n) - 1
  BY <1>1 DEF BoxOf
<1>3. Score(n) \in Nat
  <2>1. output[n].scores[FirstBest(n)] \in Nat
    BY <1>1, OutputType
  <2>. QED  BY <2>1 DEF Score
<1>. QED  BY <1>1, <1>2, <1>3

(* The tensors do not change, nor does what is said about their boxes.     *)
LEMMA SameBoxes ==
  ASSUME UNCHANGED output
  PROVE  /\ AllBoxes' = AllBoxes
         /\ \A n : /\ IsCandidate(n)' <=> IsCandidate(n)
                   /\ Score(n)' = Score(n)
                   /\ Rect(n)' = Rect(n)
                   /\ BoxOf(n)' = BoxOf(n)
<1>1. \A n : /\ (IsCandidate(n)' <=> IsCandidate(n))
             /\ FirstBest(n)' = FirstBest(n)
             /\ Score(n)' = Score(n)
             /\ Rect(n)' = Rect(n)
  BY DEF IsCandidate, FirstBest, Score, Rect
<1>2. \A n : BoxOf(n)' = BoxOf(n)
  BY <1>1 DEF BoxOf
<1>3. AllBoxes' = AllBoxes
  BY <1>1, <1>2 DEF AllBoxes
<1>. QED  BY <1>1, <1>2, <1>3
-----------------------------------------------------------------------------
(***************************************************************************)
(* The scan.                                                               *)
(***************************************************************************)
LEMMA InitPInv == ProcessInit => PInv
<1>. SUFFICES ASSUME ProcessInit PROVE PInv
  OBVIOUS
<1>1. Shape
  BY DEF ProcessInit, Shape
<1>2. Scanned
  <2>1. {boxes[k].index : k \in DOMAIN boxes} = {} /\ {n \in 1..i : IsCandidate(n)} = {}
    BY DEF ProcessInit
  <2>. QED  BY <2>1 DEF ProcessInit, Scanned, BestSoFar
<1>. QED
  BY <1>1, <1>2
     DEF ProcessInit, PInv, KeptApart, OuterPart, InnerPart, Sorted, Placed, Over

LEMMA ScanClassStep == ASSUME PInv, ScanClass PROVE PInv'
<1>. DEFINE s == output[i + 1].scores
            value == s[j + 1]
<1>1. /\ pc = "scan" /\ i < NBoxes /\ j < NClasses /\ j' = j + 1
      /\ output' = output /\ pc' = pc /\ i' = i /\ boxes' = boxes /\ result' = result
      /\ index' = index
      /\ \/ value > maxValue /\ maxValue' = value /\ maxIndex' = j
         \/ ~(value > maxValue) /\ maxValue' = maxValue /\ maxIndex' = maxIndex
  BY DEF ScanClass
<1>2. /\ output \in Outputs /\ i \in 0..NBoxes /\ j \in 0..NClasses /\ maxValue \in Nat
      /\ maxIndex \in 0..NClasses - 1
      /\ result = <<>> /\ Len(boxes) <= i
      /\ \A c \in 1..j : s[c] <= maxValue
      /\ maxValue > 0 =>
           /\ maxIndex < j
           /\ s[maxIndex + 1] = maxValue
           /\ \A c \in 1..maxIndex : s[c] < maxValue
      /\ {boxes[k].index : k \in DOMAIN boxes} = {n \in 1..i : IsCandidate(n)}
  BY <1>1 DEF PInv, Shape, Scanned, BestSoFar
<1>3. s \in [1..NClasses -> Nat] /\ j + 1 \in 1..NClasses /\ value \in Nat
  <2>1. i + 1 \in 1..NBoxes
    BY <1>1, <1>2
  <2>2. s \in [1..NClasses -> Nat]
    BY <1>2, <2>1, OutputType
  <2>3. j + 1 \in 1..NClasses
    BY <1>1, <1>2
  <2>4. s[j + 1] \in Nat
    <3>. HIDE DEF s
    <3>. QED  BY <2>2, <2>3
  <2>. QED  BY <2>2, <2>3, <2>4
<1>. HIDE DEF s
<1>4. BestSoFar'
  <2>1. s' = s
    BY <1>1 DEF s
  <2>2. \A c \in 1..j' : s[c] <= maxValue'
    <3>1. ASSUME NEW c \in 1..j + 1
          PROVE  s[c] <= maxValue'
      <4>1. CASE c = j + 1
        BY <1>1, <1>2, <1>3, <4>1
      <4>2. CASE c \in 1..j
        <5>1. s[c] <= maxValue /\ s[c] \in Nat
          BY <1>2, <1>3, <4>2
        <5>. QED  BY <1>1, <1>2, <1>3, <5>1
      <4>. QED  BY <1>2, <4>1, <4>2
    <3>. QED  BY <1>1, <3>1
  <2>3. ASSUME maxValue' > 0
        PROVE  /\ maxIndex' < j'
               /\ s[maxIndex' + 1] = maxValue'
               /\ \A c \in 1..maxIndex' : s[c] < maxValue'
    <3>1. CASE value > maxValue
      <4>1. maxIndex' = j /\ maxValue' = value
        BY <1>1, <3>1
      <4>2. ASSUME NEW c \in 1..j
            PROVE  s[c] < value
        <5>1. s[c] <= maxValue /\ s[c] \in Nat
          BY <1>2, <1>3
        <5>. QED  BY <1>2, <1>3, <3>1, <5>1
      <4>. QED  BY <1>1, <1>2, <4>1, <4>2
    <3>2. CASE ~(value > maxValue)
      BY <1>1, <1>2, <2>3, <3>2
    <3>. QED  BY <3>1, <3>2
  <2>4. i' = NBoxes => j' = 0
    BY <1>1
  <2>. QED  BY <2>1, <2>2, <2>3, <2>4 DEF BestSoFar, s
<1>5. Shape'
  BY <1>1, <1>2, <1>3, SameBoxes DEF PInv, Shape
<1>6. Scanned'
  <2>1. {n \in 1..i : IsCandidate(n)}' = {n \in 1..i : IsCandidate(n)}
    BY <1>1, SameBoxes
  <2>. QED  BY <1>1, <1>2, <1>4, <2>1 DEF Scanned
<1>. QED
  BY <1>1, <1>5, <1>6 DEF PInv, KeptApart, OuterPart, InnerPart, Sorted, Placed, Over

(* At the end of the loop over the classes.                                *)
LEMMA FoundIsBox ==
  ASSUME PInv, pc = "scan", i < NBoxes, j = NClasses
  PROVE  /\ (maxValue >= ScoreThreshold) <=> IsCandidate(i + 1)
         /\ IsCandidate(i + 1) => Found = BoxOf(i + 1) /\ Found \in AllBoxes
<1>. DEFINE s == output[i + 1].scores
<1>1. /\ output \in Outputs /\ i \in 0..NBoxes /\ maxValue \in Nat
      /\ maxIndex \in 0..NClasses - 1
      /\ \A c \in 1..NClasses : s[c] <= maxValue
      /\ maxValue > 0 =>
           /\ s[maxIndex + 1] = maxValue
           /\ \A c \in 1..maxIndex : s[c] < maxValue
  BY DEF PInv, Shape, Scanned, BestSoFar
<1>2. i + 1 \in 1..NBoxes
  BY <1>1
<1>3. s \in [1..NClasses -> Nat]
  BY <1>1, <1>2, OutputType
<1>. HIDE DEF s
<1>4. CASE maxValue >= ScoreThreshold
  <2>1. maxIndex + 1 \in 1..NClasses /\ maxValue > 0
    BY <1>1, <1>4
  <2>2. s[maxIndex + 1] = maxValue
    BY <1>1, <2>1
  <2>3. IsCandidate(i + 1)
    BY <1>4, <2>1, <2>2 DEF IsCandidate, s
  <2>4. FirstBest(i + 1) = maxIndex + 1
    <3>1. \A d \in 1..NClasses : s[d] <= s[maxIndex + 1]
      BY <1>1, <2>2
    <3>2. \A d \in 1..(maxIndex + 1) - 1 : s[d] < s[maxIndex + 1]
      BY <1>1, <2>1, <2>2
    <3>3. FirstOf(s) = maxIndex + 1
      BY <1>3, <2>1, <3>1, <3>2, FirstOfIs
    <3>. QED  BY <3>3 DEF FirstBest, s
  <2>5. Score(i + 1) = 10 * maxValue
    BY <2>2, <2>4 DEF Score, s
  <2>6. Found = BoxOf(i + 1)
    <3>1. FirstBest(i + 1) - 1 = maxIndex
      BY <1>1, <2>4
    <3>. QED  BY <2>5, <3>1 DEF Found, BoxOf, Rect
  <2>. QED  BY <1>2, <1>4, <2>1, <2>3, <2>4, <2>6 DEF AllBoxes
<1>5. CASE ~(maxValue >= ScoreThreshold)
  <2>1. ASSUME NEW c \in 1..NClasses
        PROVE  ~(s[c] >= ScoreThreshold)
    <3>1. s[c] <= maxValue /\ s[c] \in Nat
      BY <1>1, <1>3
    <3>. QED  BY <1>1, <1>5, <3>1
  <2>2. ~IsCandidate(i + 1)
    BY <2>1 DEF IsCandidate, s
  <2>. QED  BY <1>5, <2>2
<1>. QED  BY <1>4, <1>5

LEMMA ScanBoxStep == ASSUME PInv, ScanBox PROVE PInv'
<1>1. /\ pc = "scan" /\ i < NBoxes /\ j = NClasses /\ i' = i + 1
      /\ j' = 0 /\ maxValue' = 0 /\ maxIndex' = 0
      /\ output' = output /\ pc' = pc /\ result' = result /\ index' = index
  BY DEF ScanBox
<1>2. /\ output \in Outputs /\ i \in 0..NBoxes /\ maxIndex \in 0..NClasses - 1
      /\ boxes \in Seq(AllBoxes)
      /\ result = <<>> /\ Len(boxes) <= i
      /\ {boxes[k].index : k \in DOMAIN boxes} = {n \in 1..i : IsCandidate(n)}
  BY <1>1 DEF PInv, Shape, Scanned
<1>3. boxes' = IF IsCandidate(i + 1) THEN Append(boxes, BoxOf(i + 1)) ELSE boxes
  <2>1. maxIndex < NClasses
    BY <1>2
  <2>2. boxes' = IF maxValue >= ScoreThreshold THEN Append(boxes, Found) ELSE boxes
    BY <2>1 DEF ScanBox
  <2>. QED  BY <1>1, <2>2, FoundIsBox
<1>4. IsCandidate(i + 1) => BoxOf(i + 1) \in AllBoxes
  BY <1>1, FoundIsBox
<1>5. boxes' \in Seq(AllBoxes) /\ Len(boxes') <= i'
  BY <1>1, <1>2, <1>3, <1>4
<1>6. {boxes'[k].index : k \in DOMAIN boxes'} = {n \in 1..i + 1 : IsCandidate(n)}
  <2>1. CASE ~IsCandidate(i + 1)
    <3>1. {n \in 1..i + 1 : IsCandidate(n)} = {n \in 1..i : IsCandidate(n)}
      BY <1>2, <2>1
    <3>. QED  BY <1>2, <1>3, <2>1, <3>1
  <2>2. CASE IsCandidate(i + 1)
    <3>1. /\ boxes' = Append(boxes, BoxOf(i + 1)) /\ Len(boxes) \in Nat
          /\ DOMAIN boxes = 1..Len(boxes) /\ DOMAIN boxes' = 1..Len(boxes) + 1
          /\ \A k \in 1..Len(boxes) : boxes'[k] = boxes[k]
          /\ boxes'[Len(boxes) + 1] = BoxOf(i + 1)
      BY <1>2, <1>3, <1>4, <2>2
    <3>2. BoxOf(i + 1).index = i + 1
      BY DEF BoxOf
    <3>3. {boxes'[k].index : k \in DOMAIN boxes'}
            = {boxes[k].index : k \in DOMAIN boxes} \cup {i + 1}
      <4>1. \A k \in 1..Len(boxes) + 1 : k \in 1..Len(boxes) \/ k = Len(boxes) + 1
        BY <3>1
      <4>2. Len(boxes) + 1 \in 1..Len(boxes) + 1 /\ \A k \in 1..Len(boxes) : k \in 1..Len(boxes) + 1
        BY <3>1
      <4>. QED  BY <3>1, <3>2, <4>1, <4>2
    <3>4. {n \in 1..i + 1 : IsCandidate(n)} = {n \in 1..i : IsCandidate(n)} \cup {i + 1}
      BY <1>2, <2>2
    <3>. QED  BY <1>2, <3>3, <3>4
  <2>. QED  BY <2>1, <2>2
<1>7. Scanned'
  <2>1. BestSoFar'
    BY <1>1 DEF BestSoFar
  <2>2. {n \in 1..i : IsCandidate(n)}' = {n \in 1..i + 1 : IsCandidate(n)}
    BY <1>1, SameBoxes
  <2>. QED  BY <1>1, <1>2, <1>5, <1>6, <2>1, <2>2 DEF Scanned
<1>8. Shape'
  BY <1>1, <1>2, <1>5, SameBoxes DEF PInv, Shape
<1>. QED
  BY <1>1, <1>2, <1>7, <1>8 DEF PInv, KeptApart, OuterPart, InnerPart, Sorted, Placed, Over
-----------------------------------------------------------------------------
(***************************************************************************)
(* Non-maximum suppression.                                                *)
(***************************************************************************)
LEMMA ScoresOfBoxes ==
  ASSUME output \in Outputs, NEW s \in Seq(AllBoxes), NEW k \in DOMAIN s
  PROVE  s[k] \in AllBoxes /\ s[k].score \in Nat
<1>1. s[k] \in AllBoxes
  OBVIOUS
<1>. QED  BY <1>1, BoxFacts

LEMMA SortStep == ASSUME PInv, Sort PROVE PInv'
<1>1. /\ pc = "scan" /\ pc' = "outer" /\ i = NBoxes /\ result' = <<>>
      /\ output' = output /\ UNCHANGED <<i, j, maxValue, maxIndex>> /\ index' = index
      /\ \A k, m \in DOMAIN boxes : k < m => ~SortScore(boxes'[m], boxes'[k])
  BY DEF Sort, best
<1>2. /\ output \in Outputs /\ boxes \in Seq(AllBoxes) /\ Len(boxes) <= i
      /\ {boxes[k].index : k \in DOMAIN boxes} = {n \in 1..i : IsCandidate(n)}
  BY <1>1 DEF PInv, Shape, Scanned
<1>3. PICK p \in [DOMAIN boxes -> DOMAIN boxes] :
        /\ \A m \in DOMAIN boxes : \E k \in DOMAIN boxes : p[k] = m
        /\ boxes' = [k \in DOMAIN boxes |-> boxes[p[k]]]
  BY DEF Sort, Bijection, Surjection
<1>4. DOMAIN boxes = 1..Len(boxes) /\ Len(boxes) \in Nat
  BY <1>2
<1>5. boxes' \in Seq(AllBoxes) /\ DOMAIN boxes' = DOMAIN boxes /\ Len(boxes') = Len(boxes)
  BY <1>2, <1>3, <1>4
<1>6. Sorted'
  <2>1. ASSUME NEW k \in DOMAIN boxes, NEW m \in DOMAIN boxes, k < m
        PROVE  boxes'[k].score >= boxes'[m].score
    <3>1. ~(boxes'[m].score > boxes'[k].score)
      BY <1>1, <2>1 DEF SortScore
    <3>2. boxes'[m].score \in Nat /\ boxes'[k].score \in Nat
      BY <1>2, <1>5, ScoresOfBoxes
    <3>. QED  BY <3>1, <3>2
  <2>. QED  BY <1>1, <1>5, <2>1 DEF Sorted
<1>7. Placed'
  <2>1. ASSUME NEW n \in 1..NBoxes, IsCandidate(n)
        PROVE  \E m \in DOMAIN boxes' : boxes'[m].index = n
    <3>1. PICK m \in DOMAIN boxes : boxes[m].index = n
      <4>1. n \in {q \in 1..i : IsCandidate(q)}
        BY <1>1, <2>1
      <4>2. n \in {boxes[k].index : k \in DOMAIN boxes}
        BY <1>2, <4>1
      <4>. QED  BY <4>2
    <3>2. PICK k \in DOMAIN boxes : p[k] = m
      BY <1>3
    <3>. QED  BY <1>3, <1>5, <3>1, <3>2
  <2>. QED  BY <1>1, <2>1, SameBoxes DEF Placed
<1>8. Shape'
  BY <1>1, <1>5, SameBoxes DEF PInv, Shape
<1>9. OuterPart'
  BY <1>1, <1>2, <1>4, <1>5 DEF OuterPart
<1>. QED  BY <1>1, <1>6, <1>7, <1>8, <1>9 DEF PInv, Scanned, KeptApart, InnerPart, Over

LEMMA RemoveAtIs ==
  ASSUME NEW S, NEW s \in Seq(S), NEW n \in 1..Len(s)
  PROVE  /\ RemoveAt(s, n) \in Seq(S)
         /\ Len(RemoveAt(s, n)) = Len(s) - 1
         /\ \A k \in 1..Len(s) - 1 :
              RemoveAt(s, n)[k] = IF k < n THEN s[k] ELSE s[k + 1]
<1>. DEFINE a == SubSeq(s, 1, n - 1)
            b == SubSeq(s, n + 1, Len(s))
<1>1. Len(s) \in Nat /\ DOMAIN s = 1..Len(s)
  OBVIOUS
<1>2. /\ a \in Seq(S) /\ Len(a) = n - 1
      /\ \A k \in 1..n - 1 : a[k] = s[k]
  BY <1>1
<1>3. /\ b \in Seq(S) /\ Len(b) = Len(s) - n
      /\ \A k \in 1..Len(s) - n : b[k] = s[n + k]
  <2>1. n + 1 \in 1..Len(s) + 1 /\ Len(s) \in n + 1 - 1..Len(s)
    BY <1>1
  <2>2. /\ b \in Seq(S)
        /\ Len(b) = IF n + 1 <= Len(s) THEN Len(s) - (n + 1) + 1 ELSE 0
        /\ \A k \in 1..Len(s) - (n + 1) + 1 : b[k] = s[n + 1 + k - 1]
    BY <1>1, <2>1, SubSeqProperties
  <2>. HIDE DEF b
  <2>3. Len(b) = Len(s) - n
    <3>1. CASE n = Len(s)
      <4>1. ~(n + 1 <= Len(s)) /\ Len(s) - n = 0
        BY <1>1, <3>1
      <4>. QED  BY <2>2, <4>1
    <3>2. CASE n # Len(s)
      <4>1. Len(s) \in Nat /\ n \in Nat /\ n <= Len(s)
        BY <1>1
      <4>2. n + 1 <= Len(s)
        BY <3>2, <4>1
      <4>3. Len(s) - (n + 1) + 1 = Len(s) - n
        BY <4>1
      <4>. QED  BY <2>2, <4>2, <4>3
    <3>. QED  BY <3>1, <3>2
  <2>4. ASSUME NEW k \in 1..Len(s) - n
        PROVE  b[k] = s[n + k]
    <3>1. k \in 1..Len(s) - (n + 1) + 1 /\ n + 1 + k - 1 = n + k
      BY <1>1
    <3>. QED  BY <2>2, <3>1
  <2>. QED  BY <2>2, <2>3, <2>4
<1>. HIDE DEF a, b
<1>4. /\ a \o b \in Seq(S) /\ Len(a \o b) = Len(s) - 1
      /\ \A k \in 1..Len(s) - 1 :
           (a \o b)[k] = IF k < n THEN s[k] ELSE s[k + 1]
  <2>1. /\ a \o b \in Seq(S)
        /\ Len(a \o b) = Len(a) + Len(b)
        /\ \A k \in 1..Len(a) + Len(b) :
             (a \o b)[k] = IF k <= Len(a) THEN a[k] ELSE b[k - Len(a)]
    BY <1>2, <1>3, ConcatProperties
  <2>2. Len(a) + Len(b) = Len(s) - 1
    BY <1>1, <1>2, <1>3
  <2>3. ASSUME NEW k \in 1..Len(s) - 1
        PROVE  (a \o b)[k] = IF k < n THEN s[k] ELSE s[k + 1]
    <3>1. CASE k < n
      <4>1. k \in 1..n - 1 /\ k <= Len(a) /\ k \in 1..Len(a) + Len(b)
        BY <1>1, <1>2, <1>3, <3>1
      <4>. QED  BY <1>2, <2>1, <3>1, <4>1
    <3>2. CASE ~(k < n)
      <4>1. /\ k - (n - 1) \in 1..Len(s) - n /\ ~(k <= Len(a))
            /\ k \in 1..Len(a) + Len(b) /\ n + (k - (n - 1)) = k + 1
        BY <1>1, <1>2, <1>3, <3>2
      <4>2. (a \o b)[k] = b[k - (n - 1)]
        BY <1>2, <2>1, <4>1
      <4>3. b[k - (n - 1)] = s[n + (k - (n - 1))]
        BY <1>3, <4>1
      <4>. QED  BY <3>2, <4>1, <4>2, <4>3
    <3>. QED  BY <3>1, <3>2
  <2>. QED  BY <2>1, <2>2, <2>3
<1>5. RemoveAt(s, n) = a \o b
  BY DEF RemoveAt, a, b
<1>. QED  BY <1>4, <1>5

LEMMA KeepStep == ASSUME PInv, Keep PROVE PInv'
<1>1. /\ pc = "outer" /\ pc' = "inner" /\ boxes' = boxes /\ index' = 1
      /\ output' = output /\ UNCHANGED <<i, j, maxValue, maxIndex>> /\ boxes # <<>>
      /\ result' = Append(result, boxes[1])
  BY DEF Keep, best
<1>2. /\ output \in Outputs /\ boxes \in Seq(AllBoxes) /\ result \in Seq(AllBoxes)
      /\ Len(result) + Len(boxes) <= NBoxes
  BY <1>1 DEF PInv, Shape, OuterPart
<1>3. Len(boxes) \in Nat /\ Len(boxes) > 0 /\ boxes[1] \in AllBoxes /\ DOMAIN boxes = 1..Len(boxes)
  BY <1>1, <1>2
<1>4. /\ result' \in Seq(AllBoxes) /\ Len(result') = Len(result) + 1 /\ Len(result) \in Nat
      /\ result'[Len(result) + 1] = boxes[1]
      /\ \A k \in 1..Len(result) : result'[k] = result[k]
  BY <1>1, <1>2, <1>3
<1>5. DOMAIN result = 1..Len(result) /\ DOMAIN result' = 1..Len(result) + 1
  BY <1>2, <1>4
<1>6. \A k \in 1..Len(result) : \A m \in DOMAIN boxes : Apart(result[k], boxes[m])
  BY <1>1, <1>5 DEF PInv, OuterPart
<1>7. Shape'
  <2>1. index' \in 0..NBoxes
    BY <1>1, <1>2, <1>3, <1>4
  <2>. QED  BY <1>1, <1>4, <2>1, SameBoxes DEF PInv, Shape
<1>8. KeptApart'
  <2>1. ASSUME NEW k \in 1..Len(result) + 1, NEW m \in 1..Len(result) + 1, k < m
        PROVE  ~IOUExceeds(result'[k].rect, result'[m].rect)
    <3>1. k \in 1..Len(result)
      BY <1>4, <2>1
    <3>2. CASE m \in 1..Len(result)
      BY <1>4, <1>5, <2>1, <3>1, <3>2 DEF PInv, KeptApart
    <3>3. CASE m = Len(result) + 1
      <4>1. Apart(result[k], boxes[1])
        BY <1>3, <1>6, <3>1
      <4>. QED  BY <1>4, <3>1, <3>3, <4>1 DEF Apart
    <3>. QED  BY <1>4, <3>2, <3>3
  <2>. QED  BY <1>5, <2>1 DEF KeptApart
<1>9. InnerPart'
  <2>1. \A m \in 2..index' : FALSE
    BY <1>1
  <2>2. index' \in 1..Len(boxes')
    BY <1>1, <1>3
  <2>3. \A k \in 1..Len(result') - 1 : \A m \in DOMAIN boxes' : Apart(result'[k], boxes'[m])
    BY <1>1, <1>4, <1>6
  <2>4. Len(result') > 0 /\ result'[Len(result')] = boxes'[1]
    BY <1>1, <1>4
  <2>5. Len(result') + Len(boxes') <= NBoxes + 1
    BY <1>1, <1>2, <1>3, <1>4
  <2>. QED  BY <2>1, <2>2, <2>3, <2>4, <2>5 DEF InnerPart, Apart
<1>10. Sorted'
  <2>1. /\ \A k, m \in DOMAIN boxes : k < m => boxes[k].score >= boxes[m].score
        /\ \A k, m \in DOMAIN result : k < m => result[k].score >= result[m].score
        /\ \A k \in DOMAIN result : \A m \in DOMAIN boxes : result[k].score >= boxes[m].score
    BY <1>1 DEF PInv, Sorted
  <2>2. \A k \in DOMAIN result' : k \in DOMAIN result \/ k = Len(result) + 1
    BY <1>4, <1>5
  <2>3. ASSUME NEW m \in DOMAIN boxes
        PROVE  boxes[1].score >= boxes[m].score
    <3>1. CASE m = 1
      BY <1>2, <2>3, <3>1, ScoresOfBoxes
    <3>2. CASE m # 1
      BY <1>3, <2>1, <3>2
    <3>. QED  BY <3>1, <3>2
  <2>4. \A k \in DOMAIN result' : \A m \in DOMAIN boxes : result'[k].score >= boxes[m].score
    BY <1>4, <1>5, <2>1, <2>2, <2>3
  <2>5. ASSUME NEW k \in DOMAIN result', NEW m \in DOMAIN result', k < m
        PROVE  result'[k].score >= result'[m].score
    <3>1. k \in DOMAIN result
      BY <1>4, <1>5, <2>5
    <3>2. CASE m \in DOMAIN result
      BY <1>4, <1>5, <2>1, <2>5, <3>1, <3>2
    <3>3. CASE m = Len(result) + 1
      <4>1. result'[m] = boxes[1] /\ 1 \in DOMAIN boxes
        BY <1>3, <1>4, <3>3
      <4>. QED  BY <2>4, <4>1
    <3>. QED  BY <2>2, <3>2, <3>3
  <2>. QED  BY <1>1, <2>1, <2>4, <2>5 DEF Sorted
<1>11. Placed'
  <2>1. ASSUME NEW n \in 1..NBoxes, IsCandidate(n)
        PROVE  \/ \E m \in DOMAIN boxes : boxes[m].index = n
               \/ \E k \in DOMAIN result' : result'[k].index = n \/ Covers(result'[k], n)
    BY <1>1, <1>4, <1>5, <2>1 DEF PInv, Placed
  <2>. QED  BY <1>1, <2>1, SameBoxes DEF Placed, Covers
<1>. QED
  BY <1>1, <1>7, <1>8, <1>9, <1>10, <1>11 DEF PInv, Scanned, OuterPart, Over

LEMMA CompareStep == ASSUME PInv, Compare PROVE PInv'
<1>1. /\ pc = "inner" /\ pc' = "inner" /\ result' = result /\ index < Len(boxes)
      /\ output' = output /\ UNCHANGED <<i, j, maxValue, maxIndex>>
  BY DEF Compare, best
<1>2. /\ output \in Outputs /\ boxes \in Seq(AllBoxes) /\ result \in Seq(AllBoxes)
      /\ index \in 1..Len(boxes) /\ Len(result) > 0
      /\ Len(result) + Len(boxes) <= NBoxes + 1
      /\ result[Len(result)] = boxes[1]
      /\ \A k \in 1..Len(result) - 1 : \A m \in DOMAIN boxes : Apart(result[k], boxes[m])
      /\ \A m \in 2..index : Apart(boxes[1], boxes[m])
  BY <1>1 DEF PInv, Shape, InnerPart
<1>3. /\ \A k, m \in DOMAIN boxes : k < m => boxes[k].score >= boxes[m].score
      /\ \A k, m \in DOMAIN result : k < m => result[k].score >= result[m].score
      /\ \A k \in DOMAIN result : \A m \in DOMAIN boxes : result[k].score >= boxes[m].score
  BY <1>1 DEF PInv, Sorted
<1>4. Len(boxes) \in Nat /\ Len(result) \in Nat /\ index \in Nat /\ DOMAIN boxes = 1..Len(boxes)
  BY <1>2
<1>5. KeptApart'
  BY <1>1 DEF PInv, KeptApart
<1>6. index + 1 \in 1..Len(boxes)
  BY <1>1, <1>4
<1>7. CASE IOUExceeds(boxes[1].rect, boxes[index + 1].rect)
  <2>1. boxes' = RemoveAt(boxes, index + 1) /\ index' = index
    BY <1>7 DEF Compare
  <2>2. /\ boxes' \in Seq(AllBoxes)
        /\ Len(boxes') = Len(boxes) - 1
        /\ \A k \in 1..Len(boxes) - 1 :
             boxes'[k] = IF k < index + 1 THEN boxes[k] ELSE boxes[k + 1]
    BY <1>2, <1>6, <2>1, RemoveAtIs
  <2>3. DOMAIN boxes' = 1..Len(boxes) - 1
    BY <2>2
  <2>4. Shape'
    BY <1>1, <2>1, <2>2, SameBoxes DEF PInv, Shape
  <2>5. ASSUME NEW m \in 1..Len(boxes) - 1
        PROVE  /\ m \in DOMAIN boxes /\ m + 1 \in DOMAIN boxes
               /\ boxes'[m] = boxes[m] \/ boxes'[m] = boxes[m + 1]
    BY <1>4, <2>2
  <2>6. \A m \in 1..index : boxes'[m] = boxes[m]
    BY <1>1, <1>4, <2>2
  <2>7. InnerPart'
    <3>1. \A m \in 2..index' : Apart(boxes'[1], boxes'[m])
      <4>1. ASSUME NEW m \in 2..index
            PROVE  Apart(boxes'[1], boxes'[m])
        <5>1. 1 \in 1..index /\ m \in 1..index
          BY <1>2, <1>4
        <5>. QED  BY <1>2, <2>6, <5>1
      <4>. QED  BY <2>1, <4>1
    <3>2. index' \in 1..Len(boxes')
      BY <1>1, <1>2, <1>4, <2>1, <2>2
    <3>3. result'[Len(result')] = boxes'[1]
      BY <1>1, <1>2, <1>4, <2>6
    <3>4. \A k \in 1..Len(result) - 1 : \A m \in 1..Len(boxes) - 1 : Apart(result[k], boxes'[m])
      BY <1>2, <2>5
    <3>5. Len(result') + Len(boxes') <= NBoxes + 1
      BY <1>1, <1>2, <1>4, <2>2
    <3>. QED  BY <1>1, <1>2, <2>3, <3>1, <3>2, <3>3, <3>4, <3>5 DEF InnerPart, Apart
  <2>8. Sorted'
    <3>1. ASSUME NEW k \in 1..Len(boxes) - 1, NEW m \in 1..Len(boxes) - 1, k < m
          PROVE  boxes'[k].score >= boxes'[m].score
      <4>1. PICK a \in {k, k + 1}, b \in {m, m + 1} :
              a \in DOMAIN boxes /\ b \in DOMAIN boxes /\ a < b
                /\ boxes'[k] = boxes[a] /\ boxes'[m] = boxes[b]
        <5>1. CASE m < index + 1
          BY <1>4, <2>2, <2>5, <3>1, <5>1
        <5>2. CASE ~(m < index + 1)
          <6>1. boxes'[m] = boxes[m + 1] /\ m + 1 \in DOMAIN boxes
            BY <2>2, <2>5, <5>2
          <6>2. PICK a \in {k, k + 1} : a \in DOMAIN boxes /\ boxes'[k] = boxes[a]
            BY <2>5
          <6>3. a < m + 1
            BY <3>1, <6>2
          <6>. QED  BY <6>1, <6>2, <6>3
        <5>. QED  BY <5>1, <5>2
      <4>. QED  BY <1>3, <4>1
    <3>2. ASSUME NEW k \in DOMAIN result, NEW m \in 1..Len(boxes) - 1
          PROVE  result[k].score >= boxes'[m].score
      BY <1>3, <2>5
    <3>. QED  BY <1>1, <1>3, <2>3, <3>1, <3>2 DEF Sorted
  <2>9. Placed'
    <3>1. ASSUME NEW n \in 1..NBoxes, IsCandidate(n)
          PROVE  \/ \E m \in DOMAIN boxes' : boxes'[m].index = n
                 \/ \E k \in DOMAIN result : result[k].index = n \/ Covers(result[k], n)
      <4>1. \/ \E m \in DOMAIN boxes : boxes[m].index = n
            \/ \E k \in DOMAIN result : result[k].index = n \/ Covers(result[k], n)
        BY <1>1, <3>1 DEF PInv, Placed
      <4>2. ASSUME NEW m \in DOMAIN boxes, boxes[m].index = n, m # index + 1
            PROVE  \E k \in DOMAIN boxes' : boxes'[k].index = n
        <5>1. CASE m < index + 1
          <6>1. m \in 1..Len(boxes) - 1
            BY <1>1, <1>4, <5>1
          <6>2. boxes'[m] = boxes[m]
            BY <2>2, <5>1, <6>1
          <6>. QED  BY <2>3, <4>2, <6>1, <6>2
        <5>2. CASE ~(m < index + 1)
          <6>1. m - 1 \in 1..Len(boxes) - 1 /\ ~(m - 1 < index + 1) /\ m - 1 + 1 = m
            BY <1>4, <4>2, <5>2
          <6>2. boxes'[m - 1] = boxes[m - 1 + 1]
            BY <2>2, <6>1
          <6>3. boxes'[m - 1] = boxes[m]
            BY <6>1, <6>2
          <6>. QED  BY <2>3, <4>2, <6>1, <6>3
        <5>. QED  BY <5>1, <5>2
      <4>3. ASSUME boxes[index + 1].index = n
            PROVE  Covers(result[Len(result)], n) /\ Len(result) \in DOMAIN result
        <5>1. boxes[index + 1] \in AllBoxes
          BY <1>2, <1>6
        <5>2. boxes[index + 1].score = Score(n) /\ boxes[index + 1].rect = Rect(n)
          BY <1>2, <4>3, <5>1, BoxFacts
        <5>3. Len(result) \in DOMAIN result /\ index + 1 \in DOMAIN boxes
          BY <1>2, <1>4, <1>6
        <5>4. result[Len(result)].score >= boxes[index + 1].score
          BY <1>3, <5>3
        <5>. QED  BY <1>2, <1>7, <5>2, <5>3, <5>4 DEF Covers
      <4>. QED  BY <4>1, <4>2, <4>3
    <3>. QED  BY <1>1, <3>1, SameBoxes DEF Placed, Covers
  <2>. QED  BY <1>1, <1>5, <2>4, <2>7, <2>8, <2>9 DEF PInv, Scanned, OuterPart, Over
<1>8. CASE ~IOUExceeds(boxes[1].rect, boxes[index + 1].rect)
  <2>1. index' = index + 1 /\ boxes' = boxes
    BY <1>8 DEF Compare
  <2>2. Shape'
    <3>1. index' \in 0..NBoxes
      BY <1>1, <1>2, <1>4, <2>1
    <3>. QED  BY <1>1, <2>1, <3>1, SameBoxes DEF PInv, Shape
  <2>3. \A m \in 2..index + 1 : Apart(boxes[1], boxes[m])
    <3>1. \A m \in 2..index + 1 : m \in 2..index \/ m = index + 1
      BY <1>4
    <3>. QED  BY <1>2, <1>8, <3>1 DEF Apart
  <2>4. InnerPart'
    BY <1>1, <1>2, <1>6, <2>1, <2>3 DEF InnerPart, Apart
  <2>5. Sorted'
    BY <1>1, <1>3, <2>1 DEF Sorted
  <2>6. Placed'
    BY <1>1, <2>1, SameBoxes DEF PInv, Placed, Covers
  <2>. QED  BY <1>1, <1>5, <2>2, <2>4, <2>5, <2>6 DEF PInv, Scanned, OuterPart, Over
<1>. QED  BY <1>7, <1>8

LEMMA EraseFirstStep == ASSUME PInv, EraseFirst PROVE PInv'
<1>1. /\ pc = "inner" /\ pc' = "outer" /\ result' = result /\ index >= Len(boxes)
      /\ output' = output /\ UNCHANGED <<i, j, maxValue, maxIndex, index>>
      /\ boxes' = Tail(boxes)
  BY DEF EraseFirst, best
<1>2. /\ output \in Outputs /\ boxes \in Seq(AllBoxes) /\ result \in Seq(AllBoxes)
      /\ index \in 1..Len(boxes) /\ Len(result) > 0
      /\ Len(result) + Len(boxes) <= NBoxes + 1
      /\ result[Len(result)] = boxes[1]
      /\ \A k \in 1..Len(result) - 1 : \A m \in DOMAIN boxes : Apart(result[k], boxes[m])
      /\ \A m \in 2..index : Apart(boxes[1], boxes[m])
  BY <1>1 DEF PInv, Shape, InnerPart
<1>3. Len(boxes) \in Nat /\ Len(result) \in Nat /\ index = Len(boxes) /\ boxes # <<>>
  BY <1>1, <1>2
<1>4. /\ boxes' \in Seq(AllBoxes) /\ Len(boxes') = Len(boxes) - 1
      /\ \A m \in 1..Len(boxes) - 1 : boxes'[m] = boxes[m + 1]
  BY <1>1, <1>2, <1>3
<1>5. DOMAIN boxes' = 1..Len(boxes) - 1 /\ DOMAIN boxes = 1..Len(boxes) /\ DOMAIN result = 1..Len(result)
  BY <1>2, <1>4
<1>6. /\ \A k, m \in DOMAIN boxes : k < m => boxes[k].score >= boxes[m].score
      /\ \A k, m \in DOMAIN result : k < m => result[k].score >= result[m].score
      /\ \A k \in DOMAIN result : \A m \in DOMAIN boxes : result[k].score >= boxes[m].score
  BY <1>1 DEF PInv, Sorted
<1>7. \A m \in 1..Len(boxes) - 1 : m + 1 \in 1..Len(boxes) /\ m + 1 \in 2..index
  BY <1>3
<1>8. Shape'
  BY <1>1, <1>4, SameBoxes DEF PInv, Shape
<1>9. KeptApart'
  BY <1>1 DEF PInv, KeptApart
<1>10. OuterPart'
  <2>1. ASSUME NEW k \in 1..Len(result), NEW m \in 1..Len(boxes) - 1
        PROVE  Apart(result[k], boxes'[m])
    <3>1. CASE k \in 1..Len(result) - 1
      BY <1>2, <1>4, <1>5, <1>7, <3>1
    <3>2. CASE k = Len(result)
      BY <1>2, <1>4, <1>7, <3>2
    <3>. QED  BY <1>3, <3>1, <3>2
  <2>2. Len(result') + Len(boxes') <= NBoxes
    BY <1>1, <1>2, <1>3, <1>4
  <2>. QED  BY <1>1, <1>5, <2>1, <2>2 DEF OuterPart, Apart
<1>11. Sorted'
  <2>1. ASSUME NEW k \in 1..Len(boxes) - 1, NEW m \in 1..Len(boxes) - 1, k < m
        PROVE  boxes'[k].score >= boxes'[m].score
    <3>1. k + 1 < m + 1
      BY <2>1
    <3>. QED  BY <1>4, <1>5, <1>6, <1>7, <3>1
  <2>. QED  BY <1>1, <1>4, <1>5, <1>6, <1>7, <2>1 DEF Sorted
<1>12. Placed'
  <2>1. ASSUME NEW n \in 1..NBoxes, IsCandidate(n)
        PROVE  \/ \E m \in DOMAIN boxes' : boxes'[m].index = n
               \/ \E k \in DOMAIN result : result[k].index = n \/ Covers(result[k], n)
    <3>1. \/ \E m \in DOMAIN boxes : boxes[m].index = n
          \/ \E k \in DOMAIN result : result[k].index = n \/ Covers(result[k], n)
      BY <1>1, <2>1 DEF PInv, Placed
    <3>2. ASSUME NEW m \in DOMAIN boxes, boxes[m].index = n, m # 1
          PROVE  \E k \in DOMAIN boxes' : boxes'[k].index = n
      <4>1. m - 1 \in 1..Len(boxes) - 1 /\ m - 1 + 1 = m
        BY <1>3, <1>5, <3>2
      <4>2. boxes'[m - 1] = boxes[m - 1 + 1]
        BY <1>4, <4>1
      <4>. QED  BY <1>5, <3>2, <4>1, <4>2
    <3>3. ASSUME boxes[1].index = n
          PROVE  \E k \in DOMAIN result : result[k].index = n
      <4>1. Len(result) \in DOMAIN result
        BY <1>2, <1>3, <1>5
      <4>. QED  BY <1>2, <3>3, <4>1
    <3>. QED  BY <3>1, <3>2, <3>3
  <2>. QED  BY <1>1, <2>1, SameBoxes DEF Placed, Covers
<1>. QED
  BY <1>1, <1>8, <1>9, <1>10, <1>11, <1>12 DEF PInv, Scanned, InnerPart, Over

(* After the loops only pc moves on.                                       *)
LEMMA OverStep ==
  ASSUME PInv, (pc = "outer" /\ boxes = <<>>) \/ pc \notin {"scan", "outer", "inner"},
         pc' \notin {"scan", "outer", "inner"},
         UNCHANGED <<output, i, j, maxValue, maxIndex, boxes, result, index>>
  PROVE  PInv'
<1>1. Shape'
  BY SameBoxes DEF PInv, Shape
<1>2. Placed'
  <2>1. pc # "scan"
    OBVIOUS
  <2>. QED  BY <2>1, SameBoxes DEF PInv, Placed, Covers
<1>3. Over'
  <2>1. CASE pc = "outer" /\ boxes = <<>>
    <3>1. Len(result) + Len(boxes) <= NBoxes /\ Len(boxes) = 0 /\ Len(result) \in Nat
      BY <2>1 DEF PInv, OuterPart, Shape
    <3>. QED  BY <2>1, <3>1 DEF Over
  <2>2. CASE pc \notin {"scan", "outer", "inner"}
    BY <2>2 DEF PInv, Over
  <2>. QED  BY <2>1, <2>2
<1>4. KeptApart' /\ Sorted'
  BY DEF PInv, KeptApart, Sorted
<1>. QED
  BY <1>1, <1>2, <1>3, <1>4 DEF PInv, Scanned, OuterPart, InnerPart

(* Every step of Process keeps the invariant.                              *)
LEMMA ProcessStep == ASSUME PInv, ProcessNext PROVE PInv'
<1>1. CASE Finish
  BY <1>1, OverStep DEF Finish, best
<1>. QED
  BY <1>1, ScanClassStep, ScanBoxStep, SortStep, KeepStep, CompareStep, EraseFirstStep
     DEF ProcessNext

LEMMA StutterStep == ASSUME PInv, UNCHANGED pvars PROVE PInv'
<1>1. /\ output' = output /\ pc' = pc /\ i' = i /\ j' = j /\ maxValue' = maxValue
      /\ maxIndex' = maxIndex /\ boxes' = boxes /\ result' = result /\ index' = index
  BY DEF pvars, best
<1>2. Shape'
  BY <1>1, SameBoxes DEF PInv, Shape
<1>3. Placed'
  <2>1. CASE pc = "scan"
    BY <1>1, <2>1 DEF Placed
  <2>2. CASE pc # "scan"
    <3>1. \A n \in 1..NBoxes : IsCandidate(n) =>
            \/ \E m \in DOMAIN boxes : boxes[m].index = n
            \/ \E k \in DOMAIN result : result[k].index = n \/ Covers(result[k], n)
      BY <2>2 DEF PInv, Placed
    <3>. QED  BY <1>1, <3>1, SameBoxes DEF Placed, Covers
  <2>. QED  BY <2>1, <2>2
<1>4. BestSoFar' <=> BestSoFar
  BY <1>1 DEF BestSoFar
<1>5. Scanned'
  <2>1. {n \in 1..i : IsCandidate(n)}' = {n \in 1..i : IsCandidate(n)}
    BY <1>1, SameBoxes
  <2>. QED  BY <1>1, <1>4, <2>1 DEF PInv, Scanned
<1>. QED
  BY <1>1, <1>2, <1>3, <1>5 DEF PInv, KeptApart, OuterPart, InnerPart, Sorted, Over, Apart
-----------------------------------------------------------------------------
(***************************************************************************)
(* What the invariant says of the properties.                              *)
(***************************************************************************)
LEMMA PInvScanIsExact == PInv => ScanIsExact
<1>. SUFFICES ASSUME PInv PROVE ScanIsExact
  OBVIOUS
<1>1. output \in Outputs /\ boxes \in Seq(AllBoxes)
  BY DEF PInv, Shape
<1>2. \A k \in DOMAIN boxes : boxes[k] = BoxOf(boxes[k].index)
  BY <1>1, ScoresOfBoxes, BoxFacts
<1>. QED  BY <1>2 DEF PInv, Scanned, ScanIsExact

LEMMA PInvBestFirst == PInv => BestFirst
<1>. SUFFICES ASSUME PInv, NEW k \in 1..Len(result) - 1
              PROVE  result[k].score >= result[k + 1].score
  BY DEF BestFirst
<1>1. result \in Seq(AllBoxes)
  BY DEF PInv, Shape
<1>2. k \in DOMAIN result /\ k + 1 \in DOMAIN result /\ k < k + 1
  BY <1>1
<1>3. pc # "scan"
  BY <1>1, <1>2 DEF PInv, Scanned
<1>. QED  BY <1>2, <1>3 DEF PInv, Sorted

LEMMA PInvDroppedForBetter == PInv => DroppedForBetter
<1>. SUFFICES ASSUME PInv, pc = "done", NEW n \in 1..NBoxes, IsCandidate(n)
              PROVE  \E k \in DOMAIN result :
                       \/ result[k].index = n
                       \/ /\ result[k].score >= Score(n)
                          /\ IOUExceeds(result[k].rect, Rect(n))
  BY DEF DroppedForBetter
<1>1. boxes = <<>>
  BY DEF PInv, Over
<1>2. DOMAIN boxes = {}
  BY <1>1
<1>. QED  BY <1>2 DEF PInv, Placed, Covers
-----------------------------------------------------------------------------
(***************************************************************************)
(* Process returns: each step of its loops takes one off a number that     *)
(* never is negative, the erase in the inner loop, which leaves index      *)
(* where it is, included.                                                  *)
(***************************************************************************)
StepsLeft ==
  CASE pc = "scan"  -> (NBoxes + 1) * (NBoxes + 2)
                         + (NBoxes - i) * (NClasses + 1) + (NClasses - j)
    [] pc = "outer" -> Len(boxes) * (NBoxes + 2) + NBoxes + 1
    [] pc = "inner" -> Len(boxes) * (NBoxes + 2) + Len(boxes) - index
    [] OTHER        -> 0

LEMMA Products ==
  ASSUME NEW a \in Nat, NEW b \in Nat, NEW c \in Nat, a <= b
  PROVE  /\ a * c \in Nat /\ b * c \in Nat /\ a * c <= b * c
         /\ (a + 1) * c = a * c + c
OBVIOUS

(* The boxes that are left, of those there may be.                         *)
LEMMA LengthOfBoxes ==
  ASSUME PInv
  PROVE  /\ Len(boxes) \in Nat
         /\ pc \in {"scan", "outer", "inner"} => Len(boxes) <= NBoxes
         /\ pc = "inner" => index <= Len(boxes)
         /\ i \in Nat /\ i <= NBoxes /\ j \in Nat /\ j <= NClasses /\ index \in Nat
<1>1. boxes \in Seq(AllBoxes) /\ result \in Seq(AllBoxes)
  BY DEF PInv, Shape
<1>2. Len(boxes) \in Nat /\ Len(result) \in Nat
  BY <1>1
<1>3. i \in 0..NBoxes /\ j \in 0..NClasses /\ index \in 0..NBoxes
  BY DEF PInv, Shape
<1>4. CASE pc = "scan"
  BY <1>2, <1>3, <1>4 DEF PInv, Scanned
<1>5. CASE pc = "outer"
  BY <1>2, <1>3, <1>5 DEF PInv, OuterPart
<1>6. CASE pc = "inner"
  BY <1>2, <1>3, <1>6 DEF PInv, InnerPart
<1>. QED  BY <1>2, <1>3, <1>4, <1>5, <1>6

LEMMA StepsLeftType == PInv => StepsLeft \in Nat
<1>. SUFFICES ASSUME PInv PROVE StepsLeft \in Nat
  OBVIOUS
<1>1. /\ Len(boxes) \in Nat /\ NBoxes + 2 \in Nat /\ NBoxes + 1 \in Nat /\ NClasses + 1 \in Nat
      /\ NBoxes - i \in Nat /\ NClasses - j \in Nat
      /\ pc = "inner" => Len(boxes) - index \in Nat
  BY LengthOfBoxes
<1>. DEFINE all == (NBoxes + 1) * (NBoxes + 2)
            left == (NBoxes - i) * (NClasses + 1)
            nms == Len(boxes) * (NBoxes + 2)
<1>2. all \in Nat /\ left \in Nat /\ nms \in Nat
  BY <1>1
<1>3. CASE pc = "scan"
  <2>1. StepsLeft = all + left + (NClasses - j)
    BY <1>3 DEF StepsLeft
  <2>. HIDE DEF all, left
  <2>. QED  BY <1>1, <1>2, <2>1
<1>4. CASE pc = "outer"
  <2>1. StepsLeft = nms + NBoxes + 1
    BY <1>4 DEF StepsLeft
  <2>. HIDE DEF nms
  <2>. QED  BY <1>2, <2>1
<1>5. CASE pc = "inner"
  <2>1. StepsLeft = nms + Len(boxes) - index
    BY <1>5 DEF StepsLeft
  <2>2. Len(boxes) - index \in Nat /\ Len(boxes) \in Nat /\ index \in Nat
    BY <1>1, <1>5, LengthOfBoxes
  <2>. HIDE DEF nms
  <2>. QED  BY <1>2, <2>1, <2>2
<1>6. CASE pc \notin {"scan", "outer", "inner"}
  BY <1>6 DEF StepsLeft
<1>. QED  BY <1>3, <1>4, <1>5, <1>6

LEMMA StepsGetFewer ==
  ASSUME PInv, ProcessNext
  PROVE  StepsLeft' < StepsLeft
<1>. DEFINE all == (NBoxes + 1) * (NBoxes + 2)
            left == (NBoxes - i) * (NClasses + 1)
            nms == Len(boxes) * (NBoxes + 2)
<1>1. /\ Len(boxes) \in Nat /\ i \in Nat /\ j \in Nat /\ index \in Nat
      /\ pc \in {"scan", "outer", "inner"} => Len(boxes) <= NBoxes
      /\ pc = "inner" => index <= Len(boxes)
      /\ i <= NBoxes /\ j <= NClasses
      /\ NBoxes + 2 \in Nat /\ NBoxes + 1 \in Nat /\ NClasses + 1 \in Nat /\ NBoxes - i \in Nat
  BY LengthOfBoxes
<1>2. all \in Nat /\ left \in Nat /\ nms \in Nat
  BY <1>1
<1>3. ASSUME NEW m \in Nat, m <= NBoxes
      PROVE  /\ m * (NBoxes + 2) \in Nat
             /\ (m + 1) * (NBoxes + 2) = m * (NBoxes + 2) + (NBoxes + 2)
             /\ m * (NBoxes + 2) <= NBoxes * (NBoxes + 2) /\ NBoxes * (NBoxes + 2) \in Nat
  BY <1>1, <1>3, Products
<1>4. CASE ScanClass
  <2>1. /\ pc = "scan" /\ pc' = "scan" /\ i' = i /\ j' = j + 1
    BY <1>4 DEF ScanClass
  <2>2. StepsLeft = all + left + (NClasses - j) /\ StepsLeft' = all + left + (NClasses - (j + 1))
    BY <2>1 DEF StepsLeft
  <2>. HIDE DEF all, left
  <2>. QED  BY <1>1, <1>2, <2>2
<1>5. CASE ScanBox
  <2>1. /\ pc = "scan" /\ pc' = "scan" /\ i' = i + 1 /\ j' = 0 /\ i < NBoxes /\ j = NClasses
    BY <1>5 DEF ScanBox
  <2>. DEFINE next == (NBoxes - (i + 1)) * (NClasses + 1)
  <2>2. StepsLeft = all + left + (NClasses - NClasses) /\ StepsLeft' = all + next + (NClasses - 0)
    BY <2>1 DEF StepsLeft
  <2>3. next \in Nat /\ left = next + (NClasses + 1)
    <3>1. PICK m \in Nat : m = NBoxes - (i + 1)
      BY <1>1, <2>1
    <3>2. NBoxes - i = m + 1 /\ NClasses + 1 \in Nat
      BY <1>1, <3>1
    <3>3. (m + 1) * (NClasses + 1) = m * (NClasses + 1) + (NClasses + 1)
          /\ m * (NClasses + 1) \in Nat
      BY <3>2, Products
    <3>. QED  BY <3>1, <3>2, <3>3
  <2>. HIDE DEF all, left, next
  <2>. QED  BY <1>2, <2>2, <2>3
<1>6. CASE Sort
  <2>1. pc = "scan" /\ pc' = "outer" /\ result' = <<>>
    BY <1>6 DEF Sort
  <2>2. StepsLeft = all + left + (NClasses - j)
        /\ StepsLeft' = Len(boxes') * (NBoxes + 2) + NBoxes + 1
    BY <2>1 DEF StepsLeft
  <2>3. Len(boxes') \in Nat /\ Len(boxes') <= NBoxes
    <3>1. boxes' \in Seq(AllBoxes') /\ Len(result') + Len(boxes') <= NBoxes
      BY <1>6, <2>1, SortStep DEF PInv, Shape, OuterPart
    <3>2. Len(boxes') \in Nat /\ Len(<<>>) = 0
      BY <3>1
    <3>. QED  BY <2>1, <3>1, <3>2
  <2>4. /\ Len(boxes') * (NBoxes + 2) \in Nat
        /\ Len(boxes') * (NBoxes + 2) <= NBoxes * (NBoxes + 2)
        /\ all = NBoxes * (NBoxes + 2) + (NBoxes + 2)
        /\ NBoxes * (NBoxes + 2) \in Nat
    <3>1. NBoxes \in Nat /\ NBoxes <= NBoxes
      OBVIOUS
    <3>. QED  BY <1>3, <2>3, <3>1
  <2>5. ASSUME NEW x \in Nat, NEW y \in Nat, NEW z \in Nat, NEW v \in Nat, NEW w \in Nat,
               x <= y, z = y + (NBoxes + 2)
        PROVE  x + NBoxes + 1 < z + v + w
    BY <2>5
  <2>6. NClasses - j \in Nat
    BY <1>1
  <2>. HIDE DEF all, left
  <2>. QED  BY <1>2, <2>2, <2>4, <2>5, <2>6
<1>7. CASE Keep
  <2>1. pc = "outer" /\ pc' = "inner" /\ index' = 1 /\ boxes' = boxes
    BY <1>7 DEF Keep
  <2>2. StepsLeft = nms + NBoxes + 1 /\ StepsLeft' = nms + Len(boxes) - 1
    BY <2>1 DEF StepsLeft
  <2>. HIDE DEF nms
  <2>3. Len(boxes) \in Nat /\ Len(boxes) <= NBoxes
    BY <1>1, <2>1
  <2>. QED  BY <1>2, <2>2, <2>3
<1>8. CASE Compare
  <2>1. pc = "inner" /\ pc' = "inner" /\ index < Len(boxes)
    BY <1>8 DEF Compare
  <2>2. StepsLeft = nms + Len(boxes) - index
        /\ StepsLeft' = Len(boxes') * (NBoxes + 2) + Len(boxes') - index'
    BY <2>1 DEF StepsLeft
  <2>3. CASE boxes' = RemoveAt(boxes, index + 1) /\ index' = index
    <3>1. Len(boxes') = Len(boxes) - 1
      <4>1. boxes \in Seq(AllBoxes) /\ index + 1 \in 1..Len(boxes)
        BY <1>1, <2>1 DEF PInv, Shape
      <4>. QED  BY <2>3, <4>1, RemoveAtIs
    <3>2. PICK m \in Nat : m = Len(boxes') /\ m + 1 = Len(boxes) /\ m <= NBoxes
      BY <1>1, <2>1, <3>1
    <3>3. nms = m * (NBoxes + 2) + (NBoxes + 2) /\ m * (NBoxes + 2) \in Nat
      BY <1>3, <3>2
    <3>. HIDE DEF nms
    <3>4. StepsLeft' = m * (NBoxes + 2) + m - index /\ StepsLeft = nms + (m + 1) - index
      BY <2>2, <2>3, <3>2
    <3>. QED  BY <1>1, <1>2, <3>3, <3>4
  <2>4. CASE boxes' = boxes /\ index' = index + 1
    <3>1. StepsLeft' = nms + Len(boxes) - (index + 1)
      BY <2>2, <2>4
    <3>. HIDE DEF nms
    <3>. QED  BY <1>1, <1>2, <2>2, <3>1
  <2>. QED  BY <1>8, <2>3, <2>4 DEF Compare
<1>9. CASE EraseFirst
  <2>1. pc = "inner" /\ pc' = "outer" /\ boxes' = Tail(boxes) /\ index >= Len(boxes)
    BY <1>9 DEF EraseFirst
  <2>2. StepsLeft = nms + Len(boxes) - index
        /\ StepsLeft' = Len(boxes') * (NBoxes + 2) + NBoxes + 1
    BY <2>1 DEF StepsLeft
  <2>3. PICK m \in Nat : m = Len(boxes') /\ m + 1 = Len(boxes) /\ m <= NBoxes
    <3>1. boxes \in Seq(AllBoxes) /\ boxes # <<>>
      BY <2>1 DEF PInv, Shape, InnerPart
    <3>2. Len(boxes') = Len(boxes) - 1 /\ Len(boxes) - 1 \in Nat
      BY <2>1, <3>1
    <3>3. Len(boxes) \in Nat /\ Len(boxes) <= NBoxes
      BY <1>1, <2>1
    <3>. QED  BY <3>2, <3>3
  <2>4. nms = m * (NBoxes + 2) + (NBoxes + 2) /\ m * (NBoxes + 2) \in Nat
    BY <1>3, <2>3
  <2>. HIDE DEF nms
  <2>5. StepsLeft' = m * (NBoxes + 2) + NBoxes + 1 /\ StepsLeft = nms + Len(boxes) - index
        /\ index = Len(boxes)
    BY <1>1, <2>1, <2>2, <2>3
  <2>. QED  BY <1>1, <1>2, <2>4, <2>5
<1>10. CASE Finish
  <2>1. pc = "outer" /\ pc' = "done"
    BY <1>10 DEF Finish
  <2>2. StepsLeft = nms + NBoxes + 1 /\ StepsLeft' = 0
    BY <2>1 DEF StepsLeft
  <2>. HIDE DEF nms
  <2>. QED  BY <1>2, <2>2
<1>. QED  BY <1>4, <1>5, <1>6, <1>7, <1>8, <1>9, <1>10 DEF ProcessNext
=============================================================================
