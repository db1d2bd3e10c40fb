----------------------------- MODULE PostProcess -----------------------------
(***************************************************************************)
(* src/post_process.cpp, PostProcess::Process(result): from the tensors    *)
(* the model computed to the boxes that are sent.  The scan keeps, with    *)
(* its best class, every box that scores enough; non-maximum suppression   *)
(* then keeps the best of each group of boxes that overlap.                *)
(*                                                                         *)
(* Floats are scaled to integers: a score is in tenths in the tensor and   *)
(* in percent in a box; a length is in pixels in the tensor, in half       *)
(* pixels in a box (the code halves the width and the height once).        *)
(***************************************************************************)
EXTENDS Integers, Sequences, SequencesExt

CONSTANTS
  NBoxes,          \* kModelOutputBoxNum
  NClasses,        \* kClassNum
  ScoreThreshold,  \* kScoreThreshold, in tenths
  NMSThreshold,    \* kNMSThreshold, in tenths
  XScale, YScale,  \* xScale_, yScale_
  Outputs          \* the tensors considered: per box, scores and rectangle

ASSUME PostAssumption ==
  /\ NBoxes \in Nat
  /\ NClasses \in Nat \ {0}
  /\ ScoreThreshold \in Nat \ {0}
  /\ NMSThreshold \in Nat
  /\ XScale \in Nat \ {0} /\ YScale \in Nat \ {0}
  /\ \A o \in Outputs : /\ DOMAIN o = 1..NBoxes
                        /\ \A n \in 1..NBoxes :
                             /\ o[n].scores \in [1..NClasses -> Nat]
                             /\ o[n].rect \in [cx : Int, cy : Int, w : Int, h : Int]

VARIABLES
  output,    \* outputClass_ and outputBox_
  pc,        \* scan, outer and inner loop of NMS, done
  i, j,      \* boxes, and classes of the next box, scanned so far
  maxValue, maxIndex,   \* the best of these classes, counted from 0
  boxes,
  result,
  index      \* of the inner loop: position, from 0, of the box to compare

best  == <<j, maxValue, maxIndex>>
pvars == <<output, pc, i, best, boxes, result, index>>

ProcessInit ==
  /\ output \in Outputs
  /\ pc = "scan"
  /\ i = 0
  /\ j = 0 /\ maxValue = 0 /\ maxIndex = 0
  /\ boxes = <<>>
  /\ result = <<>>
  /\ index = 0
-----------------------------------------------------------------------------
(* a later class of the same score wins                                    *)
ScanClass_last ==
  /\ pc = "scan"
  /\ i < NBoxes /\ j < NClasses
  /\ j' = j + 1
  /\ LET value == output[i + 1].scores[j + 1]
     IN  IF value >= maxValue
           THEN maxValue' = value /\ maxIndex' = j
           ELSE UNCHANGED <<maxValue, maxIndex>>
  /\ UNCHANGED <<output, pc, i, boxes, result, index>>

(* One round of the loop over the classes.                                 *)
ScanClass ==
  /\ pc = "scan"
  /\ i < NBoxes /\ j < NClasses
  /\ j' = j + 1
  /\ LET value == output[i + 1].scores[j + 1]
     IN  IF value > maxValue
           THEN maxValue' = value /\ maxIndex' = j
           ELSE UNCHANGED <<maxValue, maxIndex>>
  /\ UNCHANGED <<output, pc, i, boxes, result, index>>

(* SetBoxInfo_v2: from centre and size to two corners.  The lower right    *)
(* corner goes to the fields w and h.                                      *)
SetBoxInfo_v2(r) ==
  [x |-> 2 * r.cx * XScale - r.w * XScale, w |-> 2 * r.cx * XScale + r.w * XScale,
   y |-> 2 * r.cy * YScale - r.h * YScale, h |-> 2 * r.cy * YScale + r.h * YScale]

(* The box of the scan, numbered from 1.                                   *)
Found ==
  [rect |-> SetBoxInfo_v2(output[i + 1].rect), score |-> 10 * maxValue,
   classIndex |-> maxIndex, index |-> i + 1]

(* The end of a round of the loop over the boxes.                          *)
ScanBox ==
  /\ pc = "scan"
  /\ i < NBoxes /\ j = NClasses
  /\ i' = i + 1
  /\ j' = 0 /\ maxValue' = 0 /\ maxIndex' = 0
  /\ boxes' = IF maxValue >= ScoreThreshold /\ maxIndex < NClasses
                THEN Append(boxes, Found)
                ELSE boxes
  /\ UNCHANGED <<output, pc, result, index>>
-----------------------------------------------------------------------------
(* the order reversed                                                      *)
SortScore_ascending(box1, box2) == box1.score < box2.score

SortScore(box1, box2) == box1.score > box2.score

(* std::sort leaves the order of equal boxes open.                         *)
Sort ==
  /\ pc = "scan"
  /\ i = NBoxes
  /\ result' = <<>>
  /\ \E p \in Bijection(DOMAIN boxes, DOMAIN boxes) :
       boxes' = [k \in DOMAIN boxes |-> boxes[p[k]]]
  /\ \A k, m \in DOMAIN boxes : k < m => ~SortScore(boxes'[m], boxes'[k])
  /\ pc' = "outer"
  /\ UNCHANGED <<output, i, best, index>>

(* IOU.  w and h are used as width and height here; one pixel, two halves, *)
(* is added to each side.                                                  *)
Area(a, b) ==
  LET x1 == Max({a.x, b.x})  x2 == Min({a.x + a.w, b.x + b.w})
      y1 == Max({a.y, b.y})  y2 == Min({a.y + a.h, b.y + b.h})
  IN  Max({0, x2 - x1 + 2}) * Max({0, y2 - y1 + 2})

Rest(a, b) == a.w * a.h + b.w * b.h - Area(a, b)

(* iou > kNMSThreshold for iou = Area / Rest in floating point: x/0 is     *)
(* infinite for x > 0 and 0/0 is not a number.                             *)
IOUExceeds(a, b) ==
  \/ Rest(a, b) > 0 /\ 10 * Area(a, b) > NMSThreshold * Rest(a, b)
  \/ Rest(a, b) = 0 /\ Area(a, b) > 0

(* result.push_back(boxes[0])                                              *)
Keep ==
  /\ pc = "outer"
  /\ boxes # <<>>
  /\ result' = Append(result, boxes[1])
  /\ index' = 1
  /\ pc' = "inner"
  /\ UNCHANGED <<output, i, best, boxes>>

(* the next box skipped after an erase                                     *)
Compare_skip ==
  /\ pc = "inner"
  /\ index < Len(boxes)
  /\ index' = index + 1
  /\ boxes' = IF IOUExceeds(boxes[1].rect, boxes[index + 1].rect)
                THEN RemoveAt(boxes, index + 1)
                ELSE boxes
  /\ UNCHANGED <<output, pc, i, best, result>>

(* continue without the erase                                              *)
Compare_stuck ==
  /\ pc = "inner"
  /\ index < Len(boxes)
  /\ index' = IF IOUExceeds(boxes[1].rect, boxes[index + 1].rect) THEN index ELSE index + 1
  /\ UNCHANGED <<output, pc, i, best, boxes, result>>

(* the boxes that do not overlap erased                                    *)
Compare_apart ==
  /\ pc = "inner"
  /\ index < Len(boxes)
  /\ IF IOUExceeds(boxes[1].rect, boxes[index + 1].rect)
       THEN index' = index + 1 /\ UNCHANGED boxes
       ELSE boxes' = RemoveAt(boxes, index + 1) /\ UNCHANGED index
  /\ UNCHANGED <<output, pc, i, best, result>>

(* One round of the inner loop.                                            *)
Compare ==
  /\ pc = "inner"
  /\ index < Len(boxes)
  /\ IF IOUExceeds(boxes[1].rect, boxes[index + 1].rect)
       THEN boxes' = RemoveAt(boxes, index + 1) /\ UNCHANGED index
       ELSE index' = index + 1 /\ UNCHANGED boxes
  /\ UNCHANGED <<output, pc, i, best, result>>

(* the kept box not erased                                                 *)
EraseFirst_missing ==
  /\ pc = "inner"
  /\ index >= Len(boxes)
  /\ pc' = "outer"
  /\ UNCHANGED <<output, i, best, boxes, result, index>>

(* boxes.erase(boxes.begin())                                              *)
EraseFirst ==
  /\ pc = "inner"
  /\ index >= Len(boxes)
  /\ boxes' = Tail(boxes)
  /\ pc' = "outer"
  /\ UNCHANGED <<output, i, best, result, index>>

Finish ==
  /\ pc = "outer"
  /\ boxes = <<>>
  /\ pc' = "done"
  /\ UNCHANGED <<output, i, best, boxes, result, index>>

ProcessNext == ScanClass \/ ScanBox \/ Sort \/ Keep \/ Compare \/ EraseFirst \/ Finish
-----------------------------------------------------------------------------
(***************************************************************************)
(* Properties                                                              *)
(***************************************************************************)

(* What Process promises of the scan: the boxes with a class that scores   *)
(* enough, each under the first of its best classes.                       *)
IsCandidate(n) == \E c \in 1..NClasses : output[n].scores[c] >= ScoreThreshold

FirstOf(s) == Min({c \in 1..NClasses : \A d \in 1..NClasses : s[c] >= s[d]})

FirstBest(n) == FirstOf(output[n].scores)

Score(n) == 10 * output[n].scores[FirstBest(n)]

Rect(n) == SetBoxInfo_v2(output[n].rect)

BoxOf(n) ==
  [rect |-> Rect(n), score |-> Score(n), classIndex |-> FirstBest(n) - 1, index |-> n]

(* No box is lost or made up by the scan, and none is filed under a class  *)
(* that is not the first of its best ones, or with the score or the        *)
(* rectangle of another, however often it is moved by NMS.                 *)
ScanIsExact ==
  /\ pc = "scan" => {boxes[k].index : k \in DOMAIN boxes} = {n \in 1..i : IsCandidate(n)}
  /\ \A k \in DOMAIN boxes : boxes[k] = BoxOf(boxes[k].index)

(* The results come best first, although they are collected while boxes    *)
(* shrinks under two loops.                                                *)
BestFirst ==
  \A k \in 1..Len(result) - 1 : result[k].score >= result[k + 1].score

(* Two boxes of the result never overlap beyond the threshold: no pair is  *)
(* skipped when an erase moves the boxes under index.                      *)
KeptApart ==
  \A k, m \in DOMAIN result : k < m => ~IOUExceeds(result[k].rect, result[m].rect)

(* Nothing is suppressed but by a kept box at least as good that overlaps  *)
(* it beyond the threshold.                                                *)
DroppedForBetter ==
  pc = "done" =>
    \A n \in 1..NBoxes : IsCandidate(n) =>
      \E k \in DOMAIN result :
        \/ result[k].index = n
        \/ /\ result[k].score >= Score(n)
           /\ IOUExceeds(result[k].rect, Rect(n))

(* Process returns: both loops of NMS end, although the inner one goes on  *)
(* without moving index after an erase.                                    *)
ProcessReturns == <>(pc = "done")

(* "@return result, iou value" (inc/post_process.h): the quotient of an    *)
(* intersection and a union lies between 0 and 1.                          *)
IOUIsRatio ==
  \A k, m \in DOMAIN boxes :
    LET a == boxes[k].rect  b == boxes[m].rect
    IN  k # m => Rest(a, b) >= 0 /\ Area(a, b) <= Rest(a, b)
=============================================================================
