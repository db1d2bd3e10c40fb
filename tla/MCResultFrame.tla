---------------------------- MODULE MCResultFrame ----------------------------
(* Values for the model checking of ResultFrame and PostProcess.           *)
EXTENDS ResultFrame

(* No class, both classes equally and just at the threshold, the second    *)
(* class best.                                                             *)
SomeScores == {<<3, 3>>, <<4, 4>>, <<5, 9>>}

(* Two boxes that overlap beyond the threshold, a third that overlaps both *)
(* little, a fourth in the corner that reaches beyond the picture.         *)
SomeRects == {[cx |-> 20, cy |-> 20, w |-> 10, h |-> 10],
              [cx |-> 21, cy |-> 20, w |-> 10, h |-> 11],
              [cx |-> 90, cy |-> 90, w |-> 5,  h |-> 4],
              [cx |-> 1,  cy |-> 2,  w |-> 7,  h |-> 2]}

SomeOutputs == [1..NBoxes -> [scores : SomeScores, rect : SomeRects]]
SomeIds     == {0, 2049}
=============================================================================
