----------------------------- MODULE FrameWindow -----------------------------
(***************************************************************************)
(* What inc/thread_queue.h promises its users, without mutexes, condition  *)
(* variables or a container.                                               *)
(*                                                                         *)
(* The items put into one queue form a stream numbered 1, 2, 3, ... in the *)
(* order in which insert_queue accepted them.  The queue is a window over  *)
(* that stream: the items after `gone`, up to `newest`.  An insertion      *)
(* extends the window at the new end and may give up items at the old end; *)
(* a delivery removes the oldest item of the window and hands it to one    *)
(* consumer.                                                               *)
(***************************************************************************)
EXTENDS Naturals, Sequences

CONSTANTS
  Keep   \* the numbers of older items an insertion may leave in place

VARIABLES
  newest,     \* number of the last item put into the stream
  gone,       \* items 1..gone have left the window
  delivered   \* the numbers handed to consumers, in the order of delivery

wvars == <<newest, gone, delivered>>

Init ==
  /\ newest = 0
  /\ gone = 0
  /\ delivered = <<>>

(* The oldest items are given up only to leave k of them.                  *)
GiveUpTo(k) == IF newest - gone > k THEN newest - k ELSE gone

(* An item arrives.  It leaves the window holding the most recent items:   *)
(* at most k older ones beside the new one.                                *)
Put ==
  /\ newest' = newest + 1
  /\ \E k \in Keep : gone' = GiveUpTo(k)
  /\ UNCHANGED delivered

(* The oldest item of the window is handed to a consumer.                  *)
Deliver ==
  /\ gone < newest
  /\ gone' = gone + 1
  /\ delivered' = Append(delivered, gone + 1)
  /\ UNCHANGED newest

Next == Put \/ Deliver

Spec == Init /\ [][Next]_wvars

(* With a consumer that keeps asking, a non-empty window does not stay     *)
(* undelivered.                                                            *)
FairSpec == Spec /\ WF_wvars(Deliver)
=============================================================================
