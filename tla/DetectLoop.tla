------------------------------ MODULE DetectLoop ------------------------------
(***************************************************************************)
(* What detect_func (src/detect_thread.cpp) promises the rest of the       *)
(* program, without the objects of the Ascend library: after an            *)
(* initialisation that may fail it takes items one at a time, for ever;    *)
(* each is given up or leads to one sendTo.                                *)
(***************************************************************************)
VARIABLE dpc   \* init, get, work (on an item), send, ended (returned), crashed

Init == dpc = "init"

(* The model is loaded and its input size known.                           *)
Start == dpc = "init" /\ dpc' = "get"

(* CHECK_FUNCTION_RESULT: return -1                                        *)
GiveUpThread == dpc = "init" /\ dpc' = "ended"

(* get_queue returned true                                                 *)
Take == dpc = "get" /\ dpc' = "work"

(* CHECK_FUNCTION_RESULT with its return in place of the continue          *)
GiveUpItem_return == dpc = "work" /\ dpc' = "ended"

(* CHECK_FUNCTION_RESULT_NOTQUIT: continue                                 *)
GiveUpItem == dpc = "work" /\ dpc' = "get"

(* The result is ready to be sent.                                         *)
Compute == dpc = "work" /\ dpc' = "send"

Send == dpc = "send" /\ dpc' = "get"

(* A null pointer is read, or sendTo throws.                               *)
Crash == dpc \in {"work", "send"} /\ dpc' = "crashed"

Next ==
  Start \/ GiveUpThread \/ Take \/ GiveUpItem \/ Compute \/ Send \/ Crash

Spec == Init /\ [][Next]_dpc
=============================================================================
