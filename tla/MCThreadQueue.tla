---------------------------- MODULE MCThreadQueue ----------------------------
(* Values for the model checking of ThreadQueue.                           *)
EXTENDS ThreadQueue

CONSTANTS c1, c2   \* consumer threads

OneConsumer  == {c1}
TwoConsumers == {c1, c2}

(* What the program calls, RecvThread inserting and detect_func taking,    *)
(* and try_to_expire, which it declares and does not call.                 *)
ProgramOps == {"insert_queue", "get_queue", "try_to_expire"}
EveryOp    == AllOps

=============================================================================
