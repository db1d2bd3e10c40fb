----------------------------- MODULE MCRecvThread -----------------------------
(* Values for the model checking of RecvThread: sizes are scaled down, to  *)
(* packs of 16 bytes and words below 64.                                   *)
EXTENDS RecvThread

CONSTANTS a, b   \* clients

OneClient  == {a}
TwoClients == {a, b}

NoStrangers == {}
OneStranger == {b}

NoFaults   == {}
Losses     == {"lose"}
AnyFault   == {"lose", "duplicate", "delay", "stray", "fail"}

(* Every length of up to three packs, with any id.                         *)
AllLengths == [f \in Frames |-> f + 1]
AllIds     == [f \in Frames |-> (7 * f) % WordMod]

(* Frames of one, two and three packs, none of whose packs is as short as  *)
(* a header, with ids of which that is true when taken for a length.       *)
PlainLengths == [f \in Frames |-> <<9, 25, 41>>[(f % 3) + 1]]
PlainIds     == [f \in Frames |-> <<24, 54, 47, 13>>[(f % 4) + 1]]

(* Ids that a receiver out of step takes for the length of a short frame.  *)
SmallIds == [f \in Frames |-> f]

AnyWords == {0, 5, 20, 63}
=============================================================================
