---------------------------- MODULE DetectService ----------------------------
(***************************************************************************)
(* What the server promises its clients, without threads, a queue or a     *)
(* start-up.  The frames it accepts form a stream numbered 1, 2, 3, ...;   *)
(* it answers some of them, in the order of the stream and none twice, and *)
(* the answers all go where the first client is, once that is settled.     *)
(***************************************************************************)
EXTENDS Integers, Sequences

CONSTANTS Clients, DefaultAddress

VARIABLES
  accepted,   \* frames accepted so far
  settled,    \* a client has been heard
  address,    \* where answers go
  answered    \* the answers, in order: the frame and where it went

svars == <<accepted, settled, address, answered>>

Init ==
  /\ accepted = 0
  /\ settled = FALSE
  /\ address = DefaultAddress
  /\ answered = <<>>

Settle(c) ==
  /\ ~settled
  /\ settled' = TRUE
  /\ address' = c
  /\ UNCHANGED <<accepted, answered>>

Accept ==
  /\ accepted' = accepted + 1
  /\ UNCHANGED <<settled, address, answered>>

Answer(k) ==
  /\ \A i \in 1..Len(answered) : answered[i].frame < k
  /\ answered' = Append(answered, [frame |-> k, to |-> address])
  /\ UNCHANGED <<accepted, settled, address>>

Next ==
  \/ \E c \in Clients : Settle(c)
  \/ Accept
  \/ \E k \in 1..accepted : Answer(k)

Spec == Init /\ [][Next]_svars
=============================================================================
