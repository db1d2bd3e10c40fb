------------------------------- MODULE Receiver -------------------------------
(***************************************************************************)
(* What src/recv_thread.cpp promises the rest of the program, without      *)
(* datagram sizes, packs or a network: the thread alternates between the   *)
(* head of its loop, where the next header is taken, and the rest of a     *)
(* round, which ends with one item for the queue or with none.             *)
(***************************************************************************)
CONSTANTS
  Clients,         \* senders
  DefaultAddress,  \* client_address before the first header
  Items,           \* what the thread may hand to the queue
  NoItem           \* nothing handed over yet

VARIABLES
  rpc,             \* len: head of the loop, rest: behind the header, crashed
  set,             \* DetectThread::set
  client_address,  \* DetectThread::client_address
  last             \* the last item handed to the queue

rvars == <<rpc, set, client_address, last>>

Init ==
  /\ rpc = "len"
  /\ set = FALSE
  /\ client_address = DefaultAddress
  /\ last = NoItem

(* the address follows whoever sent the last header                        *)
Header_follow(c) ==
  /\ rpc = "len"
  /\ rpc' = "rest"
  /\ set' = TRUE
  /\ client_address' = c
  /\ UNCHANGED last

(* A header from client c.  The first one of all tells the address that    *)
(* results are sent to.                                                    *)
Header(c) ==
  /\ rpc = "len"
  /\ rpc' = "rest"
  /\ set' = TRUE
  /\ client_address' = IF set THEN client_address ELSE c
  /\ UNCHANGED last

(* The sizes agree: the frame goes to the queue.                           *)
Accept ==
  /\ rpc = "rest"
  /\ rpc' = "len"
  /\ last' \in Items
  /\ UNCHANGED <<set, client_address>>

(* They do not: `Received unexpected size pack'.                           *)
Reject ==
  /\ rpc = "rest"
  /\ rpc' = "len"
  /\ UNCHANGED <<set, client_address, last>>

(* recvFrom or resize throws, or a copy destroys the heap.                 *)
Crash ==
  /\ rpc # "crashed"
  /\ rpc' = "crashed"
  /\ UNCHANGED <<set, client_address, last>>

Next == (\E c \in Clients : Header(c)) \/ Accept \/ Reject \/ Crash

Spec == Init /\ [][Next]_rvars
=============================================================================
