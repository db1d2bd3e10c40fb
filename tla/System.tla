-------------------------------- MODULE System --------------------------------
(***************************************************************************)
(* The whole server: main() (src/main.cpp) constructs a RecvThread and a   *)
(* DetectThread, whose constructors start the two threads; the threads     *)
(* meet in a queue of ThreadQueue and in the fields set and client_address *)
(* of the DetectThread, which no lock protects.                            *)
(*                                                                         *)
(* The queue is ThreadQueue itself.  The two threads are Receiver and      *)
(* DetectLoop, which RecvThread and DetectThread implement.  An exception  *)
(* that leaves a thread function or main() ends the whole process.         *)
(***************************************************************************)
EXTENDS Integers, Sequences

CONSTANTS
  Clients,         \* senders, as addresses
  Detector,        \* the thread that runs detect_func
  NoThread,        \* the mutex of the queue is free
  NoClient,        \* no header has come yet
  DefaultAddress,  \* "192.168.50.218" of main()
  Limit,           \* of insert_queue
  MaxInserts       \* bound: frames accepted

ASSUME SystemAssumption ==
  /\ Detector # NoThread
  /\ NoClient \notin Clients
  /\ DefaultAddress \notin Clients
  /\ Limit \in Nat
  /\ MaxInserts \in Nat

VARIABLES
  main,      \* what main() does next: a constructor, the assignment, sleep
  alive,     \* the process has not ended
  rpc, set, client_address,                          \* see Receiver
  queue, owner, pc, call, item,                      \* see ThreadQueue
  expiring, try_expire, should_exit, inserted, delivered,
  dpc,       \* see DetectLoop
  early,     \* history: a header came before recv_thread.detect_thread was set
  first,     \* history: the client whose header came first
  replies,   \* history: what sendTo sent
  givenUp    \* history: frames whose processing failed

qvars == <<queue, owner, pc, call, item, expiring, try_expire, should_exit, inserted, delivered>>
peer  == <<set, client_address>>
hist  == <<early, first, replies, givenUp>>
vars  == <<main, alive, rpc, peer, qvars, dpc, hist>>

Q == INSTANCE ThreadQueue WITH
  Consumers <- {Detector}, Ops <- {"insert_queue", "get_queue"}
R == INSTANCE Receiver WITH Items <- 1..MaxInserts, NoItem <- 0, last <- inserted
D == INSTANCE DetectLoop

Init ==
  /\ main = "RecvThread"
  /\ alive = TRUE
  /\ R!Init
  /\ Q!Init
  /\ D!Init
  /\ early = FALSE
  /\ first = NoClient
  /\ replies = <<>>
  /\ givenUp = {}
-----------------------------------------------------------------------------
(* std::terminate, or a signal                                             *)
Die == alive' = FALSE

(* A constructor of main(), and what main() does after it.  Creating a     *)
(* socket, binding it and starting a thread may throw; nobody catches.     *)
Construct(name, next) ==
  /\ alive
  /\ main = name
  /\ Die \/ UNCHANGED alive
  /\ main' = next
  /\ UNCHANGED <<rpc, peer, qvars, dpc, hist>>

(* sock(serv_port), add_queue(), and the receiver thread is started        *)
RecvThread == Construct("RecvThread", "DetectThread")

(* sock, client_port, set = false, and the detect thread is started        *)
DetectThread == Construct("DetectThread", "assign")

(* recv_thread.detect_thread = &detect_thread, and then sleep(1) for ever  *)
AssignPointer ==
  /\ alive
  /\ main = "assign"
  /\ main' = "sleep"
  /\ UNCHANGED <<alive, rpc, peer, qvars, dpc, hist>>

Receiving == alive /\ main # "RecvThread"
Detecting == alive /\ main \in {"assign", "sleep"}
-----------------------------------------------------------------------------
Heard(c) == first' = IF first = NoClient THEN c ELSE first

(* A header while detect_thread points to the DetectThread.                *)
Header(c) ==
  /\ Receiving
  /\ main = "sleep"
  /\ R!Header(c)
  /\ Heard(c)
  /\ UNCHANGED <<main, alive, qvars, dpc, early, replies, givenUp>>

(* A header before that, or before the receiver sees it: set is read       *)
(* through a pointer that was never assigned, and the process ends, or     *)
(* what is found is taken for a set address, or setip writes where nobody  *)
(* looks.                                                                  *)
EarlyHeader(c) ==
  /\ Receiving
  /\ main # "sleep"
  /\ rpc = "len"
  /\ Die \/ UNCHANGED alive
  /\ rpc' = "rest"
  /\ Heard(c)
  /\ early' = TRUE
  /\ UNCHANGED <<main, peer, qvars, dpc, replies, givenUp>>

(* The frame is whole: insert_queue, when the mutex is free.               *)
Accept ==
  /\ Receiving
  /\ Q!insert_queue
  /\ R!Accept
  /\ UNCHANGED <<main, alive, dpc, hist>>

Reject ==
  /\ Receiving
  /\ R!Reject
  /\ UNCHANGED <<main, alive, qvars, dpc, hist>>

RecvCrash ==
  /\ Receiving
  /\ R!Crash
  /\ Die
  /\ UNCHANGED <<main, qvars, dpc, hist>>
-----------------------------------------------------------------------------
(* ModelProcess: Init, LoadModel and GetModelInputWH                       *)
Initialise ==
  /\ Detecting
  /\ D!Start \/ D!GiveUpThread
  /\ UNCHANGED <<main, alive, rpc, peer, qvars, hist>>

(* what get_queue returned is ignored                                      *)
GetQueue_unchecked ==
  /\ Detecting
  /\ dpc = "get"
  /\ Q!Consume(Detector)
  /\ IF pc'[Detector] = "idle" THEN D!Take ELSE UNCHANGED dpc
  /\ UNCHANGED <<main, alive, rpc, peer, hist>>

(* A step of get_queue; when it returns false the loop goes round.         *)
GetQueue ==
  /\ Detecting
  /\ dpc = "get"
  /\ Q!Consume(Detector)
  /\ IF delivered' # delivered THEN D!Take ELSE UNCHANGED dpc
  /\ UNCHANGED <<main, alive, rpc, peer, hist>>

Spurious ==
  /\ Detecting
  /\ Q!SpuriousWakeup(Detector)
  /\ UNCHANGED <<main, alive, rpc, peer, dpc, hist>>

(* The processing fails and is logged, or comes to its end.                *)
GiveUpItem ==
  /\ Detecting
  /\ D!GiveUpItem
  /\ givenUp' = givenUp \cup {item[Detector]}
  /\ UNCHANGED <<main, alive, rpc, peer, qvars, early, first, replies>>

Compute ==
  /\ Detecting
  /\ D!Compute
  /\ UNCHANGED <<main, alive, rpc, peer, qvars, hist>>

(* client_address is read with no lock.                                    *)
Send ==
  /\ Detecting
  /\ D!Send
  /\ replies' = Append(replies, [frame |-> item[Detector], to |-> client_address])
  /\ UNCHANGED <<main, alive, rpc, peer, qvars, early, first, givenUp>>

DetectCrash ==
  /\ Detecting
  /\ D!Crash
  /\ Die
  /\ UNCHANGED <<main, rpc, peer, qvars, hist>>

Start  == RecvThread \/ DetectThread \/ AssignPointer
Detect == Initialise \/ GetQueue \/ GiveUpItem \/ Compute \/ Send \/ DetectCrash

Next ==
  \/ Start
  \/ (\E c \in Clients : Header(c) \/ EarlyHeader(c)) \/ Accept \/ Reject \/ RecvCrash
  \/ Detect \/ Spurious

Spec == Init /\ [][Next]_vars

(* main() and the detect thread do not stop between two statements.        *)
(* Nothing is assumed of the clients or of the receiver.                   *)
FairSpec == Spec /\ WF_vars(Start) /\ WF_vars(Detect)
-----------------------------------------------------------------------------
TypeOK ==
  /\ main \in {"RecvThread", "DetectThread", "assign", "sleep"}
  /\ alive \in BOOLEAN
  /\ rpc \in {"len", "rest", "crashed"}
  /\ set \in BOOLEAN
  /\ client_address \in Clients \cup {DefaultAddress}
  /\ Q!TypeOK
  /\ dpc \in {"init", "get", "work", "send", "ended", "crashed"}
  /\ early \in BOOLEAN
  /\ first \in Clients \cup {NoClient}
  /\ replies \in Seq([frame : 1..MaxInserts, to : Clients \cup {DefaultAddress}])
  /\ givenUp \subseteq 1..MaxInserts
-----------------------------------------------------------------------------
(***************************************************************************)
(* Properties                                                              *)
(***************************************************************************)

(* Every result goes to the client that was heard first, never to the      *)
(* address main() was written with, although the address is learnt by one  *)
(* thread and read by the other with no lock; unless a header came before  *)
(* main() had connected the two.                                           *)
ReplyToFirstClient ==
  early \/ \A i \in DOMAIN replies : replies[i].to = first

(* client_address is a std::string: it must not be written while sendTo    *)
(* may read it.  After the first item was queued it never is, with the     *)
(* same exception.                                                         *)
AddressNotRaced == [][~early /\ inserted > 0 => UNCHANGED peer]_vars

(* No frame vanishes between the threads: one that was accepted is in the  *)
(* queue, in the hands of the detect thread, answered or given up, and in  *)
(* one of these places only; or it was superseded by a full queue.         *)
InWork == IF dpc \in {"work", "send", "crashed"} THEN {item[Detector]} ELSE {}

NoFrameVanishes ==
  LET sent   == {replies[i].frame : i \in DOMAIN replies}
      queued == {queue[i] : i \in DOMAIN queue}
  IN  /\ \A k \in 1..inserted : inserted - k > Limit \/ k \in sent \cup queued \cup InWork \cup givenUp
      /\ sent \cap givenUp = {}
      /\ InWork \cap (sent \cup givenUp) = {}
      /\ queued \cap (sent \cup givenUp \cup InWork) = {}

(* Every accepted frame is answered, given up or superseded in the end,    *)
(* unless the model could not be loaded or the process ended.              *)
EveryFrameSettled ==
  \A k \in 1..MaxInserts :
    (inserted >= k) ~>
      \/ \E i \in DOMAIN replies : replies[i].frame >= k
      \/ \E j \in givenUp : j >= k
      \/ dpc = "ended" /\ delivered = <<>>
      \/ ~alive

(* The server implements the service: answers in the order of the frames,  *)
(* none twice, all to one address once it is known.                        *)
Service == INSTANCE DetectService WITH
  accepted <- inserted, settled <- set, address <- client_address, answered <- replies

ImplementsService == Service!Spec
=============================================================================
