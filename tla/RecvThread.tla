------------------------------ MODULE RecvThread ------------------------------
(***************************************************************************)
(* src/recv_thread.cpp: the thread that reassembles frames from UDP        *)
(* datagrams.  A client sends, for one frame, a datagram with its length,  *)
(* one with its id, and its bytes in packs of PACK_SIZE.  The datagrams    *)
(* carry no type and no number: what one means depends on how many came    *)
(* before it.                                                              *)
(*                                                                         *)
(* The clients are not part of the repository.  They are modelled as the   *)
(* receiver expects them: each sends its frames one after the other, over  *)
(* and over.  The network hands the receiver a client's datagrams in       *)
(* order, but for a bounded number of faults.  A datagram of a client that *)
(* otherwise keeps silent, a stranger, counts as a fault.                  *)
(***************************************************************************)
EXTENDS Integers, Sequences

CONSTANTS
  Clients,        \* senders; one stands for its address and its port
  Strangers,      \* clients that send only now and then, each time a fault
  NFrames,        \* a client cycles through the frames 0..NFrames-1
  FrameLen,       \* length in bytes of each frame
  FrameId,        \* the id sent with each frame
  IntSize,        \* sizeof(int)
  PackSize,       \* PACK_SIZE
  WordMod,        \* 2^32: total_length is a uint32_t
  Words,          \* what the bytes of a short pack may read as
  AllocLimit,     \* resize() may throw for more bytes than this
  FaultKinds,     \* the faults of this instance
  MaxFaults,      \* bound: faults considered
  NoDatagram,     \* no datagram is late; also: nothing inserted yet
  DefaultAddress, \* client_address of the constructor call in main()
  ListenPort      \* 10001

Frames == 0..NFrames - 1

ASSUME RecvAssumption ==
  /\ NFrames \in Nat \ {0}
  /\ FrameLen \in [Frames -> 1..WordMod - 1]
  /\ FrameId \in [Frames -> 0..WordMod - 1]
  /\ IntSize \in Nat \ {0}
  /\ PackSize \in Nat \ {0}
  /\ WordMod \in Nat \ {0}
  /\ Words \subseteq 0..WordMod - 1
  /\ AllocLimit \in Nat
  /\ Strangers \subseteq Clients
  /\ FaultKinds \subseteq {"lose", "duplicate", "delay", "stray", "fail"}
  /\ MaxFaults \in Nat
  /\ {DefaultAddress, ListenPort} \cap Clients = {}

VARIABLES
  cursor,         \* per client: the frame and the part it sends next
  late,           \* a datagram the network holds back, or NoDatagram
  faults,         \* faults so far
  pc,             \* the recvFrom the thread is in: len (27), id (36), pack (44)
  id,             \* the last frame id that was read
  total_length,   \* this and the next four are local to one round of the
  total_pack,     \*   while loop: 0, or empty, outside their scope
  i,
  recv_length,
  longbuf,        \* the <<frame, part>> whose bytes were copied, in order
  overrun,        \* a memcpy went past the end of longbuf
  item,           \* the last item given to insert_queue
  set,            \* DetectThread::set
  client_address, \* DetectThread::client_address
  serv_port       \* RecvThread::serv_port

net   == <<cursor, late, faults>>
frame == <<total_length, total_pack, id, i, recv_length, longbuf>>
peer  == <<set, client_address>>
vars  == <<net, pc, frame, overrun, item, peer, serv_port>>
-----------------------------------------------------------------------------
(* The client's side.  Part 0 of a frame is its length, part 1 its id and  *)
(* part k + 1 its k-th pack.                                               *)
NPacks(f) == (FrameLen[f] - 1) \div PackSize + 1
LastPart(f) == NPacks(f) + 1

PartSize(f, k) ==
  CASE k <= 1          -> IntSize
    [] k = LastPart(f) -> FrameLen[f] - (NPacks(f) - 1) * PackSize
    [] OTHER           -> PackSize

PartsOf(f) == [k \in 1..NPacks(f) |-> <<f, k + 1>>]

Datagram(c) ==
  LET f == cursor[c].frame  k == cursor[c].part
  IN  [src |-> c, frame |-> f, part |-> k, size |-> PartSize(f, k)]

After(cur) ==
  IF cur.part = LastPart(cur.frame)
    THEN [frame |-> (cur.frame + 1) % NFrames, part |-> 0]
    ELSE [cur EXCEPT !.part = @ + 1]

Advance(c) == cursor' = [cursor EXCEPT ![c] = After(@)]

(* The int at the start of buffer after a datagram of at most IntSize      *)
(* bytes.  A pack holds arbitrary bytes, and one shorter than an int       *)
(* leaves some of the word to what the buffer held before.                 *)
FirstWord(d) ==
  CASE d.part = 0 -> {FrameLen[d.frame]}
    [] d.part = 1 -> {FrameId[d.frame]}
    [] OTHER      -> Words
-----------------------------------------------------------------------------
Init ==
  /\ cursor = [c \in Clients |-> [frame |-> 0, part |-> 0]]
  /\ late = NoDatagram
  /\ faults = 0
  /\ pc = "len"
  /\ total_length = 0 /\ total_pack = 0 /\ id = 0
  /\ i = 0 /\ recv_length = 0 /\ longbuf = <<>>
  /\ overrun = FALSE
  /\ item = NoDatagram
  /\ set = FALSE
  /\ client_address = DefaultAddress
  /\ serv_port = ListenPort
-----------------------------------------------------------------------------
(* recvFrom(buffer, BUF_LEN, sourceAddress, handler->serv_port): the       *)
(* sender's port overwrites the port the server listens on; the local      *)
(* variable sourcePort is never used.  sourceAddress is d.src.             *)
recvFrom(d) == serv_port' = d.src

(* client_address = address; set = true.                                   *)
setip(address) ==
  /\ client_address' = address
  /\ set' = TRUE

(* set not tested: the address follows whoever sent the last header        *)
LatchAddress_always(d) == setip(d.src)

(* if (!set) setip(sourceAddress)                                          *)
LatchAddress(d) == IF set THEN UNCHANGED peer ELSE setip(d.src)

(* length / PACK_SIZE + 1: one pack too many for a multiple of PACK_SIZE   *)
TotalPack_plus1(n) == 1 + (n % WordMod) \div PackSize

(* In unsigned arithmetic: length 0 asks for WordMod / PackSize packs.     *)
TotalPack(n) == 1 + ((n - 1) % WordMod) \div PackSize

(* a header is taken from whatever comes                                   *)
Drained_never(d) == FALSE

(* while (recvMsgSize > sizeof(int)): longer datagrams are drained; the    *)
(* next one is the header.                                                 *)
Drained(d) == d.size > IntSize

(* for (int i = 0; i < total_pack; i++) goes on after the current pack     *)
MorePacks_late == i < total_pack
MorePacks == i + 1 < total_pack

(* !(recv_length != total_length): int and uint32_t compared as uint32_t   *)
SizesMatch_always(received) == TRUE
SizesMatch(received) == received % WordMod = total_length

(* memcpy to the front of longbuf instead of behind recv_length            *)
Copied_front(d) == <<<<d.frame, d.part>>>>

(* memcpy(longbuf.data() + recv_length, buffer, recvMsgSize)               *)
Copied(d) == Append(longbuf, <<d.frame, d.part>>)

(* The length datagram.  The first one of all also tells the address.      *)
RecvLength(d) ==
  /\ pc = "len"
  /\ IF Drained(d)
       THEN UNCHANGED <<pc, frame, peer>>
       ELSE /\ \E w \in FirstWord(d) : /\ total_length' = w
                                       /\ total_pack' = TotalPack(w)
            /\ LatchAddress(d)
            /\ pc' = "id"
            /\ UNCHANGED <<id, i, recv_length, longbuf>>
  /\ UNCHANGED <<overrun, item>>

(* The id datagram; then longbuf.resize(total_length), which throws when   *)
(* there is no memory for it: nobody catches, the process ends.            *)
RecvId(d) ==
  /\ pc = "id"
  /\ IF Drained(d)
       THEN UNCHANGED <<pc, id>>
       ELSE /\ \E w \in FirstWord(d) : id' = w
            /\ \/ pc' = "pack"
               \/ total_length > AllocLimit /\ pc' = "crashed"
  /\ UNCHANGED <<total_length, total_pack, i, recv_length, longbuf, overrun, item, peer>>

(* A pack is copied behind the earlier ones; after the last one the total  *)
(* is compared with the announced length.  A copy past the end of longbuf  *)
(* may destroy the heap or go unnoticed.                                   *)
RecvPack(d) ==
  LET received == recv_length + d.size
      beyond   == received > total_length
  IN
  /\ pc = "pack"
  /\ overrun' = (overrun \/ beyond)
  /\ \/ /\ MorePacks
        /\ i' = i + 1
        /\ recv_length' = received
        /\ longbuf' = Copied(d)
        /\ UNCHANGED <<pc, total_length, total_pack, id, item>>
     \/ /\ ~MorePacks
        /\ IF SizesMatch(received)
             THEN item' = [id |-> id, data |-> Copied(d)]
             ELSE UNCHANGED item
        /\ pc' = "len"
        /\ total_length' = 0 /\ total_pack' = 0
        /\ i' = 0 /\ recv_length' = 0 /\ longbuf' = <<>>
        /\ UNCHANGED id
     \/ /\ beyond
        /\ pc' = "crashed"
        /\ UNCHANGED <<frame, item>>
  /\ UNCHANGED peer

Receive(d) == recvFrom(d) /\ (RecvLength(d) \/ RecvId(d) \/ RecvPack(d))
-----------------------------------------------------------------------------
Fault(kind) ==
  /\ kind \in FaultKinds
  /\ faults < MaxFaults
  /\ faults' = faults + 1

Deliver(c) ==
  /\ Receive(Datagram(c))
  /\ Advance(c)
  /\ UNCHANGED <<late, faults>>

Duplicate(c) ==
  /\ Fault("duplicate")
  /\ Receive(Datagram(c))
  /\ UNCHANGED <<cursor, late>>

Lose(c) ==
  /\ Fault("lose")
  /\ Advance(c)
  /\ UNCHANGED <<late, pc, frame, overrun, item, peer, serv_port>>

Delay(c) ==
  /\ Fault("delay")
  /\ late = NoDatagram
  /\ late' = Datagram(c)
  /\ Advance(c)
  /\ UNCHANGED <<pc, frame, overrun, item, peer, serv_port>>

Stray(c) ==
  /\ Fault("stray")
  /\ Receive(Datagram(c))
  /\ Advance(c)
  /\ UNCHANGED late

DeliverLate ==
  /\ late # NoDatagram
  /\ Receive(late)
  /\ late' = NoDatagram
  /\ UNCHANGED <<cursor, faults>>

(* recvFrom throws SocketException; nobody catches it.                     *)
RecvFails ==
  /\ Fault("fail")
  /\ pc # "crashed"
  /\ pc' = "crashed"
  /\ UNCHANGED <<cursor, late, frame, overrun, item, peer, serv_port>>

Next ==
  \/ \E c \in Clients \ Strangers :
       Deliver(c) \/ Duplicate(c) \/ Lose(c) \/ Delay(c)
  \/ \E c \in Strangers : Stray(c)
  \/ DeliverLate
  \/ RecvFails

Spec == Init /\ [][Next]_vars

(* The thread does nothing but receive, every client but the strangers     *)
(* keeps sending, and a datagram held back is not held back forever.       *)
FairSpec ==
  /\ Spec
  /\ \A c \in Clients \ Strangers : WF_vars(Deliver(c))
  /\ WF_vars(DeliverLate)
-----------------------------------------------------------------------------
TypeOK ==
  /\ cursor \in [Clients -> [frame : Frames, part : Nat]]
  /\ late = NoDatagram \/ late.frame \in Frames
  /\ faults \in 0..MaxFaults
  /\ pc \in {"len", "id", "pack", "crashed"}
  /\ total_length \in 0..WordMod - 1
  /\ total_pack \in 0..TotalPack(0)
  /\ id \in 0..WordMod - 1
  /\ i \in 0..TotalPack(0)
  /\ pc = "pack" => i < total_pack
  /\ recv_length \in Nat
  /\ longbuf \in Seq(Frames \X Nat)
  /\ overrun \in BOOLEAN
  /\ item = NoDatagram \/ item.id \in 0..WordMod - 1
  /\ set \in BOOLEAN
  /\ client_address \in Clients \cup {DefaultAddress}
  /\ serv_port \in Clients \cup {ListenPort}
-----------------------------------------------------------------------------
(***************************************************************************)
(* Properties                                                              *)
(***************************************************************************)

(* What reaches the queue is one frame, whole, in order and under its own  *)
(* id, although the only thing tested is the sum of the pack sizes.        *)
AcceptedIsGenuine ==
  item # NoDatagram =>
    \E f \in Frames : item.id = FrameId[f] /\ item.data = PartsOf(f)

(* memcpy stays inside longbuf, although the sizes are compared only after *)
(* the last pack was copied.                                               *)
CopyFits == ~overrun

(* Every frame gets through again and again: whatever datagrams were lost, *)
(* duplicated or late, the receiver finds the beginning of a frame again   *)
(* by draining packs.                                                      *)
EveryFrameAgain ==
  \A f \in Frames : []<>(item # NoDatagram /\ item.data = PartsOf(f))

(* The same, unless the process ended.                                     *)
EveryFrameAgainOrCrash ==
  \A f \in Frames :
    []<>(pc = "crashed" \/ (item # NoDatagram /\ item.data = PartsOf(f)))

(* To the rest of the program the thread is the Receiver: the address is   *)
(* learnt from the first header and never written again, and what reaches  *)
(* the queue does so once, at the end of a round that began with a header. *)
ItemSet == [id : 0..WordMod - 1, data : Seq(Frames \X Nat)]

Abstract == INSTANCE Receiver WITH
  rpc   <- IF pc \in {"id", "pack"} THEN "rest" ELSE pc,
  last  <- item,
  Items <- ItemSet,
  NoItem <- NoDatagram

ImplementsReceiver == Abstract!Spec
=============================================================================
