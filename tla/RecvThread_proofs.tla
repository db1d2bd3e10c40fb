-------------------------- MODULE RecvThread_proofs --------------------------
(***************************************************************************)
(* Proofs about RecvThread for any clients, frame lengths, ids, sizes and  *)
(* faults: type correctness and the refinement of Receiver; for one client *)
(* without faults, exact reassembly of frames of every length; and, for    *)
(* one lost datagram, that nothing is made up of what is left.             *)
(***************************************************************************)
EXTENDS RecvThread, SequenceTheorems, TLAPS

USE RecvAssumption

-----------------------------------------------------------------------------
(***************************************************************************)
(* Arithmetic, and what an append does.                                   *)
(***************************************************************************)
LEMMA DivBounds ==
  ASSUME NEW n \in Nat, NEW p \in Nat \ {0}
  PROVE  /\ n \div p \in Nat
         /\ p * (n \div p) <= n
         /\ n < p * (n \div p) + p
OBVIOUS

(* What memcpy behind the packs already copied leaves in longbuf.          *)
LEMMA AppendIs ==
  ASSUME NEW S, NEW s \in Seq(S), NEW e \in S
  PROVE  /\ Append(s, e) \in Seq(S) /\ Len(Append(s, e)) = Len(s) + 1
         /\ \A n \in 1..Len(s) : Append(s, e)[n] = s[n]
         /\ Append(s, e)[Len(s) + 1] = e
OBVIOUS

LEMMA DivMonotone ==
  ASSUME NEW n \in Nat, NEW m \in Nat, NEW p \in Nat \ {0}, n <= m
  PROVE  n \div p <= m \div p
OBVIOUS

LEMMA ModRange ==
  ASSUME NEW n \in Int, NEW m \in Nat \ {0}
  PROVE  /\ n % m \in 0..m - 1
         /\ n \in 0..m - 1 => n % m = n
         /\ (0 - 1) % m = m - 1
<1>1. n % m \in 0..m - 1 /\ (n \in 0..m - 1 => n % m = n)
  OBVIOUS
<1>2. (0 - 1) % m = m - 1
  <2>1. (0 - 1) % m \in 0..m - 1 /\ 0 - 1 = (m * ((0 - 1) \div m)) + ((0 - 1) % m)
    OBVIOUS
  <2>. QED  BY <2>1
<1>. QED  BY <1>1, <1>2

(* A length of 0 asks for the most packs of all.                           *)
LEMMA TotalPackRange ==
  ASSUME NEW w \in 0..WordMod - 1
  PROVE  TotalPack(w) \in 1..TotalPack(0)
<1>1. /\ (w - 1) % WordMod \in 0..WordMod - 1
      /\ (0 - 1) % WordMod = WordMod - 1
  <2>1. 0 \in Int /\ w - 1 \in Int
    OBVIOUS
  <2>. QED  BY <2>1, ModRange
<1>2. /\ ((w - 1) % WordMod) \div PackSize \in Nat
      /\ (WordMod - 1) \div PackSize \in Nat
      /\ ((w - 1) % WordMod) \div PackSize <= (WordMod - 1) \div PackSize
  BY <1>1, DivBounds, DivMonotone
<1>. QED  BY <1>1, <1>2 DEF TotalPack
-----------------------------------------------------------------------------
(***************************************************************************)
(* The clients and the network.  Whatever is lost, repeated or late, a     *)
(* datagram that reaches recvFrom was sent by a client.                    *)
(***************************************************************************)
IsDatagram(d) ==
  d.src \in Clients /\ d.frame \in Frames /\ d.part \in Nat /\ d.size \in Nat

NetInv ==
  /\ cursor \in [Clients -> [frame : Frames, part : Nat]]
  /\ late = NoDatagram \/ IsDatagram(late)

(* Every pack but the last is PACK_SIZE long, and the last has a rest.     *)
LEMMA PackBounds ==
  ASSUME NEW f \in Frames
  PROVE  /\ FrameLen[f] \in 1..WordMod - 1
         /\ NPacks(f) \in Nat \ {0}
         /\ (NPacks(f) - 1) * PackSize \in Nat
         /\ (NPacks(f) - 1) * PackSize < FrameLen[f]
         /\ FrameLen[f] - (NPacks(f) - 1) * PackSize <= PackSize
<1>. DEFINE q == (FrameLen[f] - 1) \div PackSize
<1>1. FrameLen[f] \in 1..WordMod - 1 /\ FrameLen[f] - 1 \in Nat
  OBVIOUS
<1>2. q \in Nat /\ PackSize * q <= FrameLen[f] - 1 /\ FrameLen[f] - 1 < PackSize * q + PackSize
  BY <1>1, DivBounds
<1>. HIDE DEF q
<1>3. NPacks(f) = q + 1
  BY DEF NPacks, q
<1>4. (NPacks(f) - 1) * PackSize = PackSize * q /\ PackSize * q \in Nat
  BY <1>2, <1>3
<1>. QED  BY <1>1, <1>2, <1>3, <1>4

LEMMA PartSizes ==
  ASSUME NEW f \in Frames, NEW k \in Nat
  PROVE  PartSize(f, k) \in Nat \ {0}
<1>1. FrameLen[f] - (NPacks(f) - 1) * PackSize \in Nat \ {0}
  BY PackBounds
<1>. QED  BY <1>1 DEF PartSize

LEMMA DatagramFromClient ==
  ASSUME NetInv, NEW c \in Clients
  PROVE  IsDatagram(Datagram(c))
<1>1. cursor[c].frame \in Frames /\ cursor[c].part \in Nat
  BY DEF NetInv
<1>. QED  BY <1>1, PartSizes DEF Datagram, IsDatagram

LEMMA AdvanceInFrames ==
  ASSUME NetInv, NEW c \in Clients, Advance(c)
  PROVE  cursor' \in [Clients -> [frame : Frames, part : Nat]]
<1>1. cursor[c].frame \in Frames /\ cursor[c].part \in Nat
      /\ cursor[c] \in [frame : Frames, part : Nat]
  BY DEF NetInv
<1>2. (cursor[c].frame + 1) % NFrames \in Frames
  <2>1. cursor[c].frame + 1 \in Int
    BY <1>1 DEF Frames
  <2>2. \A n \in Int : n % NFrames \in 0..NFrames - 1
    BY ModRange
  <2>. QED  BY <2>1, <2>2 DEF Frames
<1>3. After(cursor[c]) \in [frame : Frames, part : Nat]
  BY <1>1, <1>2 DEF After
<1>. QED  BY <1>3 DEF NetInv, Advance

LEMMA NetStep ==
  ASSUME NetInv, [Next]_vars
  PROVE  NetInv'
<1>1. ASSUME NEW c \in Clients, Advance(c), UNCHANGED late
      PROVE  NetInv'
  BY <1>1, AdvanceInFrames DEF NetInv, IsDatagram
<1>2. ASSUME NEW c \in Clients, Delay(c)
      PROVE  NetInv'
  BY <1>2, AdvanceInFrames, DatagramFromClient DEF NetInv, Delay, IsDatagram
<1>3. CASE UNCHANGED <<cursor, late>>
  BY <1>3 DEF NetInv, IsDatagram
<1>4. CASE DeliverLate
  BY <1>4 DEF NetInv, DeliverLate
<1>. QED
  BY <1>1, <1>2, <1>3, <1>4 DEF Next, Deliver, Duplicate, Lose, Stray, RecvFails, vars, net
-----------------------------------------------------------------------------
(***************************************************************************)
(* The receiver.                                                           *)
(***************************************************************************)

(* TypeOK, as far as it concerns the thread.                               *)
ThreadTypes ==
  /\ pc \in {"len", "id", "pack", "crashed"}
  /\ total_length \in 0..WordMod - 1
  /\ total_pack \in 0..TotalPack(0)
  /\ id \in 0..WordMod - 1
  /\ i \in 0..TotalPack(0)
  /\ pc = "pack" => i < total_pack
  /\ recv_length \in Nat
  /\ longbuf \in Seq(Frames \X Nat)
  /\ overrun \in BOOLEAN
  /\ item = NoDatagram \/ item.id \in 0..WordMod - 1
  /\ set \in BOOLEAN
  /\ client_address \in Clients \cup {DefaultAddress}
  /\ serv_port \in Clients \cup {ListenPort}
  /\ pc \in {"len", "id"} => i = 0 /\ recv_length = 0 /\ longbuf = <<>>
  /\ pc = "id" => total_pack > 0

LEMMA WordsFit ==
  ASSUME NEW d, IsDatagram(d)
  PROVE  FirstWord(d) \subseteq 0..WordMod - 1
BY DEF FirstWord, IsDatagram

LEMMA CopiedFits ==
  ASSUME NEW d, IsDatagram(d), longbuf \in Seq(Frames \X Nat)
  PROVE  Copied(d) \in Seq(Frames \X Nat)
<1>1. <<d.frame, d.part>> \in Frames \X Nat
  BY DEF IsDatagram
<1>. QED  BY <1>1 DEF Copied

LEMMA ReceiveTypes ==
  ASSUME ThreadTypes, NEW d, IsDatagram(d), Receive(d)
  PROVE  ThreadTypes'
<1>1. serv_port' \in Clients \cup {ListenPort}
  BY DEF Receive, recvFrom, IsDatagram
<1>2. TotalPack(0) \in Nat /\ \A w \in 0..WordMod - 1 : TotalPack(w) \in 1..TotalPack(0)
  BY TotalPackRange
<1>3. CASE RecvLength(d)
  <2>1. CASE Drained(d)
    BY <1>1, <1>3, <2>1 DEF RecvLength, ThreadTypes, frame, peer
  <2>2. CASE ~Drained(d)
    <3>1. PICK w \in FirstWord(d) : total_length' = w /\ total_pack' = TotalPack(w)
      BY <1>3, <2>2 DEF RecvLength
    <3>2. w \in 0..WordMod - 1 /\ TotalPack(w) \in 1..TotalPack(0)
      BY <1>2, <3>1, WordsFit
    <3>3. /\ set' \in BOOLEAN
          /\ client_address' \in Clients \cup {DefaultAddress}
      BY <1>3, <2>2 DEF RecvLength, LatchAddress, setip, peer, IsDatagram, ThreadTypes
    <3>. QED
      BY <1>1, <1>2, <1>3, <2>2, <3>1, <3>2, <3>3 DEF RecvLength, ThreadTypes
  <2>. QED  BY <2>1, <2>2
<1>4. CASE RecvId(d)
  <2>1. CASE Drained(d)
    BY <1>1, <1>4, <2>1 DEF RecvId, ThreadTypes, peer
  <2>2. CASE ~Drained(d)
    <3>1. id' \in 0..WordMod - 1 /\ pc' \in {"pack", "crashed"}
      BY <1>4, <2>2, WordsFit DEF RecvId
    <3>. QED  BY <1>1, <1>4, <2>2, <3>1 DEF RecvId, ThreadTypes, peer
  <2>. QED  BY <2>1, <2>2
<1>5. CASE RecvPack(d)
  <2>1. d.size \in Nat /\ Copied(d) \in Seq(Frames \X Nat)
    BY CopiedFits DEF IsDatagram, ThreadTypes
  <2>2. overrun' \in BOOLEAN
    BY <1>5 DEF RecvPack
  <2>3. item' = NoDatagram \/ item'.id \in 0..WordMod - 1
    <3>1. CASE UNCHANGED item
      BY <3>1 DEF ThreadTypes
    <3>2. CASE item' = [id |-> id, data |-> Copied(d)]
      BY <3>2 DEF ThreadTypes
    <3>. QED  BY <1>5, <3>1, <3>2 DEF RecvPack
  <2>4. CASE MorePacks /\ i' = i + 1 /\ recv_length' = recv_length + d.size
             /\ longbuf' = Copied(d) /\ UNCHANGED <<pc, total_length, total_pack, id>>
    <3>1. pc' = "pack" /\ UNCHANGED peer
      BY <1>5, <2>4 DEF RecvPack
    <3>. QED  BY <1>1, <1>2, <2>1, <2>2, <2>3, <2>4, <3>1 DEF MorePacks, ThreadTypes, peer
  <2>5. CASE pc' = "len" /\ total_length' = 0 /\ total_pack' = 0 /\ i' = 0 /\ recv_length' = 0
             /\ longbuf' = <<>> /\ UNCHANGED id
    BY <1>1, <1>2, <1>5, <2>2, <2>3, <2>5 DEF RecvPack, ThreadTypes, peer
  <2>6. CASE pc' = "crashed" /\ UNCHANGED frame
    BY <1>1, <1>2, <1>5, <2>2, <2>3, <2>6 DEF RecvPack, ThreadTypes, peer, frame
  <2>. QED  BY <1>5, <2>4, <2>5, <2>6 DEF RecvPack
<1>. QED  BY <1>3, <1>4, <1>5 DEF Receive

LEMMA ThreadStep ==
  ASSUME NetInv, ThreadTypes, [Next]_vars
  PROVE  ThreadTypes'
<1>1. ASSUME NEW d, IsDatagram(d), Receive(d)
      PROVE  ThreadTypes'
  BY <1>1, ReceiveTypes
<1>2. ASSUME NEW c \in Clients, Deliver(c) \/ Duplicate(c) \/ Stray(c)
      PROVE  ThreadTypes'
  BY <1>1, <1>2, DatagramFromClient DEF Deliver, Duplicate, Stray
<1>3. CASE DeliverLate
  BY <1>1, <1>3 DEF DeliverLate, NetInv
<1>4. CASE RecvFails
  BY <1>4 DEF RecvFails, ThreadTypes, frame, peer
<1>5. CASE UNCHANGED <<pc, frame, overrun, item, peer, serv_port>>
  BY <1>5 DEF ThreadTypes, frame, peer
<1>. QED
  BY <1>2, <1>3, <1>4, <1>5 DEF Next, Lose, Delay, vars

(* The inductive invariant: TypeOK says nothing of the size or the sender  *)
(* of a datagram that is late, and a receiver that copies it needs both.   *)
IInv ==
  /\ NetInv
  /\ ThreadTypes
  /\ faults \in 0..MaxFaults

LEMMA InitIInv == Init => IInv
<1>. SUFFICES ASSUME Init PROVE IInv
  OBVIOUS
<1>1. /\ 0 \in Frames /\ 0 \in 0..WordMod - 1 /\ 0 \in Nat
      /\ 0 \in 0..TotalPack(0)
      /\ <<>> \in Seq(Frames \X Nat)
  <2>1. 0 \in 0..WordMod - 1 /\ TotalPack(0) \in 1..TotalPack(0)
    BY TotalPackRange
  <2>. QED  BY <2>1 DEF Frames
<1>2. NetInv
  BY <1>1 DEF Init, NetInv
<1>3. ThreadTypes
  <2>1. /\ pc = "len" /\ total_length = 0 /\ total_pack = 0 /\ id = 0 /\ i = 0
        /\ recv_length = 0 /\ longbuf = <<>> /\ overrun = FALSE /\ item = NoDatagram
        /\ set = FALSE /\ client_address = DefaultAddress /\ serv_port = ListenPort
    BY DEF Init
  <2>. QED  BY <1>1, <2>1 DEF ThreadTypes
<1>. QED  BY <1>2, <1>3 DEF Init, IInv

LEMMA NextIInv == IInv /\ [Next]_vars => IInv'
<1>. SUFFICES ASSUME IInv, [Next]_vars PROVE IInv'
  OBVIOUS
<1>1. faults' \in 0..MaxFaults
  BY DEF IInv, Next, Deliver, Duplicate, Lose, Delay, Stray, DeliverLate, RecvFails, Fault, vars, net
<1>. QED  BY <1>1, NetStep, ThreadStep DEF IInv

LEMMA Invariance == Spec => []IInv
<1>. QED  BY InitIInv, NextIInv, PTL DEF Spec

(* The counters of a round stay in their types for every length a client   *)
(* may announce, zero and 2^32 - 1 included, and whatever the network does.*)
THEOREM TypeCorrect == Spec => []TypeOK
<1>1. IInv => TypeOK
  BY DEF IInv, NetInv, ThreadTypes, TypeOK, IsDatagram
<1>. QED  BY <1>1, Invariance, PTL
-----------------------------------------------------------------------------
(***************************************************************************)
(* To the rest of the program the thread is the Receiver.                  *)
(***************************************************************************)
LEMMA ReceiveRefines ==
  ASSUME ThreadTypes, NEW d, IsDatagram(d), Receive(d)
  PROVE  [Abstract!Next]_(Abstract!rvars)
<1>. DEFINE rpc == IF pc \in {"id", "pack"} THEN "rest" ELSE pc
<1>1. CASE RecvLength(d)
  <2>1. CASE Drained(d)
    BY <1>1, <2>1 DEF RecvLength, peer, Abstract!rvars
  <2>2. CASE ~Drained(d)
    <3>1. /\ pc = "len" /\ pc' = "id" /\ item' = item
          /\ set' = TRUE
          /\ client_address' = IF set THEN client_address ELSE d.src
      BY <1>1, <2>2 DEF RecvLength, LatchAddress, setip, peer, ThreadTypes
    <3>2. Abstract!Header(d.src)
      BY <3>1 DEF Abstract!Header
    <3>. QED  BY <3>2 DEF IsDatagram, Abstract!Next
  <2>. QED  BY <2>1, <2>2
<1>2. CASE RecvId(d)
  <2>1. pc = "id" /\ UNCHANGED <<set, client_address, item>> /\ pc' \in {"id", "pack", "crashed"}
    BY <1>2 DEF RecvId, peer
  <2>2. CASE pc' = "crashed"
    <3>1. Abstract!Crash
      BY <2>1, <2>2 DEF Abstract!Crash
    <3>. QED  BY <3>1 DEF Abstract!Next
  <2>3. CASE pc' \in {"id", "pack"}
    BY <2>1, <2>3 DEF Abstract!rvars
  <2>. QED  BY <2>1, <2>2, <2>3
<1>3. CASE RecvPack(d)
  <2>1. pc = "pack" /\ UNCHANGED <<set, client_address>>
    BY <1>3 DEF RecvPack, peer
  <2>2. CASE pc' = pc /\ UNCHANGED item
    BY <2>1, <2>2 DEF Abstract!rvars
  <2>3. CASE pc' = "len" /\ item' = [id |-> id, data |-> Copied(d)]
    <3>1. item' \in ItemSet
      BY <2>3, CopiedFits DEF ThreadTypes, ItemSet
    <3>2. Abstract!Accept
      BY <2>1, <2>3, <3>1 DEF Abstract!Accept
    <3>. QED  BY <3>2 DEF Abstract!Next
  <2>4. CASE pc' = "len" /\ UNCHANGED item
    <3>1. Abstract!Reject
      BY <2>1, <2>4 DEF Abstract!Reject
    <3>. QED  BY <3>1 DEF Abstract!Next
  <2>5. CASE pc' = "crashed" /\ UNCHANGED item
    <3>1. Abstract!Crash
      BY <2>1, <2>5 DEF Abstract!Crash
    <3>. QED  BY <3>1 DEF Abstract!Next
  <2>. QED  BY <1>3, <2>2, <2>3, <2>4, <2>5 DEF RecvPack
<1>. QED  BY <1>1, <1>2, <1>3 DEF Receive

(* Lost, repeated and late datagrams change when an item comes and what is *)
(* in it, never the protocol with the detect thread and the queue.         *)
THEOREM RefinesReceiver == Spec => ImplementsReceiver
<1>1. Init => Abstract!Init
  BY DEF Init, Abstract!Init
<1>2. IInv /\ [Next]_vars => [Abstract!Next]_(Abstract!rvars)
  <2>. SUFFICES ASSUME IInv, [Next]_vars PROVE [Abstract!Next]_(Abstract!rvars)
    OBVIOUS
  <2>1. ASSUME NEW d, IsDatagram(d), Receive(d)
        PROVE  [Abstract!Next]_(Abstract!rvars)
    BY <2>1, ReceiveRefines DEF IInv
  <2>2. ASSUME NEW c \in Clients, Deliver(c) \/ Duplicate(c) \/ Stray(c)
        PROVE  [Abstract!Next]_(Abstract!rvars)
    BY <2>1, <2>2, DatagramFromClient DEF Deliver, Duplicate, Stray, IInv
  <2>3. CASE DeliverLate
    BY <2>1, <2>3 DEF DeliverLate, IInv, NetInv
  <2>4. CASE RecvFails
    <3>1. Abstract!Crash
      BY <2>4 DEF RecvFails, peer, Abstract!Crash
    <3>. QED  BY <3>1 DEF Abstract!Next
  <2>5. CASE UNCHANGED <<pc, item, peer>>
    BY <2>5 DEF peer, Abstract!rvars
  <2>. QED  BY <2>2, <2>3, <2>4, <2>5 DEF Next, Lose, Delay, vars
<1>. QED  BY <1>1, <1>2, Invariance, PTL DEF Spec, ImplementsReceiver, Abstract!Spec
-----------------------------------------------------------------------------
(***************************************************************************)
(* One client, no faults.  The receiver tells what a datagram is only by   *)
(* counting, so everything rests on its count and the client's being the   *)
(* same: LockStep ties every local variable of the round to the datagram   *)
(* that the client sends next.                                             *)
(***************************************************************************)
Lossless == (\E c \in Clients : Clients = {c}) /\ FaultKinds = {}

Sender == CHOOSE c \in Clients : TRUE

(* The thread is where the client is: part k of frame f comes next.        *)
InStep(f, k) ==
  \/ pc = "len" /\ k = 0
  \/ pc = "id" /\ k = 1 /\ total_length = FrameLen[f] /\ total_pack = NPacks(f)
  \/ /\ pc = "pack" /\ k \in 2..LastPart(f)
     /\ total_length = FrameLen[f] /\ total_pack = NPacks(f) /\ id = FrameId[f]
     /\ i = k - 2
     /\ recv_length = i * PackSize
     /\ Len(longbuf) = i
     /\ \A n \in 1..i : longbuf[n] = <<f, n + 1>>

LockStep ==
  /\ late = NoDatagram
  /\ CopyFits
  /\ AcceptedIsGenuine
  /\ pc # "crashed" => InStep(cursor[Sender].frame, cursor[Sender].part)

(* No header is taken for a pack, and no pack for a header.                *)
LEMMA TotalPackIsNPacks ==
  ASSUME NEW f \in Frames
  PROVE  TotalPack(FrameLen[f]) = NPacks(f)
<1>1. FrameLen[f] - 1 \in 0..WordMod - 1
  OBVIOUS
<1>2. (FrameLen[f] - 1) % WordMod = FrameLen[f] - 1
  <2>1. ASSUME NEW n \in 0..WordMod - 1
        PROVE  n % WordMod = n
    BY n \in Int, WordMod \in Nat \ {0}, ModRange
  <2>. QED  BY <1>1, <2>1
<1>3. (FrameLen[f] - 1) \div PackSize \in Nat
  BY <1>1, DivBounds
<1>. QED  BY <1>2, <1>3 DEF TotalPack, NPacks

(* Packs 1 to n of frame f, in order, are all of it when n is their number. *)
LEMMA WholeFrame ==
  ASSUME NEW f \in Frames, NEW s \in Seq(Frames \X Nat), Len(s) = NPacks(f),
         \A n \in 1..NPacks(f) : s[n] = <<f, n + 1>>
  PROVE  s = PartsOf(f)
<1>1. NPacks(f) \in Nat
  BY PackBounds
<1>2. PartsOf(f) \in [1..NPacks(f) -> Frames \X Nat]
  BY <1>1 DEF PartsOf
<1>3. PartsOf(f) \in Seq(Frames \X Nat)
  <2>1. ASSUME NEW S, NEW n \in Nat, NEW t \in [1..n -> S]
        PROVE  t \in Seq(S)
    BY SeqDef
  <2>. QED  BY <1>1, <1>2, <2>1
<1>4. Len(PartsOf(f)) = NPacks(f)
  BY <1>1, <1>2, <1>3, LenProperties DEF PartsOf
<1>5. \A n \in 1..Len(s) : s[n] = PartsOf(f)[n]
  BY DEF PartsOf
<1>. QED  BY <1>3, <1>4, <1>5, SeqEqual

LEMMA InitLockStep == Lossless /\ Init => LockStep
<1>. SUFFICES ASSUME Lossless, Init PROVE LockStep
  OBVIOUS
<1>1. Sender \in Clients
  BY DEF Lossless, Sender
<1>2. cursor[Sender].part = 0
  BY <1>1 DEF Init
<1>. QED  BY <1>2 DEF Init, LockStep, CopyFits, AcceptedIsGenuine, InStep

(* The bytes before part k of a frame, and after it.                       *)
LEMMA LastPack ==
  ASSUME NEW f \in Frames, NEW k \in 2..LastPart(f)
  PROVE  /\ (k - 2) * PackSize \in Nat
         /\ (k - 1 < NPacks(f)) <=> (k # LastPart(f))
         /\ (k - 2) * PackSize + PartSize(f, k) <= FrameLen[f]
         /\ k = LastPart(f) => (k - 2) * PackSize + PartSize(f, k) = FrameLen[f]
         /\ k # LastPart(f) => (k - 2) * PackSize + PartSize(f, k) = (k - 1) * PackSize
<1>1. /\ NPacks(f) \in Nat \ {0} /\ FrameLen[f] \in Nat /\ LastPart(f) = NPacks(f) + 1
      /\ (NPacks(f) - 1) * PackSize \in Nat
      /\ (NPacks(f) - 1) * PackSize < FrameLen[f]
  BY PackBounds DEF LastPart
<1>. DEFINE j == k - 2
            r == j * PackSize
<1>2. /\ j \in Nat /\ r \in Nat
      /\ (j + 1) * PackSize = r + PackSize /\ j + 1 = k - 1
  <2>1. j \in Nat /\ j + 1 = k - 1
    BY <1>1
  <2>. HIDE DEF j
  <2>. QED  BY <2>1
<1>3. CASE k = LastPart(f)
  <2>1. j = NPacks(f) - 1 /\ PartSize(f, k) = FrameLen[f] - (NPacks(f) - 1) * PackSize
    BY <1>1, <1>3 DEF PartSize
  <2>. QED  BY <1>1, <1>2, <1>3, <2>1
<1>4. CASE k # LastPart(f)
  <2>1. PartSize(f, k) = PackSize /\ j + 1 <= NPacks(f) - 1
    BY <1>1, <1>4 DEF PartSize
  <2>2. (j + 1) * PackSize <= (NPacks(f) - 1) * PackSize
    <3>1. \A x, y, z \in Nat : x <= y => x * z <= y * z
      OBVIOUS
    <3>2. j + 1 \in Nat /\ NPacks(f) - 1 \in Nat
      BY <1>1, <1>2
    <3>. HIDE DEF j
    <3>. QED  BY <2>1, <3>1, <3>2
  <2>3. r + PartSize(f, k) = (k - 1) * PackSize
    BY <1>2, <2>1
  <2>4. r + PartSize(f, k) <= FrameLen[f]
    BY <1>1, <1>2, <2>1, <2>2
  <2>. QED  BY <1>1, <1>2, <1>4, <2>1, <2>3, <2>4
<1>. QED  BY <1>3, <1>4

LEMMA DeliverLockStep ==
  ASSUME IInv, LockStep, NEW c \in Clients, c = Sender, Deliver(c)
  PROVE  LockStep'
<1>. DEFINE f == cursor[c].frame
            k == cursor[c].part
            d == Datagram(c)
<1>1. f \in Frames /\ k \in Nat /\ cursor[c] \in [frame : Frames, part : Nat]
  BY DEF IInv, NetInv
<1>2. d.frame = f /\ d.part = k /\ d.size = PartSize(f, k)
  BY DEF Datagram
<1>3. /\ LastPart(f) \in Nat /\ LastPart(f) >= 2
      /\ LastPart(f) = NPacks(f) + 1 /\ NPacks(f) \in Nat
  BY <1>1, PackBounds DEF LastPart
<1>4. /\ Receive(d) /\ late' = late
      /\ cursor'[c] = After(cursor[c])
  BY <1>1 DEF Deliver, Advance, IInv, NetInv
<1>5. /\ k # LastPart(f) => cursor'[c].frame = f /\ cursor'[c].part = k + 1
      /\ k = LastPart(f) => cursor'[c].part = 0
  BY <1>1, <1>4 DEF After
<1>. HIDE DEF f, k, d
<1>6. pc # "crashed" /\ InStep(f, k) /\ late' = NoDatagram
  BY <1>4 DEF LockStep, Receive, RecvLength, RecvId, RecvPack, f, k
<1>7. CASE pc = "len"
  <2>1. k = 0 /\ RecvLength(d) /\ d.size = IntSize
    <3>1. k = 0
      BY <1>6, <1>7 DEF InStep
    <3>2. RecvLength(d)
      BY <1>4, <1>7 DEF Receive, RecvId, RecvPack
    <3>3. PartSize(f, 0) = IntSize
      BY <1>3 DEF PartSize
    <3>. QED  BY <1>2, <3>1, <3>2, <3>3
  <2>2. ~Drained(d) /\ FirstWord(d) = {FrameLen[f]}
    BY <1>2, <2>1 DEF Drained, FirstWord
  <2>3. /\ pc' = "id" /\ UNCHANGED <<overrun, item>>
        /\ total_length' = FrameLen[f] /\ total_pack' = NPacks(f)
    BY <1>1, <2>1, <2>2, TotalPackIsNPacks DEF RecvLength
  <2>4. cursor'[c].frame = f /\ cursor'[c].part = 1
    BY <1>3, <1>5, <2>1
  <2>5. InStep(cursor[c].frame, cursor[c].part)'
    BY <2>3, <2>4 DEF InStep
  <2>. QED  BY <1>6, <2>3, <2>5 DEF LockStep, CopyFits, AcceptedIsGenuine
<1>8. CASE pc = "id"
  <2>1. /\ k = 1 /\ RecvId(d) /\ d.size = IntSize
        /\ total_length = FrameLen[f] /\ total_pack = NPacks(f)
        /\ i = 0 /\ recv_length = 0 /\ longbuf = <<>>
    <3>1. k = 1 /\ total_length = FrameLen[f] /\ total_pack = NPacks(f)
      BY <1>6, <1>8 DEF InStep
    <3>2. RecvId(d)
      BY <1>4, <1>8 DEF Receive, RecvLength, RecvPack
    <3>3. i = 0 /\ recv_length = 0 /\ longbuf = <<>>
      BY <1>8 DEF IInv, ThreadTypes
    <3>4. PartSize(f, 1) = IntSize
      BY <1>3 DEF PartSize
    <3>. QED  BY <1>2, <3>1, <3>2, <3>3, <3>4
  <2>2. ~Drained(d) /\ FirstWord(d) = {FrameId[f]}
    BY <1>2, <2>1 DEF Drained, FirstWord
  <2>3. /\ pc' \in {"pack", "crashed"} /\ UNCHANGED <<overrun, item>>
        /\ id' = FrameId[f]
        /\ UNCHANGED <<total_length, total_pack, i, recv_length, longbuf>>
    BY <2>1, <2>2 DEF RecvId
  <2>4. cursor'[c].frame = f /\ cursor'[c].part = 2
    BY <1>3, <1>5, <2>1
  <2>5. 0 * PackSize = 0 /\ 2 \in 2..LastPart(f) /\ Len(<<>>) = 0 /\ 2 - 2 = 0
    BY <1>3
  <2>6. pc' = "pack" => InStep(cursor[c].frame, cursor[c].part)'
    BY <2>1, <2>3, <2>4, <2>5 DEF InStep
  <2>. QED  BY <1>6, <2>3, <2>6 DEF LockStep, CopyFits, AcceptedIsGenuine
<1>9. CASE pc = "pack"
  <2>1. /\ RecvPack(d) /\ k \in 2..LastPart(f)
        /\ total_length = FrameLen[f] /\ total_pack = NPacks(f) /\ id = FrameId[f]
        /\ i = k - 2 /\ recv_length = i * PackSize
        /\ Len(longbuf) = i /\ \A n \in 1..i : longbuf[n] = <<f, n + 1>>
    BY <1>4, <1>6, <1>9 DEF InStep, Receive, RecvLength, RecvId
  <2>. DEFINE received == recv_length + d.size
  <2>2. /\ recv_length \in Nat /\ d.size \in Nat /\ i \in Nat
        /\ MorePacks <=> k # LastPart(f)
        /\ received <= FrameLen[f]
        /\ k = LastPart(f) => received = FrameLen[f]
        /\ k # LastPart(f) => received = (i + 1) * PackSize
    <3>1. recv_length \in Nat /\ d.size \in Nat /\ i \in Nat
      BY <1>1, <1>2, <1>3, <2>1, PartSizes DEF IInv, ThreadTypes
    <3>2. /\ i + 1 < NPacks(f) <=> k # LastPart(f)
          /\ received <= FrameLen[f]
          /\ k = LastPart(f) => received = FrameLen[f]
          /\ k # LastPart(f) => received = (i + 1) * PackSize
      <4>1. i + 1 = k - 1 /\ recv_length = (k - 2) * PackSize
        BY <1>1, <2>1
      <4>. QED  BY <1>1, <1>2, <2>1, <4>1, LastPack
    <3>. QED  BY <2>1, <3>1, <3>2 DEF MorePacks
  <2>3. FrameLen[f] \in 1..WordMod - 1 /\ ~(received > total_length)
    BY <1>1, <2>1, <2>2
  <2>4. overrun' = overrun
    BY <2>1, <2>3 DEF RecvPack, IInv, ThreadTypes
  <2>5. /\ Copied(d) \in Seq(Frames \X Nat) /\ Len(Copied(d)) = i + 1
        /\ \A n \in 1..i + 1 : Copied(d)[n] = <<f, n + 1>>
    <3>1. longbuf \in Seq(Frames \X Nat) /\ <<f, k>> \in Frames \X Nat /\ k = (i + 1) + 1
      <4>1. k = (i + 1) + 1
        BY <1>1, <2>1
      <4>. QED  BY <1>1, <4>1 DEF IInv, ThreadTypes
    <3>2. Copied(d) = Append(longbuf, <<f, k>>)
      BY <1>2 DEF Copied
    <3>3. /\ Copied(d) \in Seq(Frames \X Nat) /\ Len(Copied(d)) = i + 1
          /\ \A n \in 1..i : Copied(d)[n] = longbuf[n]
          /\ Copied(d)[i + 1] = <<f, k>>
      <4>1. Len(longbuf) = i
        BY <2>1
      <4>. QED  BY <3>1, <3>2, <4>1, AppendIs
    <3>4. ASSUME NEW n \in 1..i + 1
          PROVE  Copied(d)[n] = <<f, n + 1>>
      <4>1. CASE n \in 1..i
        BY <2>1, <3>3, <4>1
      <4>2. CASE n = i + 1
        BY <3>1, <3>3, <4>2
      <4>. QED  BY <2>2, <4>1, <4>2
    <3>. QED  BY <3>3, <3>4
  <2>6. CASE k # LastPart(f)
    <3>1. /\ i' = i + 1 /\ recv_length' = received /\ longbuf' = Copied(d)
          /\ UNCHANGED <<pc, total_length, total_pack, id, item>>
      BY <2>1, <2>2, <2>3, <2>6 DEF RecvPack
    <3>2. cursor'[c].frame = f /\ cursor'[c].part = k + 1 /\ k + 1 \in 2..LastPart(f)
      BY <1>3, <1>5, <2>1, <2>6
    <3>3. i + 1 = (k + 1) - 2
      BY <1>1, <2>1
    <3>4. InStep(cursor[c].frame, cursor[c].part)'
      BY <1>9, <2>1, <2>2, <2>5, <2>6, <3>1, <3>2, <3>3 DEF InStep
    <3>. QED  BY <1>6, <2>4, <3>1, <3>4 DEF LockStep, CopyFits, AcceptedIsGenuine
  <2>7. CASE k = LastPart(f)
    <3>1. SizesMatch(received)
      <4>1. \A n \in 0..WordMod - 1 : n % WordMod = n
        <5>1. ASSUME NEW n \in 0..WordMod - 1
              PROVE  n % WordMod = n
          BY n \in Int, WordMod \in Nat \ {0}, ModRange
        <5>. QED  BY <5>1
      <4>2. received = FrameLen[f] /\ FrameLen[f] \in 0..WordMod - 1
        BY <2>2, <2>3, <2>7
      <4>. QED  BY <2>1, <4>1, <4>2 DEF SizesMatch
    <3>2. pc' = "len" /\ item' = [id |-> id, data |-> Copied(d)]
      BY <2>1, <2>2, <2>3, <2>7, <3>1 DEF RecvPack
    <3>3. Copied(d) = PartsOf(f)
      <4>1. i + 1 = NPacks(f)
        BY <1>3, <2>1, <2>7
      <4>. QED  BY <1>1, <2>5, <4>1, WholeFrame
    <3>4. AcceptedIsGenuine'
      BY <1>1, <2>1, <3>2, <3>3 DEF AcceptedIsGenuine
    <3>5. InStep(cursor[c].frame, cursor[c].part)'
      BY <1>5, <2>7, <3>2 DEF InStep
    <3>. QED  BY <1>6, <2>4, <3>4, <3>5 DEF LockStep, CopyFits
  <2>. QED  BY <2>6, <2>7
<1>. QED  BY <1>6, <1>7, <1>8, <1>9 DEF IInv, ThreadTypes

LEMMA NextLockStep == Lossless /\ IInv /\ LockStep /\ [Next]_vars => LockStep'
<1>. SUFFICES ASSUME Lossless, IInv, LockStep, [Next]_vars PROVE LockStep'
  OBVIOUS
<1>1. Sender \in Clients /\ \A c \in Clients : c = Sender
  BY DEF Lossless, Sender
<1>2. ASSUME NEW c \in Clients, Deliver(c)
      PROVE  LockStep'
  BY <1>1, <1>2, DeliverLockStep
<1>3. CASE UNCHANGED vars
  BY <1>3 DEF vars, net, frame, LockStep, CopyFits, AcceptedIsGenuine, InStep
<1>4. \A kind : ~Fault(kind)
  BY DEF Fault, Lossless
<1>. QED
  BY <1>2, <1>3, <1>4 DEF Next, Duplicate, Lose, Delay, Stray, DeliverLate, RecvFails, LockStep

(* For every length of a frame, a multiple of PACK_SIZE or not, whatever   *)
(* the sizes of an int and a pack: without faults what is accepted is a    *)
(* frame that was sent, whole and under its own id.                        *)
THEOREM ReassemblyIsExact == Lossless => (Spec => []AcceptedIsGenuine)
<1>1. LockStep => AcceptedIsGenuine
  BY DEF LockStep
<1>2. Lossless /\ Init => IInv /\ LockStep
  BY InitIInv, InitLockStep
<1>3. Lossless /\ IInv /\ LockStep /\ [Next]_vars => (IInv /\ LockStep)'
  BY NextIInv, NextLockStep
<1>. SUFFICES ASSUME Lossless PROVE Spec => []AcceptedIsGenuine
  OBVIOUS
<1>4. Init => IInv /\ LockStep
  BY <1>2
<1>5. IInv /\ LockStep /\ [Next]_vars => (IInv /\ LockStep)'
  BY <1>3
<1>. QED  BY <1>1, <1>4, <1>5, PTL DEF Spec

(* Nor does a copy ever leave longbuf then: the packs add up to the length *)
(* that was announced, though it is tested only after the last copy.       *)
THEOREM CopiesFit == Lossless => (Spec => []CopyFits)
<1>. SUFFICES ASSUME Lossless PROVE Spec => []CopyFits
  OBVIOUS
<1>1. LockStep => CopyFits
  BY DEF LockStep
<1>2. Init => IInv /\ LockStep
  BY InitIInv, InitLockStep
<1>3. IInv /\ LockStep /\ [Next]_vars => (IInv /\ LockStep)'
  BY NextIInv, NextLockStep
<1>. QED  BY <1>1, <1>2, <1>3, PTL DEF Spec
-----------------------------------------------------------------------------
(***************************************************************************)
(* One client, and one datagram lost anywhere.  Datagrams have no type, so *)
(* the receiver may take an id, or the length of the next frame, for what  *)
(* it waits for, and copy a header as if it were a pack.  It finds out by  *)
(* the sizes alone: a round with a header in it falls short of its length, *)
(* if that length leaves a last pack longer than a header.                 *)
(***************************************************************************)

(* A frame of n bytes ends with a pack that is no header.                  *)
Discernible(n) == n > 0 /\ (n - 1) % PackSize >= IntSize

(* An id may be read as a length.                                          *)
OneLoss ==
  /\ \E c \in Clients : Clients = {c}
  /\ FaultKinds \subseteq {"lose", "fail"} /\ MaxFaults <= 1
  /\ \A f \in Frames : Discernible(FrameLen[f]) /\ Discernible(FrameId[f])

(* total_length was read from a header, the right one or another.          *)
Announced ==
  /\ total_length \in 1..WordMod - 1 /\ Discernible(total_length)
  /\ total_pack = TotalPack(total_length)

(* A header was copied in this round.                                      *)
HeaderCopied == i >= 1 /\ recv_length <= (i - 1) * PackSize + IntSize

(* One is to come before the round ends, part k of f being the next.       *)
HeaderDue(f, k) ==
  /\ recv_length <= i * PackSize
  /\ k >= 2 => LastPart(f) + 1 - k < total_pack - i

OutOfStep(f, k) ==
  /\ faults >= 1
  /\ k \in 0..LastPart(f)
  /\ \/ pc = "len"
     \/ pc = "id" /\ k # 1 /\ Announced
     \/ pc = "pack" /\ Announced /\ (HeaderCopied \/ HeaderDue(f, k))

LossInv ==
  /\ late = NoDatagram
  /\ CopyFits
  /\ AcceptedIsGenuine
  /\ pc # "crashed" =>
       LET cur == cursor[Sender]
       IN  InStep(cur.frame, cur.part) \/ OutOfStep(cur.frame, cur.part)

(* What is announced leaves, beside one header, too little to fill it.     *)
LEMMA RoundFallsShort ==
  ASSUME NEW n \in 1..WordMod - 1, Discernible(n)
  PROVE  /\ TotalPack(n) \in Nat \ {0}
         /\ (TotalPack(n) - 1) * PackSize + IntSize < n
         /\ IntSize < PackSize
<1>. DEFINE q == (n - 1) \div PackSize
            r == (n - 1) % PackSize
<1>1. n - 1 \in 0..WordMod - 1 /\ n - 1 \in Nat
  OBVIOUS
<1>2. (n - 1) % WordMod = n - 1
  <2>1. ASSUME NEW m \in 0..WordMod - 1
        PROVE  m % WordMod = m
    BY m \in Int, WordMod \in Nat \ {0}, ModRange
  <2>. QED  BY <1>1, <2>1
<1>3. q \in Nat /\ r \in 0..PackSize - 1 /\ n - 1 = PackSize * q + r
  BY <1>1
<1>4. TotalPack(n) = 1 + q
  BY <1>2 DEF TotalPack
<1>5. r >= IntSize
  BY DEF Discernible
<1>. HIDE DEF q, r
<1>6. (TotalPack(n) - 1) * PackSize = PackSize * q /\ PackSize * q \in Nat
  BY <1>3, <1>4
<1>. QED  BY <1>1, <1>3, <1>4, <1>5, <1>6

(* Packs of such frames are longer than a header.                          *)
LEMMA PacksAreLonger ==
  ASSUME NEW f \in Frames, Discernible(FrameLen[f]), NEW k \in 0..LastPart(f)
  PROVE  /\ k <= 1 => PartSize(f, k) = IntSize
         /\ k >= 2 => PartSize(f, k) \in IntSize + 1..PackSize
         /\ LastPart(f) \in Nat /\ LastPart(f) >= 2
<1>1. /\ FrameLen[f] \in 1..WordMod - 1 /\ NPacks(f) \in Nat \ {0}
      /\ (NPacks(f) - 1) * PackSize \in Nat
      /\ FrameLen[f] - (NPacks(f) - 1) * PackSize <= PackSize
  BY PackBounds
<1>2. TotalPack(FrameLen[f]) = NPacks(f)
  BY TotalPackIsNPacks
<1>3. (NPacks(f) - 1) * PackSize + IntSize < FrameLen[f] /\ IntSize < PackSize
  BY <1>1, <1>2, RoundFallsShort
<1>4. LastPart(f) = NPacks(f) + 1 /\ k \in Nat
  BY <1>1 DEF LastPart
<1>5. FrameLen[f] - (NPacks(f) - 1) * PackSize \in IntSize + 1..PackSize
  BY <1>1, <1>3
<1>. QED  BY <1>1, <1>3, <1>4, <1>5 DEF PartSize

LEMMA InitLossInv == OneLoss /\ Init => LossInv
<1>. SUFFICES ASSUME OneLoss, Init PROVE LossInv
  OBVIOUS
<1>1. Sender \in Clients
  BY DEF OneLoss, Sender
<1>2. cursor[Sender].part = 0
  BY <1>1 DEF Init
<1>. QED  BY <1>2 DEF Init, LossInv, CopyFits, AcceptedIsGenuine, InStep

(* Where the client is after part k of frame f.                            *)
LEMMA NextPart ==
  ASSUME IInv, NEW c \in Clients, Advance(c), NEW f, NEW k,
         cursor[c].frame = f, cursor[c].part = k
  PROVE  /\ f \in Frames /\ k \in Nat
         /\ k # LastPart(f) => cursor'[c].frame = f /\ cursor'[c].part = k + 1
         /\ k = LastPart(f) => cursor'[c].frame \in Frames /\ cursor'[c].part = 0
<1>1. f \in Frames /\ k \in Nat /\ cursor[c] \in [frame : Frames, part : Nat]
  BY DEF IInv, NetInv
<1>2. cursor'[c] = After(cursor[c])
  BY DEF Advance, IInv, NetInv
<1>3. (f + 1) % NFrames \in Frames
  <2>1. f + 1 \in Int
    BY <1>1 DEF Frames
  <2>2. \A n \in Int : n % NFrames \in 0..NFrames - 1
    BY ModRange
  <2>. QED  BY <2>1, <2>2 DEF Frames
<1>. QED  BY <1>1, <1>2, <1>3 DEF After

(* The loss itself: the receiver waits for a part that will not come.      *)
LEMMA LossPutsOutOfStep ==
  ASSUME IInv, OneLoss, NEW c \in Clients, Lose(c),
         pc # "crashed", InStep(cursor[c].frame, cursor[c].part)
  PROVE  OutOfStep(cursor[c].frame, cursor[c].part)'
<1>0. PICK f, k : cursor[c].frame = f /\ cursor[c].part = k
  OBVIOUS
<1>. DEFINE g == cursor'[c].frame
            j == cursor'[c].part
<1>1. /\ f \in Frames /\ k \in Nat
      /\ k # LastPart(f) => g = f /\ j = k + 1
      /\ k = LastPart(f) => g \in Frames /\ j = 0
  BY <1>0, NextPart DEF Lose
<1>2. UNCHANGED <<pc, frame>> /\ faults' >= 1
  BY DEF Lose, Fault, IInv
<1>. HIDE DEF g, j
<1>3. /\ LastPart(f) \in Nat /\ LastPart(f) >= 2
      /\ LastPart(f) = NPacks(f) + 1 /\ NPacks(f) \in Nat
  BY <1>1, PackBounds DEF LastPart
<1>4. j \in 0..LastPart(g)
  <2>1. \A h \in Frames : 0 \in 0..LastPart(h)
    BY PackBounds DEF LastPart
  <2>2. CASE k = LastPart(f)
    BY <1>1, <2>1, <2>2
  <2>3. CASE k # LastPart(f)
    <3>1. InStep(f, k)
      BY <1>0
    <3>2. k \in 0..LastPart(f)
      BY <1>1, <1>3, <3>1 DEF InStep
    <3>. QED  BY <1>1, <1>3, <2>3, <3>2
  <2>. QED  BY <2>2, <2>3
<1>5. /\ FrameLen[f] \in 1..WordMod - 1 /\ Discernible(FrameLen[f])
      /\ TotalPack(FrameLen[f]) = NPacks(f)
  BY <1>1, PackBounds, TotalPackIsNPacks DEF OneLoss
<1>6. InStep(f, k)
  BY <1>0
<1>. HIDE DEF g, j
<1>7. CASE pc = "len"
  <2>1. pc' = "len"
    BY <1>2, <1>7
  <2>. QED  BY <1>2, <1>4, <2>1 DEF OutOfStep, g, j
<1>8. CASE pc = "id"
  <2>1. k = 1 /\ total_length = FrameLen[f] /\ total_pack = NPacks(f)
    BY <1>6, <1>8 DEF InStep
  <2>2. Announced'
    BY <1>2, <1>5, <2>1 DEF Announced, Discernible, TotalPack, frame
  <2>3. pc' = "id" /\ j # 1
    BY <1>1, <1>2, <1>3, <1>8, <2>1
  <2>. QED  BY <1>2, <1>4, <2>2, <2>3 DEF OutOfStep, g, j
<1>9. CASE pc = "pack"
  <2>1. /\ k \in 2..LastPart(f) /\ total_length = FrameLen[f] /\ total_pack = NPacks(f)
        /\ i = k - 2 /\ recv_length = i * PackSize
    BY <1>6, <1>9 DEF InStep
  <2>2. Announced'
    BY <1>2, <1>5, <2>1 DEF Announced, Discernible, TotalPack, frame
  <2>3. recv_length' <= i' * PackSize
    <3>1. recv_length \in Nat
      BY DEF IInv, ThreadTypes
    <3>. QED  BY <1>2, <2>1, <3>1 DEF frame
  <2>4. j >= 2 => LastPart(g) + 1 - j < total_pack' - i'
    <3>1. CASE k = LastPart(f)
      BY <1>1, <3>1
    <3>2. CASE k # LastPart(f)
      <4>1. g = f /\ j = k + 1 /\ total_pack' = NPacks(f) /\ i' = k - 2
        BY <1>1, <1>2, <2>1, <3>2 DEF frame
      <4>2. LastPart(f) + 1 - (k + 1) < NPacks(f) - (k - 2)
        BY <1>1, <1>3
      <4>. QED  BY <4>1, <4>2
    <3>. QED  BY <3>1, <3>2
  <2>5. HeaderDue(cursor[c].frame, cursor[c].part)'
    BY <2>3, <2>4 DEF HeaderDue, LastPart, NPacks, g, j
  <2>6. pc' = "pack"
    BY <1>2, <1>9
  <2>. QED  BY <1>2, <1>4, <2>2, <2>5, <2>6 DEF OutOfStep, g, j
<1>. QED  BY <1>7, <1>8, <1>9 DEF IInv, ThreadTypes

(* Out of step, the receiver drains packs, takes headers for one another,  *)
(* and rejects the round it copies a header in; then it is in step or not. *)
LEMMA DeliverOutOfStep ==
  ASSUME IInv, OneLoss, NEW c \in Clients, Deliver(c),
         pc # "crashed", CopyFits, OutOfStep(cursor[c].frame, cursor[c].part)
  PROVE  /\ CopyFits' /\ item' = item
         /\ pc' # "crashed" =>
              \/ InStep(cursor[c].frame, cursor[c].part)
              \/ InStep(cursor[c].frame, cursor[c].part)'
              \/ OutOfStep(cursor[c].frame, cursor[c].part)'
<1>0. PICK f, k : cursor[c].frame = f /\ cursor[c].part = k
  OBVIOUS
<1>. DEFINE g == cursor'[c].frame
            j == cursor'[c].part
            d == Datagram(c)
<1>1. /\ f \in Frames /\ k \in Nat
      /\ k # LastPart(f) => g = f /\ j = k + 1
      /\ k = LastPart(f) => g \in Frames /\ j = 0
  BY <1>0, NextPart DEF Deliver
<1>2. d.frame = f /\ d.part = k /\ d.size = PartSize(f, k) /\ Receive(d)
  BY <1>0 DEF Datagram, Deliver
<1>3. OutOfStep(f, k) /\ faults' = faults /\ faults >= 1 /\ k \in 0..LastPart(f)
  BY <1>0 DEF OutOfStep, Deliver
<1>4. /\ k <= 1 => PartSize(f, k) = IntSize
      /\ k >= 2 => PartSize(f, k) \in IntSize + 1..PackSize
      /\ LastPart(f) \in Nat /\ LastPart(f) >= 2
  BY <1>1, <1>3, PacksAreLonger DEF OneLoss
<1>. HIDE DEF g, j, d
<1>5. j \in 0..LastPart(g)
  <2>1. \A h \in Frames : 0 \in 0..LastPart(h)
    BY PackBounds DEF LastPart
  <2>2. CASE k = LastPart(f)
    BY <1>1, <2>1, <2>2
  <2>3. CASE k # LastPart(f)
    BY <1>1, <1>3, <1>4, <2>3
  <2>. QED  BY <2>2, <2>3
<1>6. ASSUME pc' = "len", UNCHANGED <<overrun, item>>
      PROVE  CopyFits' /\ item' = item /\ OutOfStep(cursor[c].frame, cursor[c].part)'
  BY <1>3, <1>5, <1>6 DEF OutOfStep, CopyFits, g, j
<1>7. CASE pc = "len"
  <2>1. RecvLength(d) /\ UNCHANGED <<overrun, item>>
    BY <1>2, <1>7 DEF Receive, RecvLength, RecvId, RecvPack
  <2>2. CASE k = 0
    BY <1>0, <1>7, <2>1, <2>2 DEF InStep, CopyFits
  <2>3. CASE k = 1
    <3>1. ~Drained(d) /\ FirstWord(d) = {FrameId[f]}
      BY <1>2, <1>4, <2>3 DEF Drained, FirstWord
    <3>2. /\ pc' = "id" /\ total_length' = FrameId[f]
          /\ total_pack' = TotalPack(FrameId[f])
      BY <2>1, <3>1 DEF RecvLength
    <3>3. FrameId[f] \in 1..WordMod - 1 /\ Discernible(FrameId[f])
      <4>1. Discernible(FrameId[f]) /\ FrameId[f] \in 0..WordMod - 1
        BY <1>1 DEF OneLoss
      <4>. QED  BY <4>1 DEF Discernible
    <3>4. Announced'
      BY <3>2, <3>3 DEF Announced, Discernible, TotalPack
    <3>5. j # 1
      BY <1>1, <1>4, <2>3
    <3>. QED  BY <1>3, <1>5, <2>1, <3>2, <3>4, <3>5 DEF OutOfStep, CopyFits, g, j
  <2>4. CASE k >= 2
    <3>1. Drained(d)
      BY <1>2, <1>4, <2>4 DEF Drained
    <3>2. pc' = "len"
      BY <1>7, <2>1, <3>1 DEF RecvLength
    <3>. QED  BY <1>6, <2>1, <3>2
  <2>. QED  BY <1>1, <2>2, <2>3, <2>4
<1>8. CASE pc = "id"
  <2>1. RecvId(d) /\ UNCHANGED <<overrun, item, total_length, total_pack, i, recv_length>>
    BY <1>2, <1>8 DEF Receive, RecvLength, RecvId, RecvPack
  <2>2. Announced' /\ k # 1
    <3>1. Announced /\ k # 1
      BY <1>3, <1>8 DEF OutOfStep
    <3>. QED  BY <2>1, <3>1 DEF Announced, Discernible, TotalPack
  <2>3. CASE k = 0
    <3>1. ~Drained(d)
      BY <1>2, <1>4, <2>3 DEF Drained
    <3>2. pc' \in {"pack", "crashed"} /\ j = 1
      BY <1>1, <1>4, <2>1, <2>3, <3>1 DEF RecvId
    <3>3. HeaderDue(cursor[c].frame, cursor[c].part)'
      <4>1. i' = 0 /\ recv_length' = 0 /\ 0 <= 0 * PackSize
        BY <1>8, <2>1 DEF IInv, ThreadTypes
      <4>. QED  BY <3>2, <4>1 DEF HeaderDue, g, j
    <3>. QED  BY <1>3, <1>5, <2>1, <2>2, <3>2, <3>3 DEF OutOfStep, CopyFits, g, j
  <2>4. CASE k >= 2
    <3>1. Drained(d)
      BY <1>2, <1>4, <2>4 DEF Drained
    <3>2. pc' = "id" /\ j # 1
      BY <1>1, <1>4, <1>8, <2>1, <2>4, <3>1 DEF RecvId
    <3>. QED  BY <1>3, <1>5, <2>1, <2>2, <3>2 DEF OutOfStep, CopyFits, g, j
  <2>. QED  BY <1>1, <2>2, <2>3, <2>4
<1>9. CASE pc = "pack"
  <2>. DEFINE received == recv_length + d.size
  <2>1. RecvPack(d)
    BY <1>2, <1>9 DEF Receive, RecvLength, RecvId
  <2>2. /\ Announced /\ (HeaderCopied \/ HeaderDue(f, k))
        /\ recv_length \in Nat /\ i \in Nat /\ d.size \in Nat
        /\ i < total_pack
    <3>1. Announced /\ (HeaderCopied \/ HeaderDue(f, k))
      BY <1>3, <1>9 DEF OutOfStep
    <3>2. recv_length \in Nat /\ i \in Nat /\ i < total_pack
      BY <1>9, TotalPackRange DEF IInv, ThreadTypes
    <3>3. d.size \in Nat
      BY <1>1, <1>2, PartSizes
    <3>. QED  BY <3>1, <3>2, <3>3
  <2>3. /\ total_pack \in Nat \ {0} /\ total_length \in Nat /\ total_length < WordMod
        /\ (total_pack - 1) * PackSize + IntSize < total_length
        /\ IntSize < PackSize
    BY <2>2, RoundFallsShort DEF Announced
  <2>4. \A x, y \in Nat : x <= y => x * PackSize <= y * PackSize
    OBVIOUS
  <2>5. /\ i * PackSize \in Nat /\ (i + 1) * PackSize = i * PackSize + PackSize
        /\ i >= 1 => (i - 1) * PackSize = i * PackSize - PackSize
        /\ (total_pack - 1) * PackSize \in Nat
    BY <2>2, <2>3
  <2>6. \/ received <= i * PackSize + IntSize
        \/ k >= 2 /\ HeaderDue(f, k) /\ received <= (i + 1) * PackSize /\ MorePacks
    <3>1. CASE k <= 1
      BY <1>2, <1>4, <2>2, <2>5, <3>1, <2>3 DEF HeaderCopied, HeaderDue
    <3>2. CASE k >= 2 /\ HeaderCopied
      BY <1>2, <1>4, <2>2, <2>5, <3>2, <2>3 DEF HeaderCopied
    <3>3. CASE k >= 2 /\ HeaderDue(f, k)
      <4>1. LastPart(f) + 1 - k >= 1
        BY <1>3, <1>4
      <4>2. i + 1 < total_pack
        BY <1>1, <1>4, <2>2, <2>3, <3>3, <4>1 DEF HeaderDue
      <4>3. received <= (i + 1) * PackSize
        BY <1>2, <1>4, <2>2, <2>5, <3>3 DEF HeaderDue
      <4>. QED  BY <3>3, <4>2, <4>3 DEF MorePacks
    <3>. QED  BY <1>1, <2>2, <3>1, <3>2, <3>3
  <2>. HIDE DEF received
  <2>7. received \in Nat /\ received < total_length
    <3>0. received \in Nat
      BY <2>2 DEF received
    <3>1. CASE received <= i * PackSize + IntSize
      <4>1. i * PackSize <= (total_pack - 1) * PackSize
        <5>1. i <= total_pack - 1 /\ total_pack - 1 \in Nat
          BY <2>2, <2>3
        <5>. QED  BY <2>2, <2>4, <5>1
      <4>. QED  BY <2>3, <2>5, <3>0, <3>1, <4>1
    <3>2. CASE received <= (i + 1) * PackSize /\ MorePacks
      <4>1. (i + 1) * PackSize <= (total_pack - 1) * PackSize
        <5>1. i + 1 <= total_pack - 1 /\ total_pack - 1 \in Nat /\ i + 1 \in Nat
          BY <2>2, <2>3, <3>2 DEF MorePacks
        <5>. QED  BY <2>4, <5>1
      <4>. QED  BY <2>2, <2>3, <2>5, <3>0, <3>2, <4>1
    <3>. QED  BY <2>6, <3>1, <3>2
  <2>8. ~SizesMatch(received)
    <3>1. \A n \in 0..WordMod - 1 : n % WordMod = n
      <4>1. ASSUME NEW n \in 0..WordMod - 1
            PROVE  n % WordMod = n
        BY n \in Int, WordMod \in Nat \ {0}, ModRange
      <4>. QED  BY <4>1
    <3>2. received \in 0..WordMod - 1
      BY <2>3, <2>7
    <3>. QED  BY <2>3, <2>7, <3>1, <3>2 DEF SizesMatch
  <2>9. overrun' = overrun /\ ~(received > total_length)
    BY <2>1, <2>3, <2>7 DEF RecvPack, IInv, ThreadTypes, received
  <2>10. CASE MorePacks
    <3>1. /\ i' = i + 1 /\ recv_length' = received
          /\ UNCHANGED <<pc, total_length, total_pack, item>>
      BY <2>1, <2>9, <2>10 DEF RecvPack, received
    <3>2. Announced'
      BY <2>2, <3>1 DEF Announced, Discernible, TotalPack
    <3>3. HeaderCopied' \/ HeaderDue(cursor[c].frame, cursor[c].part)'
      <4>1. CASE received <= i * PackSize + IntSize
        <5>1. i + 1 >= 1 /\ (i + 1) - 1 = i
          BY <2>2
        <5>. QED  BY <3>1, <4>1, <5>1 DEF HeaderCopied
      <4>2. CASE k >= 2 /\ HeaderDue(f, k) /\ received <= (i + 1) * PackSize
        <5>1. j >= 2 => LastPart(g) + 1 - j < total_pack - (i + 1)
          <6>1. CASE k = LastPart(f)
            BY <1>1, <6>1
          <6>2. CASE k # LastPart(f)
            <7>1. LastPart(f) + 1 - k < total_pack - i
              BY <4>2 DEF HeaderDue
            <7>. QED  BY <1>1, <1>4, <2>2, <2>3, <6>2, <7>1
          <6>. QED  BY <6>1, <6>2
        <5>. QED  BY <3>1, <4>2, <5>1 DEF HeaderDue, LastPart, NPacks, g, j
      <4>. QED  BY <2>6, <4>1, <4>2
    <3>4. pc' = "pack"
      BY <1>9, <3>1
    <3>. QED  BY <1>3, <1>5, <2>9, <3>1, <3>2, <3>3, <3>4 DEF OutOfStep, CopyFits, g, j
  <2>11. CASE ~MorePacks
    <3>1. pc' = "len" /\ item' = item
      BY <2>1, <2>8, <2>9, <2>11 DEF RecvPack, received
    <3>. QED  BY <1>6, <2>9, <3>1
  <2>. QED  BY <2>10, <2>11
<1>. QED  BY <1>7, <1>8, <1>9 DEF IInv, ThreadTypes

LEMMA NextLossInv == OneLoss /\ IInv /\ LossInv /\ [Next]_vars => LossInv'
<1>. SUFFICES ASSUME OneLoss, IInv, LossInv, [Next]_vars PROVE LossInv'
  OBVIOUS
<1>1. Sender \in Clients /\ \A c \in Clients : c = Sender
  BY DEF OneLoss, Sender
<1>. DEFINE f == cursor[Sender].frame
            k == cursor[Sender].part
<1>2. CASE Deliver(Sender)
  <2>1. pc # "crashed" /\ late' = NoDatagram
    BY <1>2 DEF Deliver, Receive, RecvLength, RecvId, RecvPack, LossInv
  <2>2. CASE InStep(f, k)
    <3>1. LockStep
      BY <2>2 DEF LossInv, LockStep
    <3>2. LockStep'
      BY <1>1, <1>2, <3>1, DeliverLockStep
    <3>. QED  BY <3>2 DEF LockStep, LossInv
  <2>3. CASE ~InStep(f, k)
    <3>1. OutOfStep(f, k)
      BY <2>1, <2>3 DEF LossInv
    <3>2. /\ CopyFits' /\ item' = item
          /\ pc' # "crashed" => InStep(f, k)' \/ OutOfStep(f, k)'
      BY <1>1, <1>2, <2>1, <2>3, <3>1, DeliverOutOfStep DEF LossInv
    <3>3. AcceptedIsGenuine'
      BY <3>2 DEF LossInv, AcceptedIsGenuine, PartsOf, NPacks
    <3>. QED  BY <2>1, <3>2, <3>3 DEF LossInv
  <2>. QED  BY <2>2, <2>3
<1>3. CASE Lose(Sender)
  <2>1. UNCHANGED <<late, pc, overrun, item>> /\ faults = 0
    BY <1>3 DEF Lose, Fault, OneLoss, IInv
  <2>2. ~OutOfStep(f, k)
    BY <2>1 DEF OutOfStep
  <2>3. pc' # "crashed" => OutOfStep(f, k)'
    BY <1>1, <1>3, <2>1, <2>2, LossPutsOutOfStep DEF LossInv
  <2>4. CopyFits' /\ AcceptedIsGenuine' /\ late' = NoDatagram
    BY <2>1 DEF LossInv, CopyFits, AcceptedIsGenuine, PartsOf, NPacks
  <2>. QED  BY <2>3, <2>4 DEF LossInv
<1>4. CASE RecvFails
  <2>1. UNCHANGED <<late, overrun, item>> /\ pc' = "crashed"
    BY <1>4 DEF RecvFails
  <2>2. CopyFits' /\ AcceptedIsGenuine' /\ late' = NoDatagram
    BY <2>1 DEF LossInv, CopyFits, AcceptedIsGenuine, PartsOf, NPacks
  <2>. QED  BY <2>1, <2>2 DEF LossInv
<1>5. CASE UNCHANGED vars
  BY <1>5 DEF vars, net, frame, LossInv, CopyFits, AcceptedIsGenuine, InStep, OutOfStep,
              Announced, HeaderCopied, HeaderDue
<1>6. ~Fault("duplicate") /\ ~Fault("delay") /\ ~Fault("stray") /\ late = NoDatagram
  BY DEF Fault, OneLoss, LossInv
<1>. QED
  BY <1>1, <1>2, <1>3, <1>4, <1>5, <1>6 DEF Next, Duplicate, Delay, Stray, DeliverLate

(* One lost datagram, whichever it is, costs frames but never makes one up:*)
(* no mixture of two frames passes the test of the sizes, and a frame is   *)
(* never given the id of another.                                          *)
THEOREM LossMakesNothingUp == OneLoss => (Spec => []AcceptedIsGenuine)
<1>. SUFFICES ASSUME OneLoss PROVE Spec => []AcceptedIsGenuine
  OBVIOUS
<1>1. LossInv => AcceptedIsGenuine
  BY DEF LossInv
<1>2. Init => IInv /\ LossInv
  BY InitIInv, InitLossInv
<1>3. IInv /\ LossInv /\ [Next]_vars => (IInv /\ LossInv)'
  BY NextIInv, NextLossInv
<1>. QED  BY <1>1, <1>2, <1>3, PTL DEF Spec

(* Nor does it make memcpy leave longbuf, not even when an id was taken    *)
(* for the length it is allocated with.                                    *)
THEOREM CopiesFitAfterLoss == OneLoss => (Spec => []CopyFits)
<1>. SUFFICES ASSUME OneLoss PROVE Spec => []CopyFits
  OBVIOUS
<1>1. LossInv => CopyFits
  BY DEF LossInv
<1>2. Init => IInv /\ LossInv
  BY InitIInv, InitLossInv
<1>3. IInv /\ LossInv /\ [Next]_vars => (IInv /\ LossInv)'
  BY NextIInv, NextLossInv
<1>. QED  BY <1>1, <1>2, <1>3, PTL DEF Spec
=============================================================================
