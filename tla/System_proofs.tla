---------------------------- MODULE System_proofs ----------------------------
(***************************************************************************)
(* Proofs about the whole server, for any set of clients, any Limit and    *)
(* any number of frames.  What concerns the queue alone is not proved      *)
(* again: the invariant of ThreadQueue_proofs is taken over for the queue  *)
(* of the server, which has one consumer and two operations in use.        *)
(***************************************************************************)
EXTENDS System, TLAPS

P == INSTANCE ThreadQueue_proofs WITH
  Consumers <- {Detector}, Ops <- {"insert_queue", "get_queue"}

USE SystemAssumption

-----------------------------------------------------------------------------
(***************************************************************************)
(* The queue.                                                              *)
(***************************************************************************)
LEMMA QueueAssumed == P!QueueAssumption
BY DEF P!QueueAssumption, P!AllOps, P!InsertOps, P!BlockingOps

(* An action of the queue is one of its next-state relation.               *)
LEMMA QueueAction ==
  /\ Q!insert_queue => P!Next
  /\ Q!Consume(Detector) => P!Next
  /\ Q!SpuriousWakeup(Detector) => P!Next
  /\ UNCHANGED qvars => UNCHANGED P!vars
<1>1. Q!insert_queue => P!insert_queue
  BY DEF Q!insert_queue, P!insert_queue, Q!InsertKeeping, P!InsertKeeping, Q!DropOldest,
         P!DropOldest, Q!NotifyAll, P!NotifyAll, Q!evars, P!evars
<1>2. Q!SpuriousWakeup(Detector) => P!SpuriousWakeup(Detector)
  BY DEF Q!SpuriousWakeup, P!SpuriousWakeup, Q!evars, P!evars
<1>3. ASSUME NEW op PROVE Q!Complete(Detector, op) => P!Complete(Detector, op)
  BY DEF Q!Complete, P!Complete, Q!PopInto, P!PopInto
<1>4. ASSUME NEW op PROVE Q!Enter(Detector, op) => P!Enter(Detector, op)
  BY <1>3 DEF Q!Enter, P!Enter, Q!evars, P!evars
<1>5. Q!Resume(Detector) => P!Resume(Detector)
  BY <1>3 DEF Q!Resume, P!Resume, Q!evars, P!evars
<1>6. Q!Wait(Detector) => P!Wait(Detector)
  BY DEF Q!Wait, P!Wait, Q!evars, P!evars
<1>7. Q!try_get_queue(Detector) => P!try_get_queue(Detector)
  BY DEF Q!try_get_queue, P!try_get_queue, Q!PopInto, P!PopInto, Q!evars, P!evars
<1>8. Q!Consume(Detector) => P!Consume(Detector)
  BY <1>4, <1>5, <1>6, <1>7 DEF Q!Consume, P!Consume, Q!BlockingOps, P!BlockingOps
<1>9. UNCHANGED qvars => UNCHANGED P!vars
  BY DEF qvars, P!vars, P!cvars, P!evars
<1>. QED  BY <1>1, <1>2, <1>8, <1>9 DEF P!Next

LEMMA QueueInit == Q!Init => P!IInv
<1>1. Q!Init => P!Init
  BY DEF Q!Init, P!Init
<1>. QED  BY <1>1, QueueAssumed, P!InitIInv DEF P!InitIInv, P!QueueAssumption

LEMMA QueueStep == P!IInv /\ [P!Next]_(P!vars) => P!IInv'
BY QueueAssumed, P!NextIInv DEF P!NextIInv, P!QueueAssumption

LEMMA QueueOnlyStale == P!IInv /\ P!IInv' /\ P!OnlyStaleDropped /\ [P!Next]_(P!vars) => P!OnlyStaleDropped'
BY QueueAssumed, P!StaleStep, P!StepRefines DEF P!StepRefines, P!StaleStep, P!QueueAssumption

(* An item comes out of get_queue together with its number.                *)
LEMMA GetStep ==
  ASSUME P!IInv, Q!Consume(Detector)
  PROVE  /\ inserted' = inserted
         /\ \/ delivered' = delivered
            \/ delivered' = Append(delivered, item'[Detector])
<1>1. item \in [{Detector} -> 0..MaxInserts] /\ call[Detector] \in Q!BlockingOps
  BY DEF P!IInv, P!TypeOK, P!BlockingOps, Q!BlockingOps
<1>2. Q!PopInto(Detector) => delivered' = Append(delivered, item'[Detector])
  BY <1>1 DEF Q!PopInto
<1>3. ASSUME NEW op \in Q!BlockingOps, Q!Complete(Detector, op)
      PROVE  delivered' = delivered \/ delivered' = Append(delivered, item'[Detector])
  BY <1>2, <1>3 DEF Q!Complete, Q!BlockingOps
<1>4. ASSUME NEW op \in Q!BlockingOps, Q!Enter(Detector, op)
      PROVE  /\ inserted' = inserted
             /\ delivered' = delivered \/ delivered' = Append(delivered, item'[Detector])
  BY <1>3, <1>4 DEF Q!Enter
<1>5. CASE Q!Resume(Detector)
  BY <1>1, <1>3, <1>5 DEF Q!Resume
<1>6. CASE Q!Wait(Detector)
  BY <1>6 DEF Q!Wait
<1>7. CASE Q!try_get_queue(Detector)
  BY <1>2, <1>7 DEF Q!try_get_queue
<1>. QED  BY <1>4, <1>5, <1>6, <1>7 DEF Q!Consume

(* What the invariant of the queue says of the numbers handed out.         *)
LEMMA HandedOut ==
  ASSUME P!IInv, delivered # <<>>
  PROVE  /\ delivered \in Seq(1..MaxInserts)
         /\ Len(delivered) \in 1..Len(delivered)
         /\ delivered[Len(delivered)] \in 1..MaxInserts
         /\ delivered[Len(delivered)] <= inserted
         /\ inserted \in Nat \ {0}
<1>1. /\ delivered \in Seq(1..MaxInserts)
      /\ queue \in Seq(1..MaxInserts)
      /\ inserted \in 0..MaxInserts
  BY DEF P!IInv, P!TypeOK
<1>2. Len(delivered) \in 1..Len(delivered) /\ delivered[Len(delivered)] \in 1..MaxInserts
  BY <1>1
<1>3. delivered[Len(delivered)] <= inserted - Len(queue) /\ Len(queue) \in Nat
  BY <1>1 DEF P!IInv, P!DeliveredInOrder
<1>. QED  BY <1>1, <1>2, <1>3

LEMMA HandedOutLater ==
  ASSUME P!IInv', delivered \in Seq(1..MaxInserts), NEW k,
         delivered' = Append(delivered, k), delivered # <<>>
  PROVE  delivered[Len(delivered)] < k
<1>1. /\ Len(delivered') = Len(delivered) + 1 /\ Len(delivered) \in Nat \ {0}
      /\ delivered'[Len(delivered)] = delivered[Len(delivered)]
      /\ delivered'[Len(delivered) + 1] = k
  OBVIOUS
<1>2. \A i \in 1..Len(delivered') - 1 : delivered'[i] < delivered'[i + 1]
  BY DEF P!IInv, P!DeliveredInOrder
<1>. QED  BY <1>1, <1>2
-----------------------------------------------------------------------------
(***************************************************************************)
(* The inductive invariant.  The queue speaks of numbers handed out; the   *)
(* properties of the server speak of answers, of frames given up and of    *)
(* the one in work.  WorkInv ties the two together: the frame in work is   *)
(* the last number handed out, and all that was answered or given up is    *)
(* older.  AddressInv rests on it: there is no answer, and no frame in     *)
(* work, before an insertion, and no insertion before the address.         *)
(***************************************************************************)
LastOut == delivered[Len(delivered)]

InHand == dpc \in {"work", "send", "crashed"}

(* k was handed out before the frame in work                               *)
Settled(k) ==
  /\ delivered # <<>>
  /\ k <= LastOut
  /\ InHand => k < LastOut

WorkInv ==
  /\ InHand => delivered # <<>> /\ item[Detector] = LastOut
  /\ \A i \in DOMAIN replies : Settled(replies[i].frame)
  /\ \A k \in givenUp : Settled(k)

AddressInv ==
  \/ early
  \/ /\ IF set THEN first \in Clients /\ client_address = first ELSE first = NoClient
     /\ rpc = "rest" => set
     /\ inserted > 0 => set
     /\ \A i \in DOMAIN replies : replies[i].to = first

SInv ==
  /\ P!IInv
  /\ TypeOK
  /\ WorkInv
  /\ AddressInv

(* The type invariant of the queue in its two instances.                   *)
LEMMA QueueTypes == P!IInv => Q!TypeOK
BY DEF P!IInv, P!TypeOK, Q!TypeOK, P!BlockingOps, Q!BlockingOps

LEMMA InitSInv == Init => SInv
<1>. SUFFICES ASSUME Init PROVE SInv
  OBVIOUS
<1>1. P!IInv
  BY QueueInit DEF Init
<1>2. TypeOK
  <2>1. replies \in Seq([frame : 1..MaxInserts, to : Clients \cup {DefaultAddress}])
    BY DEF Init
  <2>. QED  BY <1>1, <2>1, QueueTypes DEF Init, R!Init, D!Init, TypeOK
<1>3. WorkInv
  BY DEF Init, D!Init, WorkInv, InHand
<1>4. AddressInv
  BY DEF Init, R!Init, Q!Init, AddressInv
<1>. QED  BY <1>1, <1>2, <1>3, <1>4 DEF SInv

(* Whatever the server does, its queue takes a step of its own or none.    *)
LEMMA QueuePart == [Next]_vars => [P!Next]_(P!vars)
<1>. SUFFICES ASSUME [Next]_vars PROVE [P!Next]_(P!vars)
  OBVIOUS
<1>1. CASE Accept \/ GetQueue \/ Spurious
  BY <1>1, QueueAction DEF Accept, GetQueue, Spurious
<1>2. CASE UNCHANGED qvars
  BY <1>2, QueueAction
<1>. QED
  BY <1>1, <1>2
     DEF Next, Start, Detect, RecvThread, DetectThread, Construct, AssignPointer, Header,
         EarlyHeader, Reject, RecvCrash, Initialise, GiveUpItem, Compute, Send, DetectCrash, vars
-----------------------------------------------------------------------------
(* The frame in work has a number, whoever asks.                           *)
LEMMA InHandIsFrame ==
  ASSUME SInv, InHand
  PROVE  item[Detector] \in 1..MaxInserts /\ item[Detector] <= inserted /\ inserted > 0
BY HandedOut DEF SInv, WorkInv, LastOut

LEMMA TypeStep ==
  ASSUME SInv, P!IInv', [Next]_vars
  PROVE  TypeOK'
<1>. DEFINE Replies == Seq([frame : 1..MaxInserts, to : Clients \cup {DefaultAddress}])
<1>1. Q!TypeOK'
  BY QueueTypes DEF P!IInv, P!TypeOK, Q!TypeOK, P!BlockingOps, Q!BlockingOps
<1>2. replies' \in Replies
  <2>1. CASE Send
    <3>1. item[Detector] \in 1..MaxInserts
      BY <2>1, InHandIsFrame DEF Send, D!Send, InHand
    <3>2. [frame |-> item[Detector], to |-> client_address]
             \in [frame : 1..MaxInserts, to : Clients \cup {DefaultAddress}]
      BY <3>1 DEF SInv, TypeOK
    <3>. QED  BY <2>1, <3>2 DEF Send, SInv, TypeOK
  <2>2. CASE UNCHANGED replies
    BY <2>2 DEF SInv, TypeOK
  <2>. QED
    BY <2>1, <2>2
       DEF Next, Start, Detect, RecvThread, DetectThread, Construct, AssignPointer, Header,
           EarlyHeader, Accept, Reject, RecvCrash, Initialise, GetQueue, Spurious, GiveUpItem,
           Compute, DetectCrash, vars, hist
<1>3. givenUp' \subseteq 1..MaxInserts
  <2>1. CASE GiveUpItem
    BY <2>1, InHandIsFrame DEF GiveUpItem, D!GiveUpItem, InHand, SInv, TypeOK
  <2>2. CASE UNCHANGED givenUp
    BY <2>2 DEF SInv, TypeOK
  <2>. QED
    BY <2>1, <2>2
       DEF Next, Start, Detect, RecvThread, DetectThread, Construct, AssignPointer, Header,
           EarlyHeader, Accept, Reject, RecvCrash, Initialise, GetQueue, Spurious, Send,
           Compute, DetectCrash, vars, hist
<1>4. dpc' \in {"init", "get", "work", "send", "ended", "crashed"}
  BY DEF SInv, TypeOK, Next, Start, Detect, RecvThread, DetectThread, Construct, AssignPointer,
         Header, EarlyHeader, Accept, Reject, RecvCrash, Initialise, GetQueue, Spurious,
         GiveUpItem, Compute, Send, DetectCrash, vars, D!Start, D!GiveUpThread, D!Take,
         D!GiveUpItem, D!Compute, D!Send, D!Crash
<1>5. main' \in {"RecvThread", "DetectThread", "assign", "sleep"} /\ alive' \in BOOLEAN
  BY DEF SInv, TypeOK, Next, Start, Detect, RecvThread, DetectThread, Construct, AssignPointer,
         Header, EarlyHeader, Accept, Reject, RecvCrash, Initialise, GetQueue, Spurious,
         GiveUpItem, Compute, Send, DetectCrash, Die, vars
<1>6. early' \in BOOLEAN /\ first' \in Clients \cup {NoClient}
  <2>1. CASE UNCHANGED <<early, first>>
    BY <2>1 DEF SInv, TypeOK
  <2>2. ASSUME NEW c \in Clients, Header(c) \/ EarlyHeader(c)
        PROVE  early' \in BOOLEAN /\ first' \in Clients \cup {NoClient}
    BY <2>2 DEF SInv, TypeOK, Header, EarlyHeader, Heard
  <2>. QED
    BY <2>1, <2>2
       DEF Next, Start, Detect, RecvThread, DetectThread, Construct, AssignPointer, Accept,
           Reject, RecvCrash, Initialise, GetQueue, Spurious, GiveUpItem, Compute, Send,
           DetectCrash, vars, hist
<1>7. /\ rpc' \in {"len", "rest", "crashed"}
      /\ set' \in BOOLEAN
      /\ client_address' \in Clients \cup {DefaultAddress}
  BY DEF SInv, TypeOK, Next, Start, Detect, RecvThread, DetectThread, Construct, AssignPointer,
         Header, EarlyHeader, Accept, Reject, RecvCrash, Initialise, GetQueue, Spurious,
         GiveUpItem, Compute, Send, DetectCrash, vars, peer, R!Header, R!Accept, R!Reject, R!Crash
<1>. QED  BY <1>1, <1>2, <1>3, <1>4, <1>5, <1>6, <1>7 DEF TypeOK

(* Numbers can be compared.                                                *)
LEMMA Numbers ==
  ASSUME SInv
  PROVE  /\ \A i \in DOMAIN replies : replies[i].frame \in 1..MaxInserts
         /\ \A k \in givenUp : k \in 1..MaxInserts
         /\ delivered # <<>> => LastOut \in 1..MaxInserts
<1>1. ASSUME NEW i \in DOMAIN replies
      PROVE  replies[i].frame \in 1..MaxInserts
  <2>. DEFINE Reply == [frame : 1..MaxInserts, to : Clients \cup {DefaultAddress}]
  <2>1. replies \in Seq(Reply)
    BY DEF SInv, TypeOK
  <2>2. ASSUME NEW S, replies \in Seq(S)
        PROVE  replies[i] \in S
    BY <2>2
  <2>3. replies[i] \in Reply
    BY <2>1, <2>2
  <2>. QED  BY <2>3
<1>2. \A k \in givenUp : k \in 1..MaxInserts
  BY DEF SInv, TypeOK
<1>3. delivered # <<>> => LastOut \in 1..MaxInserts
  BY HandedOut DEF SInv, LastOut
<1>. QED  BY <1>1, <1>2, <1>3

(* What is in the list of answers after one more.                          *)
LEMMA AppendedTo ==
  ASSUME SInv, NEW e, replies' = Append(replies, e), NEW i \in DOMAIN replies'
  PROVE  replies'[i] = e \/ (i \in DOMAIN replies /\ replies'[i] = replies[i])
<1>1. replies \in Seq([frame : 1..MaxInserts, to : Clients \cup {DefaultAddress}])
  BY DEF SInv, TypeOK
<1>2. DOMAIN replies' = 1..Len(replies) + 1 /\ DOMAIN replies = 1..Len(replies)
  BY <1>1
<1>. QED  BY <1>1, <1>2

LEMMA WorkStep ==
  ASSUME SInv, P!IInv', [Next]_vars
  PROVE  WorkInv'
<1>. USE DEF SInv
<1>1. CASE UNCHANGED <<delivered, item, dpc, replies, givenUp>>
  BY <1>1 DEF WorkInv, Settled, LastOut, InHand
<1>2. CASE Initialise
  BY <1>2 DEF Initialise, D!Start, D!GiveUpThread, qvars, hist, WorkInv, Settled, LastOut, InHand
<1>3. CASE GetQueue
  <2>1. ~InHand /\ UNCHANGED <<replies, givenUp>>
    BY <1>3 DEF GetQueue, InHand, hist
  <2>2. CASE delivered' = delivered
    BY <1>3, <2>1, <2>2 DEF GetQueue, InHand, WorkInv, Settled, LastOut
  <2>3. CASE delivered' # delivered
    <3>1. dpc' = "work" /\ delivered' = Append(delivered, item'[Detector])
      BY <1>3, <2>3, GetStep DEF GetQueue, D!Take
    <3>2. delivered \in Seq(1..MaxInserts)
      BY DEF P!IInv, P!TypeOK
    <3>3. delivered' # <<>> /\ LastOut' = item'[Detector]
      BY <3>1, <3>2 DEF LastOut
    <3>4. item'[Detector] \in 1..MaxInserts
      <4>1. delivered' \in Seq(1..MaxInserts)
        BY DEF P!IInv, P!TypeOK
      <4>. QED  BY <4>1, <3>1, <3>2
    <3>5. delivered # <<>> => LastOut < LastOut'
      BY <3>1, <3>2, <3>3, HandedOutLater DEF LastOut
    <3>6. ASSUME NEW k \in 1..MaxInserts, Settled(k)
          PROVE  Settled(k)'
      BY <3>6, <3>3, <3>4, <3>5, Numbers DEF Settled
    <3>. QED  BY <2>1, <3>1, <3>3, <3>6, Numbers DEF WorkInv, InHand
  <2>. QED  BY <2>2, <2>3
<1>4. CASE GiveUpItem
  <2>1. InHand /\ ~InHand' /\ UNCHANGED <<delivered, item, replies>>
    BY <1>4 DEF GiveUpItem, D!GiveUpItem, InHand, qvars
  <2>2. givenUp' = givenUp \cup {LastOut} /\ delivered # <<>>
    BY <1>4, <2>1 DEF GiveUpItem, WorkInv
  <2>3. ASSUME NEW k \in 1..MaxInserts, Settled(k) \/ k = LastOut
        PROVE  Settled(k)'
    BY <2>1, <2>2, <2>3, Numbers DEF Settled, LastOut
  <2>. QED  BY <2>1, <2>2, <2>3, Numbers DEF WorkInv
<1>5. CASE Compute \/ DetectCrash
  BY <1>5 DEF Compute, DetectCrash, D!Compute, D!Crash, InHand, qvars, hist, WorkInv, Settled, LastOut
<1>6. CASE Send
  <2>1. InHand /\ ~InHand' /\ UNCHANGED <<delivered, item, givenUp>>
    BY <1>6 DEF Send, D!Send, InHand, qvars
  <2>2. delivered # <<>> /\ item[Detector] = LastOut
    BY <2>1 DEF WorkInv
  <2>3. ASSUME NEW k \in 1..MaxInserts, Settled(k) \/ k = LastOut
        PROVE  Settled(k)'
    BY <2>1, <2>2, <2>3, Numbers DEF Settled, LastOut
  <2>4. ASSUME NEW i \in DOMAIN replies'
        PROVE  replies'[i].frame = LastOut \/ (i \in DOMAIN replies /\ replies'[i] = replies[i])
    BY <1>6, <2>2, <2>4, AppendedTo DEF Send
  <2>5. LastOut \in 1..MaxInserts
    BY <2>2, Numbers
  <2>. QED  BY <2>1, <2>3, <2>4, <2>5, Numbers DEF WorkInv
<1>. QED
  BY <1>1, <1>2, <1>3, <1>4, <1>5, <1>6
     DEF Next, Start, Detect, RecvThread, DetectThread, Construct, AssignPointer, Header,
         EarlyHeader, Accept, Reject, RecvCrash, Spurious, Q!insert_queue, Q!InsertKeeping,
         Q!SpuriousWakeup, vars, qvars, hist

LEMMA AddressStep ==
  ASSUME SInv, [Next]_vars
  PROVE  AddressInv'
<1>. USE DEF SInv
<1>1. CASE early
  <2>1. early'
    BY <1>1 DEF Next, Start, Detect, RecvThread, DetectThread, Construct, AssignPointer, Header,
         EarlyHeader, Accept, Reject, RecvCrash, Initialise, GetQueue, Spurious, GiveUpItem,
         Compute, Send, DetectCrash, vars, hist
  <2>. QED  BY <2>1 DEF AddressInv
<1>. SUFFICES ASSUME ~early PROVE AddressInv'
  BY <1>1
<1>2. /\ IF set THEN first \in Clients /\ client_address = first ELSE first = NoClient
      /\ rpc = "rest" => set
      /\ inserted > 0 => set
      /\ \A i \in DOMAIN replies : replies[i].to = first
  BY DEF AddressInv
<1>3. ASSUME NEW c \in Clients, EarlyHeader(c)
      PROVE  AddressInv'
  BY <1>3 DEF EarlyHeader, AddressInv
<1>4. ASSUME NEW c \in Clients, Header(c)
      PROVE  AddressInv'
  <2>1. /\ rpc' = "rest" /\ set' /\ inserted' = inserted /\ replies' = replies
        /\ client_address' = IF set THEN client_address ELSE c
        /\ first' = IF first = NoClient THEN c ELSE first
    BY <1>4 DEF Header, R!Header, Heard, qvars
  <2>2. first' \in Clients /\ client_address' = first'
    BY <1>2, <2>1
  <2>3. DOMAIN replies = {} \/ set
    <3>1. DOMAIN replies # {} => inserted > 0
      BY HandedOut DEF WorkInv, Settled
    <3>. QED  BY <3>1, <1>2
  <2>4. \A i \in DOMAIN replies' : replies'[i].to = first'
    BY <1>2, <2>1, <2>3
  <2>. QED  BY <2>1, <2>2, <2>4 DEF AddressInv
<1>5. CASE Accept
  BY <1>2, <1>5 DEF Accept, R!Accept, hist, peer, AddressInv
<1>6. CASE Reject \/ RecvCrash
  BY <1>2, <1>6 DEF Reject, RecvCrash, R!Reject, R!Crash, hist, peer, qvars, AddressInv
<1>7. CASE GetQueue
  BY <1>2, <1>7, GetStep DEF GetQueue, hist, peer, AddressInv
<1>8. CASE Send
  <2>1. set
    <3>1. InHand
      BY <1>8 DEF Send, D!Send, InHand
    <3>. QED  BY <3>1, InHandIsFrame, <1>2
  <2>2. UNCHANGED <<rpc, set, client_address, inserted, early, first>>
    BY <1>8 DEF Send, peer, qvars
  <2>3. ASSUME NEW i \in DOMAIN replies'
        PROVE  replies'[i].to = client_address \/ (i \in DOMAIN replies /\ replies'[i] = replies[i])
    BY <1>8, <2>3, AppendedTo DEF Send
  <2>. QED  BY <1>2, <2>1, <2>2, <2>3 DEF AddressInv
<1>9. CASE UNCHANGED <<rpc, set, client_address, inserted, early, first, replies>>
  BY <1>2, <1>9 DEF AddressInv
<1>. QED
  BY <1>3, <1>4, <1>5, <1>6, <1>7, <1>8, <1>9
     DEF Next, Start, Detect, RecvThread, DetectThread, Construct, AssignPointer, Initialise,
         Spurious, Q!SpuriousWakeup, GiveUpItem, Compute, DetectCrash, vars, qvars, hist, peer
-----------------------------------------------------------------------------
LEMMA NextSInv == SInv /\ [Next]_vars => SInv'
<1>. SUFFICES ASSUME SInv, [Next]_vars PROVE SInv'
  OBVIOUS
<1>1. P!IInv'
  BY QueuePart, QueueStep DEF SInv
<1>. QED  BY <1>1, TypeStep, WorkStep, AddressStep DEF SInv

LEMMA Invariance == Spec => []SInv
<1>. QED  BY InitSInv, NextSInv, PTL DEF Spec

(* Every variable keeps its type, the queue of the server included.        *)
THEOREM TypeCorrect == Spec => []TypeOK
<1>1. SInv => TypeOK
  BY DEF SInv
<1>. QED  BY <1>1, Invariance, PTL

(* No result goes to the address main() was written with, or to a client   *)
(* other than the first, unless a header came during start-up.             *)
THEOREM RepliesGoToFirstClient == Spec => []ReplyToFirstClient
<1>1. SInv => ReplyToFirstClient
  BY DEF SInv, AddressInv, ReplyToFirstClient
<1>. QED  BY <1>1, Invariance, PTL

(* client_address is not written any more when sendTo may read it.         *)
THEOREM AddressIsStable == Spec => AddressNotRaced
<1>1. SInv /\ [Next]_vars => [~early /\ inserted > 0 => UNCHANGED peer]_vars
  <2>. SUFFICES ASSUME SInv, [Next]_vars, ~early, inserted > 0 PROVE UNCHANGED peer
    OBVIOUS
  <2>1. set /\ client_address = first /\ set = TRUE
    BY DEF SInv, AddressInv, TypeOK
  <2>2. ASSUME NEW c \in Clients, Header(c) \/ EarlyHeader(c) PROVE UNCHANGED peer
    BY <2>1, <2>2 DEF Header, R!Header, EarlyHeader, peer
  <2>. QED
    BY <2>2 DEF Next, Start, Detect, RecvThread, DetectThread, Construct, AssignPointer, Accept,
         R!Accept, Reject, R!Reject, RecvCrash, R!Crash, Initialise, GetQueue, Spurious,
         GiveUpItem, Compute, Send, DetectCrash, vars, peer
<1>. QED  BY <1>1, Invariance, PTL DEF Spec, AddressNotRaced

(* The server answers the frames in their order and none twice, whatever   *)
(* the interleaving of its threads, and it changes its mind about the      *)
(* address at most once.                                                   *)
THEOREM ServerServes == Spec => ImplementsService
<1>1. Init => Service!Init
  BY DEF Init, Q!Init, R!Init, Service!Init
<1>2. SInv /\ [Next]_vars => [Service!Next]_(Service!svars)
  <2>. SUFFICES ASSUME SInv, [Next]_vars PROVE [Service!Next]_(Service!svars)
    OBVIOUS
  <2>1. CASE UNCHANGED <<inserted, set, client_address, replies>>
    BY <2>1 DEF Service!svars
  <2>2. ASSUME NEW c \in Clients, Header(c)
        PROVE  [Service!Next]_(Service!svars)
    <3>1. UNCHANGED <<inserted, replies>>
      BY <2>2 DEF Header, qvars
    <3>2. CASE set
      <4>1. set' = set /\ client_address' = client_address
        BY <2>2, <3>2 DEF Header, R!Header, SInv, TypeOK
      <4>. QED  BY <3>1, <4>1 DEF Service!svars
    <3>3. CASE ~set
      <4>1. Service!Settle(c)
        BY <2>2, <3>1, <3>3 DEF Header, R!Header, Service!Settle
      <4>. QED  BY <4>1 DEF Service!Next
    <3>. QED  BY <3>2, <3>3
  <2>3. CASE Accept
    BY <2>3 DEF Accept, Q!insert_queue, Q!InsertKeeping, R!Accept, hist, Service!Accept, Service!Next
  <2>4. CASE Send
    <3>1. InHand
      BY <2>4 DEF Send, D!Send, InHand
    <3>2. item[Detector] \in 1..inserted
      BY <3>1, InHandIsFrame DEF SInv, P!IInv, P!TypeOK
    <3>3. \A i \in 1..Len(replies) : replies[i].frame < item[Detector]
      BY <3>1 DEF SInv, WorkInv, Settled, TypeOK
    <3>4. Service!Answer(item[Detector])
      BY <2>4, <3>3 DEF Send, qvars, peer, Service!Answer
    <3>. QED  BY <3>2, <3>4 DEF Service!Next
  <2>5. CASE GetQueue
    BY <2>1, <2>5, GetStep DEF GetQueue, peer, hist, SInv
  <2>. QED
    BY <2>1, <2>2, <2>3, <2>4, <2>5
       DEF Next, Start, Detect, RecvThread, DetectThread, Construct, AssignPointer, EarlyHeader,
           Reject, R!Reject, RecvCrash, R!Crash, Initialise, Spurious, Q!SpuriousWakeup,
           GiveUpItem, Compute, DetectCrash, vars, qvars, hist, peer
<1>. QED  BY <1>1, <1>2, Invariance, PTL DEF Spec, ImplementsService, Service!Spec
-----------------------------------------------------------------------------
(***************************************************************************)
(* No frame vanishes.  The queue accounts for what it has not handed out   *)
(* (OnlyStaleDropped, proved for every queue in ThreadQueue_proofs); what  *)
(* it has handed out is accounted for here.                                *)
(***************************************************************************)
Sent == {replies[i].frame : i \in DOMAIN replies}

Accounted ==
  /\ P!OnlyStaleDropped
  /\ \A i \in 1..Len(delivered) : delivered[i] \in Sent \cup givenUp \cup InWork
  /\ Sent \cap givenUp = {}

LEMMA InitAccounted == Init => Accounted
<1>. SUFFICES ASSUME Init PROVE Accounted
  OBVIOUS
<1>1. /\ inserted = 0 /\ queue = <<>> /\ delivered = <<>> /\ replies = <<>> /\ givenUp = {}
      /\ Len(<<>>) = 0 /\ 0 - 0 = 0
  BY DEF Init, Q!Init
<1>. QED  BY <1>1 DEF Accounted, P!OnlyStaleDropped, Sent

LEMMA AccountedStep ==
  ASSUME SInv, SInv', Accounted, [Next]_vars
  PROVE  Accounted'
<1>1. P!OnlyStaleDropped'
  BY QueuePart, QueueOnlyStale DEF SInv, Accounted
<1>2. /\ \A i \in 1..Len(delivered) : delivered[i] \in Sent \cup givenUp \cup InWork
      /\ Sent \cap givenUp = {}
  BY DEF Accounted
<1>3. CASE UNCHANGED <<delivered, item, dpc, replies, givenUp>>
  BY <1>1, <1>2, <1>3 DEF Accounted, Sent, InWork
<1>4. CASE Initialise
  BY <1>1, <1>2, <1>4 DEF Initialise, D!Start, D!GiveUpThread, qvars, hist, Accounted, Sent, InWork
<1>5. CASE GetQueue
  <2>1. InWork = {} /\ Sent' = Sent /\ givenUp' = givenUp
    BY <1>5 DEF GetQueue, InWork, hist, Sent
  <2>2. CASE delivered' = delivered
    BY <1>1, <1>2, <2>1, <2>2 DEF Accounted
  <2>3. CASE delivered' # delivered
    <3>1. InWork' = {item'[Detector]} /\ delivered' = Append(delivered, item'[Detector])
      BY <1>5, <2>3, GetStep DEF GetQueue, D!Take, InWork, SInv
    <3>2. delivered \in Seq(1..MaxInserts)
      BY DEF SInv, P!IInv, P!TypeOK
    <3>3. ASSUME NEW i \in 1..Len(delivered')
          PROVE  delivered'[i] \in Sent \cup givenUp \cup InWork'
      <4>1. CASE i \in 1..Len(delivered)
        BY <1>2, <2>1, <3>1, <3>2, <4>1
      <4>2. CASE i = Len(delivered) + 1
        BY <3>1, <3>2, <4>2
      <4>. QED  BY <3>1, <3>2, <4>1, <4>2
    <3>. QED  BY <1>1, <1>2, <2>1, <3>3 DEF Accounted
  <2>. QED  BY <2>2, <2>3
<1>6. CASE GiveUpItem
  <2>1. InWork = {item[Detector]} /\ delivered' = delivered /\ Sent' = Sent
    BY <1>6 DEF GiveUpItem, D!GiveUpItem, InWork, qvars, Sent
  <2>2. givenUp' = givenUp \cup InWork
    BY <1>6, <2>1 DEF GiveUpItem
  <2>3. item[Detector] \notin Sent
    <3>1. InHand
      BY <1>6 DEF GiveUpItem, D!GiveUpItem, InHand
    <3>. QED  BY <3>1, Numbers DEF SInv, WorkInv, Settled, Sent
  <2>. QED  BY <1>1, <1>2, <2>1, <2>2, <2>3 DEF Accounted
<1>7. CASE Compute \/ DetectCrash
  BY <1>1, <1>2, <1>7
     DEF Compute, DetectCrash, D!Compute, D!Crash, qvars, hist, Accounted, Sent, InWork
<1>8. CASE Send
  <2>1. InWork = {item[Detector]} /\ delivered' = delivered /\ givenUp' = givenUp
    BY <1>8 DEF Send, D!Send, InWork, qvars
  <2>2. Sent' = Sent \cup InWork
    <3>. DEFINE e == [frame |-> item[Detector], to |-> client_address]
    <3>1. replies' = Append(replies, e) /\ e.frame = item[Detector]
      BY <1>8 DEF Send
    <3>2. replies \in Seq([frame : 1..MaxInserts, to : Clients \cup {DefaultAddress}])
      BY DEF SInv, TypeOK
    <3>. HIDE DEF e
    <3>3. /\ DOMAIN replies' = DOMAIN replies \cup {Len(replies) + 1}
          /\ \A i \in DOMAIN replies : replies'[i] = replies[i]
          /\ replies'[Len(replies) + 1] = e
      BY <3>1, <3>2
    <3>. QED  BY <2>1, <3>1, <3>3 DEF Sent
  <2>3. item[Detector] \notin givenUp
    <3>1. InHand
      BY <1>8 DEF Send, D!Send, InHand
    <3>. QED  BY <3>1, Numbers DEF SInv, WorkInv, Settled
  <2>. QED  BY <1>1, <1>2, <2>1, <2>2, <2>3 DEF Accounted
<1>. QED
  BY <1>3, <1>4, <1>5, <1>6, <1>7, <1>8
     DEF Next, Start, Detect, RecvThread, DetectThread, Construct, AssignPointer, Header,
         EarlyHeader, Accept, Reject, RecvCrash, Spurious, Q!insert_queue, Q!InsertKeeping,
         Q!SpuriousWakeup, vars, qvars, hist

(* Whatever was accepted is queued, in work, answered or given up, and in  *)
(* one of these places only, or superseded; for any Limit, any number of   *)
(* frames and every interleaving of the two threads and of main().         *)
THEOREM FramesAccountedFor == Spec => []NoFrameVanishes
<1>1. SInv /\ Accounted => NoFrameVanishes
  <2>. SUFFICES ASSUME SInv, Accounted PROVE NoFrameVanishes
    OBVIOUS
  <2>. DEFINE queued == {queue[i] : i \in DOMAIN queue}
  <2>1. /\ inserted \in Nat /\ Len(queue) \in Nat /\ queue \in Seq(1..MaxInserts)
        /\ Len(queue) <= inserted
        /\ \A i \in 1..Len(queue) : queue[i] = inserted - Len(queue) + i
    <3>1. /\ inserted \in Nat /\ Len(queue) \in Nat /\ queue \in Seq(1..MaxInserts)
          /\ \A i \in 1..Len(queue) : queue[i] = inserted - Len(queue) + i
      BY DEF SInv, P!IInv, P!TypeOK, P!FreshestSuffix
    <3>2. CASE Len(queue) > 0
      <4>1. queue[1] \in 1..MaxInserts /\ queue[1] = inserted - Len(queue) + 1
        BY <3>1, <3>2
      <4>. QED  BY <3>1, <4>1
    <3>. QED  BY <3>1, <3>2
  <2>2. \A k \in 1..inserted :
          inserted - k > Limit \/ k \in Sent \cup queued \cup InWork \cup givenUp
    <3>. SUFFICES ASSUME NEW k \in 1..inserted, ~(inserted - k > Limit)
                  PROVE  k \in Sent \cup queued \cup InWork \cup givenUp
      OBVIOUS
    <3>1. CASE k <= inserted - Len(queue)
      <4>1. \E i \in 1..Len(delivered) : delivered[i] = k
        BY <2>1, <3>1 DEF Accounted, P!OnlyStaleDropped
      <4>. QED  BY <4>1 DEF Accounted
    <3>2. CASE k > inserted - Len(queue)
      <4>1. k - (inserted - Len(queue)) \in 1..Len(queue)
        BY <2>1, <3>2
      <4>2. queue[k - (inserted - Len(queue))] = k
        BY <2>1, <4>1
      <4>. QED  BY <2>1, <4>1, <4>2
    <3>. QED  BY <2>1, <3>1, <3>2
  <2>3. Sent \cap givenUp = {}
    BY DEF Accounted
  <2>4. /\ \A k \in Sent \cup givenUp : k \in 1..MaxInserts /\ Settled(k)
        /\ InWork # {} => InHand /\ delivered # <<>> /\ InWork = {LastOut}
    BY Numbers DEF SInv, WorkInv, Sent, InWork, InHand
  <2>5. delivered # <<>> => LastOut \in 1..MaxInserts /\ LastOut <= inserted - Len(queue)
    BY Numbers DEF SInv, P!IInv, P!DeliveredInOrder, LastOut
  <2>6. InWork \cap (Sent \cup givenUp) = {}
    BY <2>4, <2>5 DEF Settled
  <2>7. queued \cap (Sent \cup givenUp \cup InWork) = {}
    <3>1. \A q \in queued : q \in Nat /\ q > inserted - Len(queue)
      BY <2>1
    <3>2. \A k \in Sent \cup givenUp \cup InWork : k \in Nat /\ k <= inserted - Len(queue)
      BY <2>1, <2>4, <2>5 DEF Settled
    <3>3. ASSUME NEW q \in queued, q \in Sent \cup givenUp \cup InWork
          PROVE  FALSE
      <4>1. q > inserted - Len(queue) /\ q <= inserted - Len(queue) /\ q \in Nat
        BY <3>1, <3>2, <3>3
      <4>. QED  BY <2>1, <4>1
    <3>. HIDE DEF queued
    <3>. QED  BY <3>3
  <2>. QED  BY <2>2, <2>3, <2>6, <2>7 DEF NoFrameVanishes, Sent
<1>2. SInv /\ Accounted /\ [Next]_vars => (SInv /\ Accounted)'
  BY NextSInv, AccountedStep
<1>. QED  BY <1>1, <1>2, InitSInv, InitAccounted, PTL DEF Spec
=============================================================================
