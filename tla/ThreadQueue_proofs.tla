-------------------------- MODULE ThreadQueue_proofs --------------------------
(***************************************************************************)
(* Proofs about ThreadQueue for any set of consumers, any Limit and any    *)
(* number of insertions: type correctness, the shape of the container, no  *)
(* lost wake-up, and the refinement of FrameWindow.                        *)
(***************************************************************************)
EXTENDS ThreadQueue, TLAPS

-----------------------------------------------------------------------------
(***************************************************************************)
(* Sequences.                                                              *)
(***************************************************************************)

(* pop() until k items are left keeps the last k, in their order.          *)
LEMMA DropOldestKeepsSuffix ==
  ASSUME NEW S, queue \in Seq(S), NEW k \in Nat
  PROVE  /\ DropOldest(k) \in Seq(S)
         /\ Len(DropOldest(k)) = IF Len(queue) > k THEN k ELSE Len(queue)
         /\ \A i \in 1..Len(DropOldest(k)) :
              DropOldest(k)[i] = queue[Len(queue) - Len(DropOldest(k)) + i]
<1>1. CASE Len(queue) > k
  <2>1. DropOldest(k) = SubSeq(queue, Len(queue) - k + 1, Len(queue))
    BY <1>1 DEF DropOldest
  <2>2. Len(queue) - k + 1 \in 1..Len(queue) + 1
    BY <1>1
  <2>. QED  BY <1>1, <2>1, <2>2
<1>2. CASE ~(Len(queue) > k)
  BY <1>2 DEF DropOldest
<1>. QED  BY <1>1, <1>2

(* pop() once.                                                             *)
LEMMA TailShifts ==
  ASSUME NEW S, NEW s \in Seq(S), s # <<>>
  PROVE  /\ Tail(s) \in Seq(S)
         /\ Len(Tail(s)) = Len(s) - 1
         /\ \A i \in 1..Len(Tail(s)) : Tail(s)[i] = s[i + 1]
         /\ Head(s) \in S
         /\ Head(s) = s[1]
         /\ Len(s) \in Nat \ {0}
OBVIOUS
-----------------------------------------------------------------------------
(***************************************************************************)
(* The inductive invariant.  MutexHolder says who can be between empty()   *)
(* and wait(): only the thread that holds the mutex, and the queue is      *)
(* still empty then.  NoLostWakeup is not inductive without it: the step   *)
(* into wait() would have nothing to say about the queue.                  *)
(***************************************************************************)
IInv ==
  /\ TypeOK
  /\ MutexHolder
  /\ NoLostWakeup
  /\ FreshestSuffix
  /\ DeliveredInOrder

(* An insertion, whatever number of older items it keeps.                  *)
LEMMA InsertStep ==
  ASSUME IInv, NEW k \in {0, Limit}, InsertKeeping(k)
  PROVE  IInv'
<1>. USE QueueAssumption
<1>1. k \in Nat /\ k <= Limit
  OBVIOUS
<1>2. queue \in Seq(1..MaxInserts) /\ inserted \in Nat
  BY DEF IInv, TypeOK
<1>. DEFINE rest == DropOldest(k)
<1>3. /\ rest \in Seq(1..MaxInserts)
      /\ Len(rest) = IF Len(queue) > k THEN k ELSE Len(queue)
      /\ \A i \in 1..Len(rest) : rest[i] = queue[Len(queue) - Len(rest) + i]
  BY <1>1, <1>2, DropOldestKeepsSuffix
<1>. HIDE DEF rest
<1>4. queue' = Append(rest, inserted + 1) /\ inserted' = inserted + 1
  BY DEF InsertKeeping, rest
<1>5. /\ Len(queue') = Len(rest) + 1
      /\ queue'[Len(rest) + 1] = inserted + 1
      /\ \A i \in 1..Len(rest) : queue'[i] = rest[i]
  BY <1>2, <1>3, <1>4
<1>6. TypeOK'
  <2>1. inserted' \in 0..MaxInserts /\ inserted + 1 \in 1..MaxInserts
    BY <1>2, <1>4 DEF InsertKeeping
  <2>2. queue' \in Seq(1..MaxInserts)
    BY <2>1, <1>3, <1>4
  <2>3. pc' \in [Consumers -> {"idle", "checked", "blocked", "woken"}]
    BY DEF IInv, TypeOK, InsertKeeping, NotifyAll
  <2>4. UNCHANGED <<owner, call, item, expiring, try_expire, should_exit, delivered>>
    BY DEF InsertKeeping, evars
  <2>. QED  BY <2>1, <2>2, <2>3, <2>4 DEF IInv, TypeOK
<1>7. MutexHolder'
  BY DEF IInv, TypeOK, MutexHolder, InsertKeeping, NotifyAll
<1>8. NoLostWakeup'
  BY DEF IInv, TypeOK, NoLostWakeup, InsertKeeping, NotifyAll
<1>9. FreshestSuffix'
  <2>1. Len(queue') <= Limit + 1
    BY <1>1, <1>3, <1>5
  <2>2. ASSUME NEW i \in 1..Len(queue')
        PROVE  queue'[i] = inserted' - Len(queue') + i
    <3>. DEFINE n == Len(queue)  m == Len(rest)
    <3>1. n \in Nat /\ m \in Nat /\ m <= n /\ i \in 1..m + 1 /\ Len(queue') = m + 1
      BY <1>1, <1>2, <1>3, <1>5
    <3>2. \A j \in 1..n : queue[j] = inserted - n + j
      BY DEF IInv, FreshestSuffix
    <3>3. \A j \in 1..m : queue'[j] = queue[n - m + j]
      BY <1>3, <1>5
    <3>4. queue'[m + 1] = inserted + 1
      BY <1>5
    <3>. HIDE DEF n, m
    <3>5. CASE i = m + 1
      BY <3>5, <3>1, <3>4, <1>2, <1>4
    <3>6. CASE i \in 1..m
      <4>1. n - m + i \in 1..n
        BY <3>1, <3>6
      <4>2. queue[n - m + i] = inserted - n + (n - m + i)
        BY <4>1, <3>2
      <4>. QED  BY <4>2, <3>1, <3>3, <3>6, <1>2, <1>4
    <3>. QED  BY <3>1, <3>5, <3>6
  <2>. QED  BY <2>1, <2>2 DEF FreshestSuffix
<1>10. DeliveredInOrder'
  <2>1. delivered' = delivered /\ delivered \in Seq(1..MaxInserts)
    BY DEF IInv, TypeOK, InsertKeeping
  <2>2. inserted - Len(queue) <= inserted' - Len(queue')
    BY <1>1, <1>2, <1>3, <1>4, <1>5
  <2>3. delivered # <<>> => delivered[Len(delivered)] \in 1..MaxInserts
    BY <2>1
  <2>4. Len(queue) \in Nat /\ Len(queue') \in Nat /\ inserted' \in Nat /\ MaxInserts \in Nat
    BY <1>2, <1>3, <1>4, <1>5
  <2>. QED  BY <2>1, <2>2, <2>3, <2>4, <1>2 DEF IInv, DeliveredInOrder
<1>. QED  BY <1>6, <1>7, <1>8, <1>9, <1>10 DEF IInv

(* The oldest item goes to consumer c.                                     *)
LEMMA PopStep ==
  ASSUME IInv, NEW c \in Consumers, queue # <<>>, PopInto(c), UNCHANGED inserted
  PROVE  /\ queue' \in Seq(1..MaxInserts)
         /\ delivered' \in Seq(1..MaxInserts)
         /\ item' \in [Consumers -> 0..MaxInserts]
         /\ FreshestSuffix'
         /\ DeliveredInOrder'
<1>. USE QueueAssumption
<1>1. /\ queue \in Seq(1..MaxInserts)
      /\ inserted \in Nat
      /\ delivered \in Seq(1..MaxInserts)
      /\ item \in [Consumers -> 0..MaxInserts]
  BY DEF IInv, TypeOK
<1>2. /\ Tail(queue) \in Seq(1..MaxInserts)
      /\ Len(Tail(queue)) = Len(queue) - 1
      /\ \A i \in 1..Len(Tail(queue)) : Tail(queue)[i] = queue[i + 1]
      /\ Head(queue) \in 1..MaxInserts
      /\ Head(queue) = queue[1]
      /\ Len(queue) \in Nat \ {0}
  BY <1>1, TailShifts
<1>3. queue' = Tail(queue) /\ delivered' = Append(delivered, Head(queue))
  BY DEF PopInto
<1>4. queue[1] = inserted - Len(queue) + 1
  BY <1>2 DEF IInv, FreshestSuffix
<1>5. FreshestSuffix'
  <2>1. Len(queue') <= Limit + 1
    BY <1>2, <1>3 DEF IInv, FreshestSuffix
  <2>2. ASSUME NEW i \in 1..Len(queue')
        PROVE  queue'[i] = inserted' - Len(queue') + i
    <3>1. i + 1 \in 1..Len(queue) /\ queue'[i] = queue[i + 1]
      BY <1>2, <1>3
    <3>2. queue[i + 1] = inserted - Len(queue) + (i + 1)
      BY <3>1 DEF IInv, FreshestSuffix
    <3>. QED  BY <3>1, <3>2, <1>1, <1>2, <1>3
  <2>. QED  BY <2>1, <2>2 DEF FreshestSuffix
<1>6. DeliveredInOrder'
  <2>1. /\ Len(delivered') = Len(delivered) + 1
        /\ Len(delivered) \in Nat
        /\ delivered'[Len(delivered) + 1] = Head(queue)
        /\ \A i \in 1..Len(delivered) : delivered'[i] = delivered[i]
    BY <1>1, <1>2, <1>3
  <2>2. delivered # <<>> => delivered[Len(delivered)] < Head(queue)
    <3>1. delivered # <<>> => delivered[Len(delivered)] \in 1..MaxInserts
      BY <1>1
    <3>. QED  BY <3>1, <1>1, <1>2, <1>4 DEF IInv, DeliveredInOrder
  <2>3. ASSUME NEW i \in 1..Len(delivered') - 1
        PROVE  delivered'[i] < delivered'[i + 1]
    <3>1. CASE i = Len(delivered)
      <4>1. delivered # <<>>
        BY <3>1, <2>1, <1>1
      <4>. QED  BY <4>1, <3>1, <2>1, <2>2
    <3>2. CASE i \in 1..Len(delivered) - 1
      BY <3>2, <2>1 DEF IInv, DeliveredInOrder
    <3>. QED  BY <3>1, <3>2, <2>1
  <2>4. delivered'[Len(delivered')] <= inserted' - Len(queue')
    BY <2>1, <1>1, <1>2, <1>3, <1>4
  <2>. QED  BY <2>3, <2>4 DEF DeliveredInOrder
<1>7. delivered' \in Seq(1..MaxInserts) /\ item' \in [Consumers -> 0..MaxInserts]
  BY <1>1, <1>2, <1>3 DEF PopInto
<1>. QED  BY <1>2, <1>3, <1>5, <1>6, <1>7

(* What a blocking operation may do once it will not wait: nothing to the  *)
(* container, or one pop.  It never makes an empty queue non-empty.        *)
LEMMA CompleteStep ==
  ASSUME IInv, NEW c \in Consumers, NEW op \in BlockingOps, Complete(c, op),
         UNCHANGED inserted
  PROVE  /\ queue' \in Seq(1..MaxInserts)
         /\ delivered' \in Seq(1..MaxInserts)
         /\ item' \in [Consumers -> 0..MaxInserts]
         /\ FreshestSuffix'
         /\ DeliveredInOrder'
         /\ queue = <<>> => queue' = <<>>
<1>. USE QueueAssumption
<1>1. /\ queue \in Seq(1..MaxInserts)
      /\ delivered \in Seq(1..MaxInserts)
      /\ item \in [Consumers -> 0..MaxInserts]
      /\ FreshestSuffix
      /\ DeliveredInOrder
  BY DEF IInv, TypeOK
<1>2. CASE UNCHANGED <<queue, item, delivered>>
  BY <1>1, <1>2 DEF FreshestSuffix, DeliveredInOrder
<1>3. CASE queue # <<>> /\ op = "get_queue"
  BY <1>3, PopStep DEF Complete
<1>4. CASE queue # <<>> /\ op = "get_queue_without_pop"
  <2>1. UNCHANGED <<queue, delivered>> /\ item' = [item EXCEPT ![c] = Head(queue)]
    BY <1>4 DEF Complete
  <2>2. Head(queue) \in 1..MaxInserts
    BY <1>1, <1>4, TailShifts
  <2>. QED  BY <1>1, <1>4, <2>1, <2>2 DEF FreshestSuffix, DeliveredInOrder
<1>. QED  BY <1>2, <1>3, <1>4 DEF Complete, BlockingOps
-----------------------------------------------------------------------------
(* The queue of the constructor satisfies the invariant.                   *)
LEMMA InitIInv == Init => IInv
<1>. SUFFICES ASSUME Init PROVE IInv
  OBVIOUS
<1>. USE QueueAssumption DEF Init
<1>1. TypeOK
  <2>1. <<>> \in Seq(1..MaxInserts)
    OBVIOUS
  <2>2. call \in [Consumers -> BlockingOps]
    BY DEF BlockingOps
  <2>3. /\ pc \in [Consumers -> {"idle", "checked", "blocked", "woken"}]
        /\ inserted \in 0..MaxInserts
        /\ item \in [Consumers -> 0..MaxInserts]
    OBVIOUS
  <2>4. owner \in Consumers \cup {NoThread}
    OBVIOUS
  <2>5. expiring \in BOOLEAN /\ try_expire \in BOOLEAN /\ should_exit \in BOOLEAN
    OBVIOUS
  <2>. QED  BY <2>1, <2>2, <2>3, <2>4, <2>5 DEF TypeOK
<1>2. MutexHolder /\ NoLostWakeup
  BY DEF MutexHolder, NoLostWakeup
<1>3. FreshestSuffix /\ DeliveredInOrder
  BY DEF FreshestSuffix, DeliveredInOrder
<1>. QED  BY <1>1, <1>2, <1>3 DEF IInv

(* A critical section that changes neither the mutex's holder nor the wait *)
(* states, and hands out at most one item.                                 *)
LEMMA SectionStep ==
  ASSUME IInv,
         queue' \in Seq(1..MaxInserts),
         delivered' \in Seq(1..MaxInserts),
         item' \in [Consumers -> 0..MaxInserts],
         FreshestSuffix',
         DeliveredInOrder',
         queue = <<>> => queue' = <<>>,
         call' \in [Consumers -> BlockingOps],
         UNCHANGED <<pc, owner, evars, inserted>>
  PROVE  IInv'
<1>1. TypeOK'
  BY DEF IInv, TypeOK, evars
<1>2. MutexHolder' /\ NoLostWakeup'
  BY DEF IInv, TypeOK, MutexHolder, NoLostWakeup
<1>. QED  BY <1>1, <1>2 DEF IInv

(* Every step of every thread preserves the invariant.                     *)
LEMMA NextIInv == IInv /\ [Next]_vars => IInv'
<1>. SUFFICES ASSUME IInv, [Next]_vars PROVE IInv'
  OBVIOUS
<1>. USE QueueAssumption
<1>1. CASE insert_queue
  BY <1>1, InsertStep DEF insert_queue
<1>2. CASE insert_queue_with_pop
  BY <1>2, InsertStep DEF insert_queue_with_pop
<1>3. ASSUME NEW c \in Consumers, NEW op \in BlockingOps, Enter(c, op)
      PROVE  IInv'
  <2>1. CASE queue = <<>>
    <3>1. /\ pc' = [pc EXCEPT ![c] = "checked"]
          /\ owner' = c
          /\ owner = NoThread
          /\ call' = [call EXCEPT ![c] = op]
          /\ UNCHANGED <<queue, item, delivered, expiring, try_expire, should_exit, inserted>>
      BY <1>3, <2>1 DEF Enter, evars
    <3>2. TypeOK'
      BY <3>1 DEF IInv, TypeOK
    <3>3. MutexHolder' /\ NoLostWakeup'
      BY <3>1, <2>1 DEF IInv, TypeOK, MutexHolder, NoLostWakeup
    <3>4. FreshestSuffix' /\ DeliveredInOrder'
      BY <3>1 DEF IInv, FreshestSuffix, DeliveredInOrder
    <3>. QED  BY <3>2, <3>3, <3>4 DEF IInv
  <2>2. CASE queue # <<>>
    <3>1. Complete(c, op) /\ UNCHANGED <<pc, owner, evars, inserted>>
      BY <1>3, <2>2 DEF Enter
    <3>2. call' \in [Consumers -> BlockingOps]
      BY <1>3 DEF IInv, TypeOK, Enter
    <3>. QED  BY <3>1, <3>2, CompleteStep, SectionStep
  <2>. QED  BY <2>1, <2>2
<1>4. ASSUME NEW c \in Consumers, Wait(c)
      PROVE  IInv'
  <2>1. queue = <<>> /\ owner = c
    BY <1>4 DEF IInv, MutexHolder, Wait
  <2>2. /\ pc[c] = "checked"
        /\ pc' = [pc EXCEPT ![c] = "blocked"]
        /\ owner' = NoThread
        /\ UNCHANGED <<queue, call, item, expiring, try_expire, should_exit, inserted, delivered>>
    BY <1>4 DEF Wait, evars
  <2>3. TypeOK'
    BY <2>2 DEF IInv, TypeOK
  <2>4. MutexHolder' /\ NoLostWakeup'
    BY <2>1, <2>2 DEF IInv, TypeOK, MutexHolder, NoLostWakeup
  <2>5. FreshestSuffix' /\ DeliveredInOrder'
    BY <2>2 DEF IInv, FreshestSuffix, DeliveredInOrder
  <2>. QED  BY <2>3, <2>4, <2>5 DEF IInv
<1>5. ASSUME NEW c \in Consumers, Resume(c)
      PROVE  IInv'
  <2>1. call[c] \in BlockingOps /\ Complete(c, call[c]) /\ UNCHANGED inserted
    BY <1>5 DEF IInv, TypeOK, Resume
  <2>2. /\ queue' \in Seq(1..MaxInserts)
        /\ delivered' \in Seq(1..MaxInserts)
        /\ item' \in [Consumers -> 0..MaxInserts]
        /\ FreshestSuffix'
        /\ DeliveredInOrder'
        /\ queue = <<>> => queue' = <<>>
    BY <2>1, CompleteStep
  <2>3. /\ pc[c] = "woken"
        /\ pc' = [pc EXCEPT ![c] = "idle"]
        /\ owner = NoThread
        /\ UNCHANGED <<owner, call, expiring, try_expire, should_exit, inserted>>
    BY <1>5 DEF Resume, evars
  <2>4. TypeOK'
    BY <2>2, <2>3 DEF IInv, TypeOK
  <2>5. MutexHolder' /\ NoLostWakeup'
    BY <2>2, <2>3 DEF IInv, TypeOK, MutexHolder, NoLostWakeup
  <2>. QED  BY <2>2, <2>4, <2>5 DEF IInv
<1>6. ASSUME NEW c \in Consumers, try_get_queue(c)
      PROVE  IInv'
  <2>1. queue # <<>> /\ PopInto(c) /\ UNCHANGED <<pc, owner, evars, inserted, call>>
    BY <1>6 DEF try_get_queue
  <2>2. call' \in [Consumers -> BlockingOps]
    BY <2>1 DEF IInv, TypeOK
  <2>. QED  BY <2>1, <2>2, PopStep, SectionStep
<1>7. ASSUME NEW c \in Consumers, SpuriousWakeup(c)
      PROVE  IInv'
  <2>1. /\ pc[c] = "blocked"
        /\ pc' = [pc EXCEPT ![c] = "woken"]
        /\ UNCHANGED <<queue, owner, call, item, expiring, try_expire, should_exit, inserted, delivered>>
    BY <1>7 DEF SpuriousWakeup, evars
  <2>2. TypeOK' /\ MutexHolder' /\ NoLostWakeup'
    BY <2>1 DEF IInv, TypeOK, MutexHolder, NoLostWakeup
  <2>3. FreshestSuffix' /\ DeliveredInOrder'
    BY <2>1 DEF IInv, FreshestSuffix, DeliveredInOrder
  <2>. QED  BY <2>2, <2>3 DEF IInv
<1>8. CASE SetExpired
  BY <1>8 DEF SetExpired, cvars, IInv, TypeOK, MutexHolder, NoLostWakeup, FreshestSuffix,
              DeliveredInOrder
<1>9. CASE NotifyExpired
  <2>1. /\ pc' = [c \in Consumers |-> IF pc[c] = "blocked" THEN "woken" ELSE pc[c]]
        /\ expiring' = FALSE /\ should_exit' = TRUE
        /\ UNCHANGED <<queue, owner, call, item, try_expire, inserted, delivered>>
    BY <1>9 DEF NotifyExpired, NotifyAll
  <2>2. TypeOK' /\ MutexHolder' /\ NoLostWakeup'
    BY <2>1 DEF IInv, TypeOK, MutexHolder, NoLostWakeup
  <2>3. FreshestSuffix' /\ DeliveredInOrder'
    BY <2>1 DEF IInv, FreshestSuffix, DeliveredInOrder
  <2>. QED  BY <2>2, <2>3 DEF IInv
<1>10. CASE UNCHANGED vars
  BY <1>10 DEF vars, cvars, evars, IInv, TypeOK, MutexHolder, NoLostWakeup, FreshestSuffix,
               DeliveredInOrder
<1>. QED
  BY <1>1, <1>2, <1>3, <1>4, <1>5, <1>6, <1>7, <1>8, <1>9, <1>10 DEF Next, Consume

LEMMA Invariance == Spec => []IInv
BY InitIInv, NextIInv, PTL DEF Spec
-----------------------------------------------------------------------------
(* The state of a queue keeps its types under every interleaving.          *)
THEOREM TypeCorrect == Spec => []TypeOK
<1>1. IInv => TypeOK
  BY DEF IInv
<1>. QED  BY <1>1, Invariance, PTL

(* However many consumers share a queue, none sleeps beside an item, and   *)
(* an insertion never falls between a consumer's empty() and its wait().   *)
THEOREM NoSleeperBesideItem == Spec => []NoLostWakeup
<1>1. IInv => NoLostWakeup
  BY DEF IInv
<1>. QED  BY <1>1, Invariance, PTL

(* Whatever the consumers, wake-ups and expiries: between the test of      *)
(* empty() and the wait, and after a wait, a consumer is alone.            *)
THEOREM MutexExclusive == Spec => []MutexHolder
<1>1. IInv => MutexHolder
  BY DEF IInv
<1>. QED  BY <1>1, Invariance, PTL

(* For every Limit, the container holds exactly the most recent            *)
(* insertions, at most Limit + 1 of them.                                  *)
THEOREM HoldsFreshest == Spec => []FreshestSuffix
<1>1. IInv => FreshestSuffix
  BY DEF IInv
<1>. QED  BY <1>1, Invariance, PTL

(* For every number of consumers, deliveries are in order and exactly once. *)
THEOREM OrderedDelivery == Spec => []DeliveredInOrder
<1>1. IInv => DeliveredInOrder
  BY DEF IInv
<1>. QED  BY <1>1, Invariance, PTL
-----------------------------------------------------------------------------
(* A hand-out by the queue is a delivery of the window.                    *)
LEMMA PopIsDeliver ==
  ASSUME IInv, NEW c \in Consumers, queue # <<>>, PopInto(c), UNCHANGED inserted
  PROVE  Window!Deliver
<1>1. /\ Len(Tail(queue)) = Len(queue) - 1
      /\ Head(queue) = queue[1]
      /\ Len(queue) \in Nat \ {0}
  BY TailShifts DEF IInv, TypeOK
<1>2. inserted \in Nat
  BY QueueAssumption DEF IInv, TypeOK
<1>3. queue[1] = inserted - Len(queue) + 1
  BY <1>1 DEF IInv, FreshestSuffix
<1>4. queue' = Tail(queue) /\ delivered' = Append(delivered, Head(queue))
  BY DEF PopInto
<1>. QED  BY <1>1, <1>2, <1>3, <1>4 DEF Window!Deliver

(* An insertion by the queue is a Put of the window.                       *)
LEMMA InsertIsPut ==
  ASSUME IInv, NEW k \in KeptByOps, k \in {0, Limit}, InsertKeeping(k)
  PROVE  Window!Put
<1>. DEFINE rest == DropOldest(k)
<1>1. k \in Nat /\ inserted \in Nat /\ queue \in Seq(1..MaxInserts)
  BY QueueAssumption DEF IInv, TypeOK
<1>2. /\ rest \in Seq(1..MaxInserts)
      /\ Len(rest) = IF Len(queue) > k THEN k ELSE Len(queue)
  BY <1>1, DropOldestKeepsSuffix
<1>3. /\ queue' = Append(rest, inserted + 1)
      /\ inserted' = inserted + 1
      /\ delivered' = delivered
  BY DEF InsertKeeping
<1>. HIDE DEF rest
<1>4. Len(queue') = Len(rest) + 1
  BY <1>2, <1>3
<1>5. inserted' - Len(queue') = Window!GiveUpTo(k)
  <2>. DEFINE n == Len(queue)  m == Len(rest)
  <2>1. n \in Nat /\ m = IF n > k THEN k ELSE n
    BY <1>1, <1>2
  <2>2. Len(queue') = m + 1 /\ inserted' = inserted + 1
    BY <1>3, <1>4
  <2>3. Window!GiveUpTo(k) = IF inserted - (inserted - n) > k THEN inserted - k ELSE inserted - n
    BY DEF Window!GiveUpTo
  <2>. HIDE DEF n, m
  <2>. QED  BY <1>1, <2>1, <2>2, <2>3
<1>. QED  BY <1>3, <1>5 DEF Window!Put

(* Every step of the monitor is a step of the window or leaves it alone:   *)
(* blocking, waking, peeking and expiring are invisible to its users.      *)
LEMMA StepRefines == IInv /\ [Next]_vars => [Window!Next]_(Window!wvars)
<1>. SUFFICES ASSUME IInv, [Next]_vars PROVE [Window!Next]_(Window!wvars)
  OBVIOUS
<1>. USE DEF Window!wvars, Window!Next
<1>1. CASE insert_queue
  BY <1>1, InsertIsPut DEF insert_queue, KeptByOps
<1>2. CASE insert_queue_with_pop
  BY <1>2, InsertIsPut DEF insert_queue_with_pop, KeptByOps
<1>3. ASSUME NEW c \in Consumers, NEW op \in BlockingOps, Complete(c, op), UNCHANGED inserted
      PROVE  [Window!Next]_(Window!wvars)
  <2>1. CASE UNCHANGED <<queue, delivered>>
    BY <1>3, <2>1
  <2>2. CASE queue # <<>> /\ op = "get_queue"
    BY <1>3, <2>2, PopIsDeliver DEF Complete
  <2>. QED  BY <1>3, <2>1, <2>2 DEF Complete, BlockingOps
<1>4. ASSUME NEW c \in Consumers, NEW op \in BlockingOps, Enter(c, op)
      PROVE  [Window!Next]_(Window!wvars)
  <2>1. CASE queue = <<>>
    BY <1>4, <2>1 DEF Enter
  <2>2. CASE queue # <<>>
    BY <1>3, <1>4, <2>2 DEF Enter
  <2>. QED  BY <2>1, <2>2
<1>5. ASSUME NEW c \in Consumers, Resume(c)
      PROVE  [Window!Next]_(Window!wvars)
  BY <1>3, <1>5 DEF Resume, IInv, TypeOK
<1>6. ASSUME NEW c \in Consumers, try_get_queue(c)
      PROVE  [Window!Next]_(Window!wvars)
  BY <1>6, PopIsDeliver DEF try_get_queue
<1>7. ASSUME UNCHANGED <<queue, inserted, delivered>>
      PROVE  [Window!Next]_(Window!wvars)
  BY <1>7
<1>. QED
  BY <1>1, <1>2, <1>4, <1>5, <1>6, <1>7
     DEF Next, Consume, Wait, SpuriousWakeup, SetExpired, NotifyExpired, vars

(* For every number of consumers, every Limit and every choice of          *)
(* operations, the monitor implements the window over the item stream.     *)
THEOREM QueueRefinesWindow == Spec => ImplementsWindow
<1>1. Init => Window!Init
  <2>1. Len(<<>>) = 0 /\ 0 - 0 = 0
    OBVIOUS
  <2>. QED  BY <2>1 DEF Init, Window!Init
<1>. QED
  BY <1>1, Invariance, StepRefines, PTL DEF Spec, ImplementsWindow, Window!Spec
-----------------------------------------------------------------------------
(* What the window gives up is stale.                                      *)
LEMMA StaleStep ==
  ASSUME IInv, IInv', OnlyStaleDropped, [Window!Next]_(Window!wvars)
  PROVE  OnlyStaleDropped'
<1>. USE QueueAssumption
<1>. DEFINE newer == IF "insert_queue_with_pop" \in Ops THEN 1 ELSE Limit + 1
            gone  == inserted - Len(queue)
            Sent(k) == \E i \in 1..Len(delivered) : delivered[i] = k
<1>1. /\ inserted \in Nat /\ inserted' \in Nat
      /\ Len(queue) \in Nat /\ Len(queue') \in Nat
      /\ delivered \in Seq(1..MaxInserts)
      /\ newer \in Nat /\ gone \in Int /\ gone' \in Int
  BY DEF IInv, TypeOK
<1>2. \A k \in 1..gone : inserted - k < newer => Sent(k)
  BY DEF OnlyStaleDropped
<1>. SUFFICES ASSUME NEW k \in 1..gone', inserted' - k < newer
              PROVE  Sent(k)'
  BY DEF OnlyStaleDropped
<1>. HIDE DEF gone
<1>3. CASE Window!Put
  <2>1. PICK n \in KeptByOps : gone' = IF inserted - gone > n THEN inserted - n ELSE gone
    BY <1>3 DEF Window!Put, Window!GiveUpTo, gone
  <2>2. inserted' = inserted + 1 /\ delivered' = delivered
    BY <1>3 DEF Window!Put
  <2>3. n \in Nat /\ newer <= n + 1
    BY <2>1 DEF KeptByOps
  <2>4. k <= gone
    BY <1>1, <2>1, <2>2, <2>3
  <2>. QED  BY <1>1, <1>2, <2>2, <2>4
<1>4. CASE Window!Deliver
  <2>1. /\ gone' = gone + 1 /\ inserted' = inserted
        /\ delivered' = Append(delivered, gone + 1)
    BY <1>4 DEF Window!Deliver, gone
  <2>2. /\ Len(delivered') = Len(delivered) + 1
        /\ delivered'[Len(delivered) + 1] = gone + 1
        /\ \A i \in 1..Len(delivered) : delivered'[i] = delivered[i]
        /\ Len(delivered) \in Nat
    BY <1>1, <2>1
  <2>3. CASE k = gone + 1
    BY <2>2, <2>3
  <2>4. CASE k \in 1..gone
    <3>1. PICK i \in 1..Len(delivered) : delivered[i] = k
      BY <1>2, <2>1, <2>4
    <3>. QED  BY <3>1, <2>2
  <2>. QED  BY <1>1, <2>1, <2>3, <2>4
<1>5. CASE UNCHANGED Window!wvars
  <2>1. inserted' = inserted /\ gone' = gone /\ delivered' = delivered
    BY <1>5 DEF Window!wvars, gone
  <2>. QED  BY <1>1, <1>2, <2>1
<1>. QED  BY <1>3, <1>4, <1>5 DEF Window!Next

(* For every Limit and every choice of operations, an item that reached no *)
(* consumer had been superseded.                                           *)
THEOREM OnlySupersededLost == Spec => []OnlyStaleDropped
<1>1. Init => OnlyStaleDropped
  <2>1. Len(<<>>) = 0 /\ 0 - 0 = 0
    OBVIOUS
  <2>2. Init => inserted - Len(queue) = 0
    BY <2>1 DEF Init
  <2>. QED  BY <2>2 DEF OnlyStaleDropped
<1>2. IInv /\ IInv' /\ OnlyStaleDropped /\ [Next]_vars => OnlyStaleDropped'
  BY StepRefines, StaleStep
<1>. QED  BY <1>1, <1>2, Invariance, PTL DEF Spec
-----------------------------------------------------------------------------
(* What a consumer holds is at most the front of the queue, or the next    *)
(* item to come: a front that was peeked at need not have been taken.      *)
ReadBound == \A c \in Consumers : item[c] <= inserted - Len(queue) + 1

(* A blocking operation reads the front.                                   *)
LEMMA FrontRead ==
  ASSUME IInv, NEW c \in Consumers, NEW op \in BlockingOps,
         Complete(c, op) \/ (queue # <<>> /\ PopInto(c)), UNCHANGED inserted
  PROVE  \A d \in Consumers : item'[d] \in {item[d], inserted - Len(queue) + 1}
<1>1. queue # <<>> => Head(queue) = inserted - Len(queue) + 1
  <2>. SUFFICES ASSUME queue # <<>> PROVE Head(queue) = inserted - Len(queue) + 1
    OBVIOUS
  <2>1. Head(queue) = queue[1] /\ Len(queue) \in Nat \ {0}
    BY TailShifts DEF IInv, TypeOK
  <2>. QED  BY <2>1 DEF IInv, FreshestSuffix
<1>2. item \in [Consumers -> 0..MaxInserts]
  BY DEF IInv, TypeOK
<1>3. item' = item \/ (queue # <<>> /\ item' = [item EXCEPT ![c] = Head(queue)])
  BY DEF Complete, PopInto, BlockingOps
<1>. QED  BY <1>1, <1>2, <1>3

LEMMA ItemStep ==
  ASSUME IInv, [Next]_vars
  PROVE  \A d \in Consumers : item'[d] \in {item[d], inserted - Len(queue) + 1}
<1>1. ASSUME NEW c \in Consumers, NEW op \in BlockingOps, Enter(c, op)
      PROVE  item' = item \/ (Complete(c, op) /\ UNCHANGED inserted)
  BY <1>1 DEF Enter
<1>2. ASSUME NEW c \in Consumers, Resume(c)
      PROVE  call[c] \in BlockingOps /\ Complete(c, call[c]) /\ UNCHANGED inserted
  BY <1>2 DEF Resume, IInv, TypeOK
<1>3. ASSUME NEW c \in Consumers, try_get_queue(c)
      PROVE  queue # <<>> /\ PopInto(c) /\ UNCHANGED inserted
  BY <1>3 DEF try_get_queue
<1>4. ASSUME insert_queue \/ insert_queue_with_pop \/ SetExpired \/ NotifyExpired
             \/ (\E c \in Consumers : Wait(c) \/ SpuriousWakeup(c)) \/ UNCHANGED vars
      PROVE  item' = item
  BY <1>4 DEF insert_queue, insert_queue_with_pop, InsertKeeping, SetExpired, NotifyExpired,
              Wait, SpuriousWakeup, vars, cvars
<1>5. "get_queue" \in BlockingOps
  BY DEF BlockingOps
<1>. QED  BY <1>1, <1>2, <1>3, <1>4, <1>5, FrontRead DEF Next, Consume

(* The front only moves towards newer items.                               *)
LEMMA GoneGrows ==
  ASSUME IInv, [Next]_vars
  PROVE  inserted' - Len(queue') >= inserted - Len(queue)
<1>. USE QueueAssumption
<1>1. inserted \in Nat /\ Len(queue) \in Nat
  BY DEF IInv, TypeOK
<1>2. [Window!Next]_(Window!wvars)
  BY StepRefines
<1>3. CASE Window!Put
  <2>1. PICK n \in KeptByOps : inserted' - Len(queue') = Window!GiveUpTo(n)
    BY <1>3 DEF Window!Put
  <2>2. n \in Nat
    BY <2>1 DEF KeptByOps
  <2>. QED  BY <1>1, <2>1, <2>2 DEF Window!GiveUpTo
<1>4. CASE Window!Deliver
  BY <1>1, <1>4 DEF Window!Deliver
<1>5. CASE UNCHANGED Window!wvars
  BY <1>1, <1>5 DEF Window!wvars
<1>. QED  BY <1>2, <1>3, <1>4, <1>5 DEF Window!Next

(* However peeking, taking and dropping interleave, and for any number of  *)
(* consumers, nobody is shown an older item after a newer one.             *)
THEOREM ReadsAreMonotone == Spec => MonotoneReads
<1>1. Init => ReadBound
  <2>1. Len(<<>>) = 0 /\ 0 <= 0 - 0 + 1
    OBVIOUS
  <2>. QED  BY <2>1 DEF Init, ReadBound
<1>2. IInv /\ IInv' /\ ReadBound /\ [Next]_vars => ReadBound'
  <2>. SUFFICES ASSUME IInv, IInv', ReadBound, [Next]_vars, NEW c \in Consumers
                PROVE  item'[c] <= inserted' - Len(queue') + 1
    BY DEF ReadBound
  <2>1. /\ item[c] \in Nat /\ item'[c] \in Nat
        /\ inserted - Len(queue) \in Int /\ inserted' - Len(queue') \in Int
    BY DEF IInv, TypeOK
  <2>. QED  BY <2>1, ItemStep, GoneGrows DEF ReadBound
<1>3. IInv /\ IInv' /\ ReadBound /\ [Next]_vars => [\A c \in Consumers : item'[c] >= item[c]]_vars
  <2>. SUFFICES ASSUME IInv, IInv', ReadBound, [Next]_vars, NEW c \in Consumers
                PROVE  item'[c] >= item[c]
    OBVIOUS
  <2>1. /\ item[c] \in Nat /\ item'[c] \in Nat
        /\ inserted - Len(queue) \in Int
    BY DEF IInv, TypeOK
  <2>. QED  BY <2>1, ItemStep DEF ReadBound
<1>. QED  BY <1>1, <1>2, <1>3, Invariance, PTL DEF Spec, MonotoneReads
=============================================================================
