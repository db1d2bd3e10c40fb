----------------------------- MODULE ThreadQueue -----------------------------
(***************************************************************************)
(* inc/thread_queue.h: one queue of ThreadQueue<basic_item>, with its      *)
(* mutex m_mutexs[id] and its condition variable m_conds[id].  Queues of   *)
(* different ids share nothing, so one id stands for all of them.          *)
(*                                                                         *)
(* Every operation runs with the mutex held from its first statement to    *)
(* its last, except where it blocks in m_conds[id].wait(lock).  A critical *)
(* section that does not block is therefore one step.  The operations that *)
(* may block have two: up to the wait, and from the wake-up to the end.    *)
(* Between the test empty() and the wait the mutex is still held (state    *)
(* "checked"): try_to_expire, the only operation that notifies without the *)
(* mutex, can fall into that gap.                                          *)
(*                                                                         *)
(* Items are numbered by the order in which insertions took the mutex.     *)
(***************************************************************************)
EXTENDS Integers, Sequences

CONSTANTS
  Consumers,   \* threads that take items out
  NoThread,    \* the mutex is free
  Limit,       \* insert_queue drops the oldest while size() > Limit
  MaxInserts,  \* bound: insertions considered
  Ops          \* the operations the threads of this instance call

InsertOps   == {"insert_queue", "insert_queue_with_pop"}
BlockingOps == {"get_queue", "get_queue_without_pop", "get_queue_size"}
AllOps      == InsertOps \cup BlockingOps \cup {"try_get_queue", "try_to_expire"}

ASSUME QueueAssumption ==
  /\ NoThread \notin Consumers
  /\ Limit \in Nat
  /\ MaxInserts \in Nat
  /\ Ops \subseteq AllOps

VARIABLES
  queue,       \* m_queues[id]: the numbers of the items it holds
  owner,       \* the thread that holds m_mutexs[id] between two steps
  pc,          \* per consumer: idle, checked (empty seen, mutex held),
               \*   blocked (in wait), woken (wait has to re-take the mutex)
  call,        \* per consumer: the blocking operation it is in
  item,        \* per consumer: its get_item (0: not assigned yet)
  expiring,    \* try_to_expire has set its flags and has not notified yet
  try_expire,  \* m_try_to_expire[id]
  should_exit, \* should_exit
  inserted,    \* history: number of items inserted so far
  delivered    \* history: the numbers moved out to consumers, in order

cvars == <<pc, call, item>>
evars == <<expiring, try_expire, should_exit>>
vars  == <<queue, owner, cvars, evars, inserted, delivered>>

TypeOK ==
  /\ inserted \in 0..MaxInserts
  /\ queue \in Seq(1..MaxInserts)
  /\ delivered \in Seq(1..MaxInserts)
  /\ owner \in Consumers \cup {NoThread}
  /\ pc \in [Consumers -> {"idle", "checked", "blocked", "woken"}]
  /\ call \in [Consumers -> BlockingOps]
  /\ item \in [Consumers -> 0..MaxInserts]
  /\ expiring \in BOOLEAN
  /\ try_expire \in BOOLEAN
  /\ should_exit \in BOOLEAN

(* The state after add_queue() in the constructor of RecvThread.           *)
Init ==
  /\ queue = <<>>
  /\ owner = NoThread
  /\ pc = [c \in Consumers |-> "idle"]
  /\ call = [c \in Consumers |-> "get_queue"]
  /\ item = [c \in Consumers |-> 0]
  /\ expiring = FALSE
  /\ try_expire = FALSE
  /\ should_exit = FALSE
  /\ inserted = 0
  /\ delivered = <<>>
-----------------------------------------------------------------------------
(* notify_one() in place of notify_all()                                   *)
NotifyAll_one ==
  IF \E c \in Consumers : pc[c] = "blocked"
    THEN \E c \in Consumers : pc[c] = "blocked" /\ pc' = [pc EXCEPT ![c] = "woken"]
    ELSE UNCHANGED pc

(* the notification forgotten                                              *)
NotifyAll_none == UNCHANGED pc

(* m_conds[id].notify_all(): the blocked threads leave the wait set; each  *)
(* still has to re-take the mutex.                                         *)
NotifyAll == pc' = [c \in Consumers |-> IF pc[c] = "blocked" THEN "woken" ELSE pc[c]]

(* the newest items given up in place of the oldest                        *)
DropOldest_newest(k) == IF Len(queue) > k THEN SubSeq(queue, 1, k) ELSE queue

(* one item too many given up                                              *)
DropOldest_eager(k) ==
  IF k > 0 /\ Len(queue) >= k THEN SubSeq(queue, Len(queue) - k + 2, Len(queue)) ELSE queue

(* while (size() > k) pop();                                               *)
DropOldest(k) ==
  IF Len(queue) > k THEN SubSeq(queue, Len(queue) - k + 1, Len(queue)) ELSE queue

InsertKeeping(k) ==
  /\ owner = NoThread
  /\ inserted < MaxInserts
  /\ inserted' = inserted + 1
  /\ queue' = Append(DropOldest(k), inserted + 1)
  /\ NotifyAll
  /\ UNCHANGED <<owner, call, item, evars, delivered>>

(* insert_queue(id, item), by any thread                                   *)
insert_queue == "insert_queue" \in Ops /\ InsertKeeping(Limit)

(* insert_queue_with_pop(id, item), by any thread                          *)
insert_queue_with_pop == "insert_queue_with_pop" \in Ops /\ InsertKeeping(0)
-----------------------------------------------------------------------------
(* back() in place of front()                                              *)
PopInto_back(c) ==
  /\ item' = [item EXCEPT ![c] = queue[Len(queue)]]
  /\ queue' = Tail(queue)
  /\ delivered' = Append(delivered, queue[Len(queue)])

(* the pop() forgotten                                                     *)
PopInto_nopop(c) ==
  /\ item' = [item EXCEPT ![c] = Head(queue)]
  /\ queue' = queue
  /\ delivered' = Append(delivered, Head(queue))

(* get_item = std::move(front()); pop()                                    *)
PopInto(c) ==
  /\ item' = [item EXCEPT ![c] = Head(queue)]
  /\ queue' = Tail(queue)
  /\ delivered' = Append(delivered, Head(queue))

(* empty() not tested again after the wait: front() of an empty container  *)
(* is no item                                                              *)
Complete_untested(c, op) ==
  IF queue = <<>>
    THEN /\ item' = [item EXCEPT ![c] = -1]
         /\ UNCHANGED <<queue, delivered>>
    ELSE CASE op = "get_queue"             -> PopInto(c)
           [] op = "get_queue_without_pop" -> UNCHANGED <<queue, item, delivered>>
           [] op = "get_queue_size"        -> UNCHANGED <<queue, item, delivered>>

(* peeking at back()                                                       *)
Complete_back(c, op) ==
  IF queue = <<>>
    THEN UNCHANGED <<queue, item, delivered>>
    ELSE CASE op = "get_queue"             -> PopInto(c)
           [] op = "get_queue_without_pop" -> /\ item' = [item EXCEPT ![c] = queue[Len(queue)]]
                                              /\ UNCHANGED <<queue, delivered>>
           [] op = "get_queue_size"        -> UNCHANGED <<queue, item, delivered>>

(* What a blocking operation does once it has the mutex and will not wait  *)
(* (again): the statements after `if (empty()) wait(lock)`.  It returns    *)
(* false, or length 0, when the queue is still empty.                      *)
Complete(c, op) ==
  IF queue = <<>>
    THEN UNCHANGED <<queue, item, delivered>>
    ELSE CASE op = "get_queue"             -> PopInto(c)
           [] op = "get_queue_without_pop" -> /\ item' = [item EXCEPT ![c] = Head(queue)]
                                              /\ UNCHANGED <<queue, delivered>>
           [] op = "get_queue_size"        -> UNCHANGED <<queue, item, delivered>>

(* the mutex released between empty() and the wait                         *)
Enter_gap(c, op) ==
  /\ op \in Ops
  /\ owner = NoThread
  /\ pc[c] = "idle"
  /\ call' = [call EXCEPT ![c] = op]
  /\ IF queue = <<>>
       THEN /\ pc' = [pc EXCEPT ![c] = "checked"]
            /\ UNCHANGED <<owner, queue, item, delivered>>
       ELSE /\ Complete(c, op)
            /\ UNCHANGED <<pc, owner>>
  /\ UNCHANGED <<evars, inserted>>

(* Entry of get_queue, get_queue_without_pop and get_queue_size.           *)
Enter(c, op) ==
  /\ op \in Ops
  /\ owner = NoThread
  /\ pc[c] = "idle"
  /\ call' = [call EXCEPT ![c] = op]
  /\ IF queue = <<>>
       THEN /\ pc' = [pc EXCEPT ![c] = "checked"]
            /\ owner' = c
            /\ UNCHANGED <<queue, item, delivered>>
       ELSE /\ Complete(c, op)
            /\ UNCHANGED <<pc, owner>>
  /\ UNCHANGED <<evars, inserted>>

(* m_conds[id].wait(lock): join the wait set and release the mutex, in one *)
(* indivisible step.                                                       *)
Wait(c) ==
  /\ pc[c] = "checked"
  /\ pc' = [pc EXCEPT ![c] = "blocked"]
  /\ owner' = NoThread
  /\ UNCHANGED <<queue, call, item, evars, inserted, delivered>>

(* wait may return without a notification.                                 *)
SpuriousWakeup(c) ==
  /\ pc[c] = "blocked"
  /\ pc' = [pc EXCEPT ![c] = "woken"]
  /\ UNCHANGED <<queue, owner, call, item, evars, inserted, delivered>>

(* wait re-takes the mutex and returns; the operation runs to its end.     *)
Resume(c) ==
  /\ pc[c] = "woken"
  /\ owner = NoThread
  /\ pc' = [pc EXCEPT ![c] = "idle"]
  /\ Complete(c, call[c])
  /\ UNCHANGED <<owner, call, evars, inserted>>

(* try_get_queue(id, item): never blocks                                   *)
try_get_queue(c) ==
  /\ "try_get_queue" \in Ops
  /\ owner = NoThread
  /\ pc[c] = "idle"
  /\ queue # <<>>
  /\ PopInto(c)
  /\ UNCHANGED <<owner, pc, call, evars, inserted>>
-----------------------------------------------------------------------------
(* try_to_expire() takes no mutex.  First loop: the flags.                 *)
SetExpired ==
  /\ "try_to_expire" \in Ops
  /\ ~expiring
  /\ expiring' = TRUE
  /\ try_expire' = TRUE
  /\ UNCHANGED <<queue, owner, cvars, should_exit, inserted, delivered>>

(* only the flags are set                                                  *)
NotifyExpired_silent ==
  /\ expiring
  /\ expiring' = FALSE
  /\ should_exit' = TRUE
  /\ UNCHANGED <<queue, owner, cvars, try_expire, inserted, delivered>>

(* Second loop, and should_exit = true.                                    *)
NotifyExpired ==
  /\ expiring
  /\ expiring' = FALSE
  /\ NotifyAll
  /\ should_exit' = TRUE
  /\ UNCHANGED <<queue, owner, call, item, try_expire, inserted, delivered>>
-----------------------------------------------------------------------------
(* One consumer's own steps, the spurious wake-up excepted.                *)
Consume(c) ==
  \/ \E op \in BlockingOps : Enter(c, op)
  \/ Wait(c)
  \/ Resume(c)
  \/ try_get_queue(c)

Next ==
  \/ insert_queue
  \/ insert_queue_with_pop
  \/ \E c \in Consumers : Consume(c) \/ SpuriousWakeup(c)
  \/ SetExpired
  \/ NotifyExpired

Spec == Init /\ [][Next]_vars

(* detect_func calls get_queue in an endless loop and never stops between  *)
(* two of its statements; a thread inside try_to_expire finishes it.       *)
(* Nothing is assumed of insertions or of spurious wake-ups.               *)
FairSpec ==
  /\ Spec
  /\ \A c \in Consumers : WF_vars(Consume(c))
  /\ WF_vars(NotifyExpired)
-----------------------------------------------------------------------------
(***************************************************************************)
(* Properties                                                              *)
(***************************************************************************)

(* Only the thread that holds the mutex is between empty() and wait(), and *)
(* what it saw is still so: nobody inserts behind its back.                *)
MutexHolder ==
  \A c \in Consumers : /\ pc[c] = "checked" <=> owner = c
                       /\ owner = c => queue = <<>>

(* No consumer sleeps in wait() while there is an item: the if (not while) *)
(* around the wait, the notification under the mutex and the mutex held    *)
(* from empty() to wait() are together enough for that.                    *)
NoLostWakeup ==
  queue # <<>> => \A c \in Consumers : pc[c] # "blocked"

(* The container is never anything but the most recent insertions, oldest  *)
(* first, and never more of them than the size test of insert_queue        *)
(* allows (one more than the number in the test), whatever consumers do.   *)
FreshestSuffix ==
  /\ Len(queue) <= Limit + 1
  /\ \A i \in 1..Len(queue) : queue[i] = inserted - Len(queue) + i

(* Consumers together get the items in the order of insertion, none twice  *)
(* and none that is still queued, although get_item is moved from front()  *)
(* and popped in two statements.                                           *)
DeliveredInOrder ==
  /\ \A i \in 1..Len(delivered) - 1 : delivered[i] < delivered[i + 1]
  /\ delivered # <<>> => delivered[Len(delivered)] <= inserted - Len(queue)

(* An item that left the queue without reaching a consumer had been        *)
(* superseded by a full queue of newer ones (insert_queue), or by one      *)
(* newer item (insert_queue_with_pop).                                     *)
OnlyStaleDropped ==
  LET newer == IF "insert_queue_with_pop" \in Ops THEN 1 ELSE Limit + 1
  IN  \A k \in 1..inserted - Len(queue) :
         inserted - k < newer => \E i \in 1..Len(delivered) : delivered[i] = k

(* A consumer that mixes peeking and taking never sees an older item after *)
(* a newer one.                                                            *)
MonotoneReads == [][\A c \in Consumers : item'[c] >= item[c]]_vars

(* Every item leaves the queue in the end: it is delivered or superseded.  *)
EveryItemLeaves ==
  \A k \in 1..MaxInserts : (inserted >= k) ~> (inserted - Len(queue) >= k)

(* A thread already asleep in get_queue when try_to_expire runs comes back *)
(* to its caller even if no item ever arrives.                             *)
ExpiryFreesBlocked ==
  \A c \in Consumers : (pc[c] = "blocked" /\ expiring) ~> (pc[c] = "idle")

(* The queue implements the window over the stream of items.               *)
KeptByOps ==
  (IF "insert_queue" \in Ops THEN {Limit} ELSE {})
    \cup (IF "insert_queue_with_pop" \in Ops THEN {0} ELSE {})

Window == INSTANCE FrameWindow WITH
  newest <- inserted, gone <- inserted - Len(queue), Keep <- KeptByOps

ImplementsWindow     == Window!Spec
ImplementsFairWindow == Window!FairSpec
=============================================================================
