# Formal models of zntk_objdec

`zntk_objdec` is an object-detection server for Ascend (Atlas 200 DK / 300) hardware. A client sends JPEG
frames over UDP; the server reassembles them, decodes and resizes each one on the device, runs a YOLOv4
model, keeps the boxes that survive non-maximum suppression and sends them back. This directory holds
TLA+ models of that program, the TLC configurations that check them and TLAPS proofs about them.

Paths are relative to the repository's root directory.

## 1. Inventory

| Component | State it keeps | Operations | Interacts with |
|---|---|---|---|
| `ThreadQueue` (`inc/thread_queue.h`) | per id: a `std::queue`, a mutex, a condition variable, an expiry flag; `should_exit` | `add_queue`, `insert_queue`, `insert_queue_with_pop`, `get_queue`, `try_get_queue`, `get_queue_without_pop`, `get_queue_size`, `try_to_expire` | `RecvThread` inserts, `DetectThread` takes |
| `RecvThread` (`src/recv_thread.cpp`) | the locals of `recv_server`; `serv_port` | one endless loop: length, id, packs, `insert_queue` | UDP clients; `DetectThread::set`, `setip` |
| `DetectThread` (`src/detect_thread.cpp`) | `set`, `client_address`, `client_port`; the locals of `detect_func` | endless loop: take, decode/resize, infer, post-process, encode, `sendTo` | everything below |
| `Utils` (`src/utils.cpp`) | `RunStatus::isDevice_` | `GetDeviceBufferOfPictureMemery`, `ReadBinMemery` | Ascend library |
| `DvppProcess` (`src/dvpp_process.cpp`) | channel, descriptions, decoder and resizer buffers | `InitResource`, `InitDvppOutputPara`, `Process`, `GetDvppOutput`, destructor | Ascend library |
| `ModelProcess` (`src/model_process.cpp`) | context, model, `input_`, `output_` | `Init`, `LoadModel`, `CreateInput`, `CreateOutput`, `Execute`, `Finalize` | Ascend library |
| `PostProcess` (`src/post_process.cpp`) | none between calls | scores, `SetBoxInfo_v2`, `NMS` | called by `DetectThread::ProcessOutput` |
| result encoding (`detect_thread.cpp:237-286`) | none | `uint2chars`, `result_to_uchars` | `sendTo` |
| start-up (`src/main.cpp`, constructors) | `RecvThread::detect_thread` | construction order, two detached threads | both threads |
| `PracticalSocket` | socket descriptor | `recvFrom`, `sendTo`; both throw | vendored |
| clock, tictoc, logging, scripts, CMake | - | - | not part of the behaviour |

What is hard:

* **Concurrency.** Two threads share the queue (mutex and condition variable) and, with no lock at all,
  `set`/`client_address`. `wait` is guarded by `if`; `try_to_expire` notifies without the mutex.
* **The network.** The protocol has no types, numbers or checksums; the meaning of a datagram depends on how
  many came before it. Loss, duplication, reordering and interleaved clients all matter.
* **Partial failure.** Some forty library calls per frame may fail. Every error path has its own list of
  what it releases.
* **Boundaries.** `> 10` in `insert_queue`, unsigned `(total_length - 1) / PACK_SIZE`, packs as short as a header.

What makes each part correct: the queue is a window over the most recent items, loses nothing else, never
lets a consumer sleep beside an item; reassembly accepts only what one client sent as one frame, stays inside
its buffer, and falls in step again after a fault; a frame leaves nothing on the device beyond a known bound,
nothing is released twice; the reply address is settled before anybody reads it.

## 2. Modules

| Module | Models | |
|---|---|---|
| `FrameWindow` | what the queue promises | a window `(gone, newest]` over a numbered stream; `Put`, `Deliver` |
| `Receiver` | what the receiver thread promises the rest of the program | `Header`, `Accept`, `Reject`, `Crash` |
| `DetectLoop` | what the detect thread promises the rest of the program | one variable: starting, asking, working, sending, ended |
| `DetectService` | what the server promises its clients | frames accepted, answers in order to one address |
| `ThreadQueue` | `inc/thread_queue.h` | the monitor, one action per critical section |
| `RecvThread` | `src/recv_thread.cpp`, `setip`, `recvFrom` | with clients and a faulty network around it |
| `DetectThread` | `detect_func` and all the Ascend objects it handles | resource life cycles |
| `PostProcess` | `src/post_process.cpp`: `Process(result)`, `NMS`, `IOU` | one action per round of a loop |
| `ResultFrame` | `uint2chars`, `result_to_uchars` | EXTENDS `PostProcess`: what it returns is encoded |
| `System` | `main()`, the constructors, both threads, the queue between them | the composition |
| `MCThreadQueue`, `MCRecvThread`, `MCResultFrame`, `MCSystem` | values for TLC | |
| `ThreadQueue_proofs`, `RecvThread_proofs`, `DetectThread_proofs`, `PostProcess_proofs`, `ResultFrame_proofs`, `System_proofs` | theorems about the module of that name | TLAPS; `ResultFrame_proofs` EXTENDS `PostProcess_proofs` |

How they fit together:

    DetectService  <-- ImplementsService --  System
                                              |  INSTANCE ThreadQueue  -- ImplementsWindow -->  FrameWindow
                                              |  INSTANCE Receiver    <-- ImplementsReceiver --  RecvThread
                                              |  INSTANCE DetectLoop  <-- ImplementsDetectLoop --  DetectThread
                                                                                                    (ProcessOutput: ResultFrame)

`System` is built from the queue itself and from the promises of the two threads; that the detailed modules keep
those promises is checked on instances and proved for all. So each level is checked with only the state that
matters at that level: datagram sizes and lost packs in `RecvThread`, device objects in `DetectThread`, the order of
frames and the reply address in `System`.

### ThreadQueue

`queue` is `m_queues[id]` with items numbered by insertion; `owner` is the holder of `m_mutexs[id]` between two
steps; `pc`, `call`, `item` are per consumer. An operation that does not block is one step, because it holds
the mutex throughout and nothing outside sees its intermediate states. A blocking operation is `Enter` (take the
mutex, test `empty()`), `Wait` (join the wait set and release), and `Resume` (re-take the mutex, run to the end).
Between `Enter` and `Wait` the mutex is held (`pc = "checked"`): this is where `try_to_expire`, which locks nothing,
can interleave, and it has two actions of its own, `SetExpired` and `NotifyExpired`. `SpuriousWakeup` is the
condition variable's licence to return. Which operations an instance uses is the constant `Ops`.

`delivered` and `inserted` are history variables. `Window` maps the queue to `FrameWindow`:
`newest <- inserted`, `gone <- inserted - Len(queue)`, `Keep` the sizes to which the insertions cut the queue.

### RecvThread

`pc` says which of the three `recvFrom` calls the thread is in. `Datagram(c)` is what client `c` sends next; a
client cycles through its frames. Payloads are abstract (`<<frame, part>>`), but sizes are not: the
draining loops, `TotalPack` and the final comparison are arithmetic on them, at word size `WordMod`. The bytes of a
pack read as an `int` are any member of `Words`. A copy beyond `longbuf` sets `overrun` and may or may not end the
process; `resize` may throw above `AllocLimit`, and `recvFrom` may throw at any time. Network faults are actions
(`Lose`, `Duplicate`, `Delay` / `DeliverLate`) limited by `MaxFaults`; so is what a client in `Strangers` sends (`Stray`). Clients and network are not in the
repository and are marked external. Towards `Receiver` the id and the packs are one phase, `"rest"`.

### DetectThread

`own` holds the names that refer to a live object, `lost` counts objects nothing refers to any more, `misused`
the names released while referring to nothing, `mismatched` the pairs of a free function and memory that came from
another allocator. `Call(made, gone, forgotten)` is the effect of one function on the four: what it creates, what it
releases (with the function that does so) or hands over, and which references go out of scope. Every function that
can report an error has a disjunct for it, and returns through the same exits as the code (`Return` includes the
destructor of `DvppProcess`). `ModelProcess` is destroyed only if `detect_func` gives up during initialisation. Which
allocator a picture came from depends on `isDevice`, so the run covers both run modes.

### PostProcess and ResultFrame

`output` is the pair of tensors, chosen from a finite set; a score is an integer in tenths, a length in half
pixels, so that the halving in `SetBoxInfo_v2` stays exact. `ScanClass` is one round of the loop over the classes,
`ScanBox` the end of a round of the loop over the boxes; `Keep`, `Compare` and `EraseFirst` are the parts of `NMS`.
What the scan promises (`FirstBest`, `IsCandidate`) is a definition of its own, without a loop. `Sort` may leave boxes of equal score in any order, as `std::sort`
may. `IOUExceeds` follows IEEE division for a denominator of zero. In `ResultFrame`, `EncodeHead`, `EncodeBox` (one
round of the loop) and `EncodeEnd` are `result_to_uchars`; `check` starts with any byte and a
negative coordinate becomes a word by saturation or by wrapping (`toWord`, fixed for a build). Byte and word sizes are
scaled by `ByteMod`.

### System

`main` is the next statement of `main()`. A constructor starts its thread, so that the receiver runs from
`"DetectThread"` on, while `recv_thread.detect_thread` is assigned only two statements later. A header that arrives before
the assignment is `EarlyHeader`: the code reads `set` through a pointer that was never assigned, and the model admits
whatever may come of it (the process ends; the address is taken as set; `setip` writes where nobody looks). The same
goes for an assignment the receiver does not see yet, since nothing synchronises the two. The history variable
`early` records it, and the properties about the reply address except it. `Accept` is the receiver's `insert_queue`
and needs the mutex of the queue; `GetQueue` is a step of the detect thread inside `get_queue`. An exception that leaves a
thread function ends the process (`alive`); nothing restarts it, the unit file has no `Restart`.

## 3. What TLC checks

| Run | Shows | Bounds |
|---|---|---|
| `queue_program` | the queue in the program: `OnlyStaleDropped`, `EveryItemLeaves`, `ExpiryFreesBlocked`, window refinement with fairness | limit 10 as in the code, 13 insertions (two of them drop the oldest items), one consumer |
| `queue_api` | the whole interface: `TypeOK`, `MutexHolder`, `NoLostWakeup`, `FreshestSuffix`, `DeliveredInOrder`, `MonotoneReads`, `ImplementsWindow` | limit 2, 5 insertions, 2 consumers, all 7 operations |
| `recv_lossless` | every length up to three packs arrives whole | lengths 1..48 with 16-byte packs |
| `recv_loss` | one loss anywhere: nothing corrupt is queued, no overrun, back in step | four frames of one to three packs; ids that read as lengths of one to four packs |
| `recv_disorder` | three faults of any kind, datagrams of a second client among them: back in step, or ended by a socket error, a `resize` that throws or an overrun; `ImplementsReceiver` throughout | one client that keeps sending three frames, one stranger; `AllocLimit` below what an id can be read as |
| `recv_overrun` | *violated*: finding 1 | one loss |
| `detect_failures` | no transient outlives a frame; at most one picture buffer and one of each data set object lost per frame; no double release, no wrong free function; clean end; `ImplementsDetectLoop` | three frames, any call failing, both run modes |
| `detect_context` | *violated*: finding 2 | one frame |
| `results` | scan exact, results best first and apart, nothing dropped without reason, the client reads back what was sent, `Process` returns | three boxes, two classes, four rectangles, 8-valued bytes; scores below, at and above the threshold |
| `results_iou` | *violated*: finding 3 | as `results` |
| `results_checknum` | *violated*: finding 4 | as `results` |
| `system_server` | from `main()` on: answers go to the client heard first, the address is never written once a frame is queued, every accepted frame is in one place or superseded, every frame is settled, the service is implemented | two clients, limit 1, four frames |

Why the bounds suffice. The queue's behaviour depends on its length, on who sleeps and on who holds the mutex;
two consumers give every competition there is (one woken, one stealing), and the limit is passed in both runs. The
proofs then remove the bounds. Reassembly restarts after each frame, so three frames and one to three faults show
every way to be out of step; scaled sizes keep every case of the arithmetic (0, one, a multiple, one more). `ImplementsReceiver` is checked
with a second client, whose header may come first: with one client an address written again would be the same. In
`DetectThread` a frame depends on the previous one only through `input_`, `output_`, so that three
frames show first, repeated and failed overwriting. Three boxes are the fewest for which an erase moves a box that
is still to be compared. In `System` two clients are needed to tell the first from another, and four frames at limit 1
give a full queue, an overflow, a frame in work and a frame answered before it at the same time.

`queue_*` and the first two `recv_*` runs check for deadlock. The others stop legitimately: the process has
ended (`crashed`, `ended`, `~alive`), the function has returned (`encoded`), or the bound on frames is reached.

Fairness. `ThreadQueue!FairSpec`: a consumer in the middle of an operation takes its next step, and asks again when
it is idle, because `detect_func` is an endless loop; a started `try_to_expire` finishes. Insertions and spurious
wake-ups are not fair. `RecvThread!FairSpec`: clients, but for strangers, keep sending and a delayed datagram arrives in the end;
faults are not fair. `ResultFrame!FairSpec`: a thread inside `Process` goes on. `System!FairSpec`: `main()` and the
detect thread do not stop between two statements; nothing is assumed of clients or of the receiver, so
`EveryFrameSettled` holds even when no further frame comes to wake the detect thread.

## 4. What is proved

Every theorem holds for all values of the constants that satisfy the `ASSUME` of its module (bounds are naturals,
sizes positive, special values distinct); nothing else is assumed unless the theorem says so.

**`ThreadQueue_proofs`** (any consumers, `Limit`, `MaxInserts`, operations): `TypeCorrect`, `NoSleeperBesideItem`,
`MutexExclusive`, `HoldsFreshest`, `OrderedDelivery`, `OnlySupersededLost`, `ReadsAreMonotone`, and the refinement
`QueueRefinesWindow`.
The inductive invariant is `IInv == TypeOK /\ MutexHolder /\ NoLostWakeup /\ FreshestSuffix /\ DeliveredInOrder`. The parts
lean on each other: `NoLostWakeup` is preserved by `Wait` only because `MutexHolder` says that whoever is about to sleep
saw an empty queue that is still empty; `DeliveredInOrder` needs `FreshestSuffix` to know that the front is the oldest
number not yet gone; the refinement needs it to know that what `Head` returns is `gone + 1`. `InsertStep`,
`PopStep` and `CompleteStep` treat the critical sections once, `NextIInv` has one step per action.

**`RecvThread_proofs`**: `TypeCorrect` and `RefinesReceiver` for any clients and any faults, from an invariant that
types the receiver and says that any datagram that reaches it was sent by a client. `ReassemblyIsExact` and `CopiesFit`
assume `Lossless` (one client, no faults) and hold for every frame length, pack size and word size. Their
invariant `LockStep` says that receiver and client are at the same place: the receiver waits for exactly the part the
client sends next and holds the parts before it. `TotalPackIsNPacks` and `LastPack` are the arithmetic: the number of
packs the receiver computes is the number the client cuts, and only the last pack completes the length.

`LossMakesNothingUp` and `CopiesFitAfterLoss` are about one lost datagram, whichever it is. They assume `OneLoss`: one
client, at most one fault (a loss, or `recvFrom` throws), and `Discernible` lengths and ids: a frame of that many bytes
ends with a pack longer than a header. The ids are included because an id may be read as a length; the instance of
`recv_loss` satisfies the hypothesis, section 6 says why it is needed. The invariant `LossInv` says that the receiver is in
step (`InStep`, as above) or `OutOfStep`: it drains packs until a header comes, or it is in a round in which a header was
already copied (`HeaderCopied`) or will be before the round ends (`HeaderDue`: fewer packs of the client's frame are left than
the receiver waits for). Such a round fills at most all its packs but one, and a header; by `RoundFallsShort` that is less
than the length announced, whatever that was, so no copy leaves the buffer and the size test rejects the round.

**`DetectThread_proofs`** (any number of frames, any call failing): `RefinesDetectLoop`, `TypeCorrect`,
`NothingReleasedTwice`, `RightFreeFunction`, `NoTransientLeft`, `GivingUpReleasesAll`, `FramesCostOneBuffer`. The invariant has a part `Held`
that says, for each point in the loop, which local objects exist there; `Clean` collects what no call may have done
so far. `CallIsClean` and `LocalCall` treat `Call` once: a call that releases only what `Held` says is there, by the
function of its kind, keeps both. `FramesCostOneBuffer` needs `Budget` besides: while a frame is prepared (`Preparing`) fewer
pictures have been `Spent` than frames begun, so that the one this frame may cost, by an early return or as the model's input,
is still covered; afterwards at most as many. `CallCost` shows that a call of the preparation forgets at most one
picture, and none if the frame goes on; `PreparationCost`, `DecoderCost` and the lemmas after them apply it to each call.

**`PostProcess_proofs`** and **`ResultFrame_proofs`** (any number of boxes and classes, any scores and thresholds, any measure
in the place of `IOUExceeds`, bytes of any size): `TypeCorrect`, `ScanExact`, `ResultsBestFirst`, `NothingOverlaps`, `NothingLost`,
`ClientReads`, `ProcessIsBounded`. The invariant of `Process` is `PInv == Shape /\ Scanned /\ KeptApart /\ OuterPart /\ InnerPart
/\ Sorted /\ Placed /\ Over`. `Scanned` says what the loop over the classes has found so far (`BestSoFar`); `FirstOfIs` turns that
into the first best class when the loop ends. Between rounds of the outer loop no remaining box overlaps a kept one
(`OuterPart`); within a round the boxes up to `index` have been compared with the first (`InnerPart`). `Sorted` says that
everything in `result` scores at least what is left in `boxes`, which `KeptApart` alone would not give, and `Placed` that a
candidate is still in `boxes`, is kept, or is covered by a kept box. `RemoveAtIs` says what an erase does to positions.
`ProcessIsBounded` is the part of termination within the prover's reach: `StepsLeft` is a natural number that each round of each
loop lowers. That a round is always possible before the end is checked by `ProcessReturns`.
`EncInv` describes the bytes by what a client reads from them: `HeadSent` and `BoxSent(k)` for each box encoded so far.
`Uint2charsReads` is the arithmetic (four remainders make the word again), `ConcatReads` says that appending does not disturb what
was there.

**`System_proofs`** (any clients, `Limit`, number of frames): `TypeCorrect`, `RepliesGoToFirstClient`, `AddressIsStable`,
`ServerServes`, `FramesAccountedFor`. The queue is not proved again: `IInv` of `ThreadQueue_proofs` is instantiated. To it
`WorkInv` adds that the frame in work is the last one delivered and that answers follow the order of delivery, and
`AddressInv` that a set address is the first client's. `Accounted` adds that whatever was delivered is in work, answered or
given up.

Only model-checked: everything about liveness (`EveryItemLeaves`, `ExpiryFreesBlocked`, `ImplementsFairWindow`,
`EveryFrameAgain`, `EveryFrameAgainOrCrash`, `ProcessReturns`, `EveryFrameSettled`), which is out of the prover's reach. Every
invariant and action property of a passing run is stated by a theorem: without further hypotheses, except
`AcceptedIsGenuine` and `CopyFits`, which hold under `Lossless` or `OneLoss` only.

## 5. Findings

1. **Copy before the size check** (`src/recv_thread.cpp:45`, run `recv_overrun`). Packs are copied to `longbuf` before
   `recv_length != total_length` (line 48) is tested. After one lost length datagram the id is read as a length and
   the copy leaves the buffer.
2. **Uninitialised `context_`** (`src/model_process.cpp:70`, run `detect_context`). The constructor does not initialise
   it, `Finalize` tests it.
3. **`IOU` is no intersection over union** (`src/post_process.cpp:84`, run `results_iou`). `SetBoxInfo_v2` stores a corner
   in `w` and `h`, `IOU` reads them as a size, and one pixel is added to the sides of the intersection only.
   `inc/post_process.h:65` says "iou value"; the model finds a value above 1. `KeptApart` and `DroppedForBetter` are
   therefore stated with the code's own measure.
4. **Uninitialised `check`** (`src/detect_thread.cpp:268`, run `results_checknum`). The last byte of a reply, "checknum" in the
   layout comment (line 264), is a sum that starts from an indeterminate byte.

Also met while modelling, without a run: `recvFrom` stores the sender's port in `serv_port`, the port the server listens
on, while `sourcePort` (`src/recv_thread.cpp:21`, "Port of datagram source") is never used; and `detect_func` never
calls `DestroyInput`/`DestroyOutput` between frames (`detect_failures` keeps the loss at one picture per frame,
it does not make it zero). The layout comment of the reply (`src/detect_thread.cpp:261-264`) does not mention the id, which
is sent between the head and the number of boxes (line 270); `ClientReadsBack` is stated for the bytes as they are sent.

## 6. Limits of what holds

* `AcceptedIsGenuine` under faults is claimed for one loss. Two losses, or a duplicate or a reordering of packs of the
  same size, pass the size test with the wrong bytes: the protocol has nothing to tell them apart. The same is true of two
  clients that send at the same time, so reassembly is claimed for one client only, and recovery for a second
  client that falls silent; `TypeOK` and `ImplementsReceiver` are proved for any number.
* What is proved of one loss assumes `Discernible` lengths and ids. Without it the claim is false: with an id that reads as a
  shorter length a copy leaves the buffer (finding 1).
* Recovery after a loss is claimed for frames whose last pack is longer than a header. When the last pack has at most
  four bytes, it is taken for a header and a receiver out of step can stay so: with such lengths in the place of
  `PlainLengths`, TLC finds behaviours that refute `EveryFrameAgain` and `EveryFrameAgainOrCrash`. Nothing in the repository
  promises recovery.
* A constructor that throws ends the process (`src/main.cpp:34`); `System` has it as an outcome, no property is about it.
* A consumer between `empty()` and `wait` misses a notification of `try_to_expire`; `ExpiryFreesBlocked` is about consumers
  that already sleep.
* A header that comes before `main()` has assigned `recv_thread.detect_thread` may end the process or leave the reply address
  as it was; `ReplyToFirstClient` and `AddressNotRaced` except it.
* `FreedByItsAllocator` excepts one path: a failed copy of an output gives host memory to `aclrtFree`
  (`src/detect_thread.cpp:162`).

## 7. Plan

Done: all modules of section 2; every safety property of the passing runs proved, the refinements between the levels proved
and checked.

Possible next steps: the safety half of recovery after a loss (a number of deliveries after which the receiver is in step
again, as `StepsLeft` is for `Process`); more than one loss, with a bound on how close together they may come; what the protocol should
promise two clients.

Not modelled, and why:

* the file-reading half of `Utils` (`ReadBinFile`, `GetDeviceBufferOfPicture`, `CheckPathIsFile`) and the drawing half of
  `PostProcess` (`Process()`, `SetBoxInfo`, `DrawBoundBoxToImage`): nothing in the program calls them;
* `add_queue`'s limit of ten queues: it is called once, and only its effect is in `Init`;
* a second `LoadModel`: `detect_func` calls it once;
* TCP sockets, multicast and address resolution of `PracticalSocket`: vendored and unused;
* `clock.h`, `tictoc.h`, logging: they measure and print, no other part reads them;
* sizes, strides and pixel formats handed to the Ascend library: what it does with them is not in the repository;
* scripts, unit files and CMake.
