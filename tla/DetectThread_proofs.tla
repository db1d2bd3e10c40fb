------------------------- MODULE DetectThread_proofs -------------------------
(***************************************************************************)
(* Proofs about DetectThread for any number of frames: what the thread     *)
(* releases, on every path through the calls that may fail, and that to    *)
(* the rest of the program it is the DetectLoop.                           *)
(***************************************************************************)
EXTENDS DetectThread, TLAPS

-----------------------------------------------------------------------------
(***************************************************************************)
(* To the rest of the program the thread is the DetectLoop.  Nothing has   *)
(* to be known about objects for that.                                     *)
(***************************************************************************)
THEOREM RefinesDetectLoop == Spec => ImplementsDetectLoop
<1>1. Init => Loop!Init
  BY DEF Init, Loop!Init, Phase
<1>2. [Next]_vars => [Loop!Next]_Phase
  <2>. SUFFICES ASSUME [Next]_vars PROVE [Loop!Next]_Phase
    OBVIOUS
  <2>1. CASE ModelInit \/ LoadModel
    BY <2>1 DEF ModelInit, LoadModel, Goto, Phase
  <2>2. CASE GetModelInputWH
    BY <2>2 DEF GetModelInputWH, Goto, Phase, Loop!Next, Loop!Start
  <2>3. CASE Finalize
    BY <2>3 DEF Finalize, Goto, Phase, Loop!Next, Loop!GiveUpThread
  <2>4. CASE Take
    BY <2>4 DEF Take, Phase, Loop!Next, Loop!Take
  <2>5. CASE CreateStream \/ ReadBinMemery \/ GetDeviceBuffer \/ InitResource
    BY <2>5 DEF CreateStream, ReadBinMemery, GetDeviceBuffer, InitResource, Return, Goto, Phase,
                Loop!Next, Loop!GiveUpItem
  <2>6. CASE InitDvppOutputPara \/ InitDecodeOutputDesc \/ ProcessDecode
    BY <2>6 DEF InitDvppOutputPara, InitDecodeOutputDesc, ProcessDecode, DecodeFailed,
                ReturnFailed, Return, Goto, Phase, Loop!Next, Loop!GiveUpItem
  <2>7. CASE InitResizeInputDesc \/ InitResizeOutputDesc \/ ProcessResize \/ GetDvppOutput
    BY <2>7 DEF InitResizeInputDesc, InitResizeOutputDesc, ProcessResize, GetDvppOutput,
                ResizeFailed, ReturnFailed, Return, Goto, Phase, Loop!Next, Loop!GiveUpItem
  <2>8. CASE CreateInput \/ CreateOutput \/ Execute
    BY <2>8 DEF CreateInput, CreateOutput, Execute, Goto, Phase, Loop!Next, Loop!GiveUpItem
  <2>9. CASE ProcessOutput
    BY <2>9 DEF ProcessOutput, Goto, Phase, Loop!Next, Loop!Compute, Loop!Crash
  <2>10. CASE sendTo
    BY <2>10 DEF sendTo, Goto, Phase, Loop!Next, Loop!Send, Loop!Crash
  <2>11. CASE UNCHANGED vars
    BY <2>11 DEF vars, Phase
  <2>. QED
    BY <2>1, <2>2, <2>3, <2>4, <2>5, <2>6, <2>7, <2>8, <2>9, <2>10, <2>11 DEF Next
<1>. QED  BY <1>1, <1>2, PTL DEF Spec, ImplementsDetectLoop, Loop!Spec
-----------------------------------------------------------------------------
(***************************************************************************)
(* What one call releases.                                                 *)
(***************************************************************************)
LEMMA NamesOfBy ==
  ASSUME NEW function, NEW S
  PROVE  Names(By(function, S)) = S
<1>1. ASSUME NEW n \in S
      PROVE  n \in Names(By(function, S))
  <2>1. <<function, n>> \in By(function, S) /\ <<function, n>>[2] = n
    BY DEF By
  <2>. QED  BY <2>1 DEF Names
<1>2. ASSUME NEW n \in Names(By(function, S))
      PROVE  n \in S
  <2>1. PICK g \in By(function, S) : n = g[2]
    BY DEF Names
  <2>2. PICK m \in S : g = <<function, m>>
    BY DEF By
  <2>. QED  BY <2>1, <2>2
<1>. QED  BY <1>1, <1>2

LEMMA NamesOfUnion ==
  ASSUME NEW A, NEW B
  PROVE  Names(A \cup B) = Names(A) \cup Names(B)
BY DEF Names

LEMMA NamesOf ==
  ASSUME NEW S
  PROVE  /\ Names(acldvppFree(S)) = S
         /\ Names(aclrtFree(S)) = S
         /\ Names(aclrtFreeHost(S)) = S
         /\ Names(handed(S)) = S
         /\ Names(destroy(S)) = S
         /\ Names({}) = {}
BY NamesOfBy DEF acldvppFree, aclrtFree, aclrtFreeHost, handed, destroy, Names

(* Every name in it is freed by the function of its kind, or is the copy   *)
(* of an output that failed.                                               *)
Proper(gone) ==
  \A g \in gone : g[1] \in FreeFunctions =>
    g[1] = FreedBy(g[2]) \/ g = <<"aclrtFree", "outHostData">>

LEMMA ProperUnion ==
  ASSUME NEW A, NEW B, Proper(A), Proper(B)
  PROVE  Proper(A \cup B)
BY DEF Proper

LEMMA ProperDestroy ==
  ASSUME NEW S
  PROVE  Proper(destroy(S)) /\ Proper(handed(S)) /\ Proper({})
BY DEF Proper, destroy, handed, By, FreeFunctions

LEMMA ProperPicture ==
  ASSUME NEW S, S \subseteq (DvppBuffers \ {"inputBuff"}) \cup {"inputBuffer", "inputData"}
  PROVE  Proper(acldvppFree(S))
BY DEF Proper, acldvppFree, By, FreedBy, DvppBuffers, OutputBuffers

LEMMA ByOne ==
  ASSUME NEW function, NEW n
  PROVE  \A g : g \in By(function, {n}) => g[1] = function /\ g[2] = n
BY DEF By

LEMMA ProperInput == Proper(FreeInput) /\ Names(FreeInput) = {"inputBuff"}
<1>1. Proper(FreeInput)
  <2>1. CASE isDevice
    <3>1. FreedBy("inputBuff") = "acldvppFree"
      BY <2>1 DEF FreedBy, OutputBuffers
    <3>2. FreeInput = By("acldvppFree", {"inputBuff"})
      BY <2>1 DEF FreeInput, acldvppFree
    <3>. QED  BY <3>1, <3>2, ByOne DEF Proper
  <2>2. CASE ~isDevice
    <3>1. FreedBy("inputBuff") = "aclrtFreeHost"
      BY <2>2 DEF FreedBy, OutputBuffers
    <3>2. FreeInput = By("aclrtFreeHost", {"inputBuff"})
      BY <2>2 DEF FreeInput, aclrtFreeHost
    <3>. QED  BY <3>1, <3>2, ByOne DEF Proper
  <2>. QED  BY <2>1, <2>2
<1>2. Names(FreeInput) = {"inputBuff"}
  BY NamesOf DEF FreeInput
<1>. QED  BY <1>1, <1>2
-----------------------------------------------------------------------------
(***************************************************************************)
(* The inductive invariant.  That nothing is released twice is a matter of *)
(* what is held when: Held says it for every call of the loop, and the     *)
(* model's own objects, from LoadModel on, are always there.               *)
(***************************************************************************)
Kept == InputObjects \cup OutputObjects

(* held by the processing of one frame                                     *)
Locals == own \ (ModelObjects \cup Kept)

Channel == {"stream", "devBuffer", "dvppChannelDesc_", "channel", "resizeConfig_"}

LoopCalls ==
  {"take", "CreateStream", "ReadBinMemery", "GetDeviceBuffer", "InitResource",
   "InitDvppOutputPara", "InitDecodeOutputDesc", "ProcessDecode", "InitResizeInputDesc",
   "InitResizeOutputDesc", "ProcessResize", "GetDvppOutput", "CreateInput", "CreateOutput",
   "Execute", "ProcessOutput", "sendTo"}

Held ==
  /\ pc \in LoopCalls => ModelObjects \subseteq own
  /\ pc \in {"take", "CreateStream", "CreateOutput", "Execute", "ProcessOutput", "sendTo"} =>
       Locals = {}
  /\ pc = "ReadBinMemery" => Locals = {"stream"}
  /\ pc = "GetDeviceBuffer" => Locals = {"stream", "inputBuff"}
  /\ pc = "InitResource" => Locals = {"stream", "devBuffer"}
  /\ pc = "InitDvppOutputPara" => Locals = Channel
  /\ pc = "InitDecodeOutputDesc" => Locals = Channel \cup {"resizeOutBufferDev_"}
  /\ pc = "ProcessDecode" =>
       Locals = Channel \cup {"resizeOutBufferDev_", "decodeOutDevBuffer_", "decodeOutputDesc_"}
  /\ pc = "InitResizeInputDesc" =>
       Locals = Channel \cup {"resizeOutBufferDev_", "decodeOutDevBuffer_"}
  /\ pc = "InitResizeOutputDesc" =>
       Locals = Channel \cup {"resizeOutBufferDev_", "decodeOutDevBuffer_", "resizeInputDesc_"}
  /\ pc = "ProcessResize" =>
       Locals = Channel \cup {"resizeOutBufferDev_", "decodeOutDevBuffer_",
                              "resizeInputDesc_", "resizeOutputDesc_"}
  /\ pc = "GetDvppOutput" => Locals = Channel \cup {"resizeOutBufferDev_"}
  /\ pc = "CreateInput" => Locals = {"inputBuffer"}

(* Before the loop.                                                        *)
Begun ==
  /\ pc = "Init" => own = {}
  /\ pc = "LoadModel" => own = {"acl", "device", "context_"}
  /\ pc = "GetModelInputWH" => own = ModelObjects
  /\ pc = "Finalize" => own \subseteq ModelObjects
  /\ pc = "ended" => own = {}
  /\ pc \notin LoopCalls \cup {"crashed"} => \A n \in Objects : lost[n] = 0

(* What no call may have done so far.                                      *)
Clean ==
  /\ own \subseteq Objects
  /\ lost \in [Objects -> Nat]
  /\ \A n \in Transients : lost[n] = 0
  /\ ReleasedOnce
  /\ FreedByItsAllocator

Bookkeeping ==
  /\ pc \in LoopCalls \cup {"Init", "LoadModel", "GetModelInputWH", "Finalize", "ended", "crashed"}
  /\ isDevice \in BOOLEAN
  /\ frames \in 0..MaxFrames

IInv == Bookkeeping /\ Clean /\ Held /\ Begun

(* A call that releases only what there is, and by the function of its     *)
(* kind, and lets go of no object of the decoder, leaves all in order.     *)
LEMMA CallIsClean ==
  ASSUME Clean, NEW made, NEW gone, NEW forgotten, Call(made, gone, forgotten),
         made \subseteq Objects,
         Names(gone) \subseteq own \cup made \cup {"context_", "channel"},
         Proper(gone),
         own \cap made \cap Transients = {},
         (own \cup made) \cap forgotten \cap Transients = {}
  PROVE  Clean'
<1>1. own' \subseteq Objects
  BY DEF Clean, Call
<1>2. lost' \in [Objects -> Nat]
  BY DEF Clean, Call
<1>3. \A n \in Transients : lost'[n] = 0
  <2>1. ASSUME NEW n \in Transients
        PROVE  lost'[n] = 0
    <3>1. n \in Objects /\ lost[n] = 0
      BY DEF Clean, Objects
    <3>2. n \notin own \cap made /\ n \notin (own \cup made) \cap forgotten
      OBVIOUS
    <3>. QED  BY <3>1, <3>2 DEF Call
  <2>. QED  BY <2>1
<1>4. ReleasedOnce'
  BY DEF Clean, Call, ReleasedOnce
<1>5. FreedByItsAllocator'
  BY DEF Clean, Call, FreedByItsAllocator, Proper
<1>. QED  BY <1>1, <1>2, <1>3, <1>4, <1>5 DEF Clean

(* GetImageResizeBuffer returns with nothing of its own left, whatever     *)
(* `gone' took care of, if that includes the three descriptions.           *)
LEMMA ReturnIsClean ==
  ASSUME Clean, NEW made, NEW gone, NEW label, Return(made, gone, label),
         made \subseteq (Transients \cup DvppBuffers \cup {"inputBuffer"}) \ own,
         Names(gone) \subseteq own \cup made,
         Proper(gone),
         "stream" \in own,
         (own \cup made) \cap {"decodeOutputDesc_", "resizeInputDesc_", "resizeOutputDesc_"}
           \subseteq Names(gone),
         "channel" \in own \cup made => "dvppChannelDesc_" \in (own \cup made) \ Names(gone)
  PROVE  /\ Clean'
         /\ own' = (own \cup made) \ (Transients \cup DvppBuffers \cup Names(gone))
         /\ pc' = label /\ isDevice' = isDevice /\ frames' = frames
<1>. DEFINE mine == gone \cup destroy({"stream"})
            held == (own \cup made) \ Names(mine)
            res  == DestroyResource(held)
            para == DestroyOutputPara(held)
            all  == mine \cup res \cup para
            left == (held \cap (Transients \cup DvppBuffers)) \ Names(all)
<1>1. Call(made, all, left) /\ Goto(label)
  BY DEF Return
<1>2. Names(mine) = Names(gone) \cup {"stream"} /\ Proper(mine)
  BY NamesOf, NamesOfUnion, ProperDestroy, ProperUnion
<1>3. /\ Names(res) = (held \cap {"resizeConfig_", "dvppChannelDesc_"})
                        \cup (IF "dvppChannelDesc_" \in held THEN {"channel"} ELSE {})
      /\ Proper(res)
  BY NamesOf, ProperDestroy DEF DestroyResource
<1>4. Names(para) = held \cap {"resizeOutBufferDev_"} /\ Proper(para)
  BY NamesOf, ProperPicture DEF DestroyOutputPara, DvppBuffers
<1>5. Names(all) = Names(mine) \cup Names(res) \cup Names(para) /\ Proper(all)
  <2>1. Names(mine \cup res) = Names(mine) \cup Names(res) /\ Proper(mine \cup res)
    BY <1>2, <1>3, NamesOfUnion, ProperUnion
  <2>. HIDE DEF mine, res, para
  <2>2. all = (mine \cup res) \cup para
    BY DEF all
  <2>3. Names(all) = Names(mine \cup res) \cup Names(para)
    BY <2>2, NamesOfUnion
  <2>4. Proper(all)
    BY <2>1, <2>2, <1>4, ProperUnion
  <2>. QED  BY <2>1, <2>3, <2>4
<1>. HIDE DEF mine, res, para, all
<1>6. own' = (own \cup made) \ (Names(all) \cup left)
  BY <1>1 DEF Call
<1>7. Names(all) \subseteq own \cup made \cup {"context_", "channel"}
  BY <1>2, <1>3, <1>4, <1>5
<1>8. left \cap Transients = {}
  BY <1>2, <1>3, <1>4, <1>5 DEF Transients
<1>9. Clean'
  <2>1. made \subseteq Objects /\ own \cap made = {}
    BY DEF Objects
  <2>. HIDE DEF left, held
  <2>. QED  BY <1>1, <1>5, <1>7, <1>8, <2>1, CallIsClean
<1>10. own' = (own \cup made) \ (Transients \cup DvppBuffers \cup Names(gone))
  BY <1>2, <1>3, <1>4, <1>5, <1>6 DEF Transients, DvppBuffers
<1>. QED  BY <1>1, <1>9, <1>10 DEF Goto
-----------------------------------------------------------------------------
(***************************************************************************)
(* The steps, in groups: before the loop, the preparation of a picture,    *)
(* decoding and resizing, and the model.                                   *)
(***************************************************************************)
LEMMA NothingIsClean ==
  ASSUME Clean, Nothing
  PROVE  Clean' /\ own' = own /\ lost' = lost
<1>1. Names({}) = {} /\ Proper({})
  BY NamesOf, ProperDestroy
<1>2. Clean'
  BY <1>1, CallIsClean DEF Nothing
<1>3. own' = own
  BY <1>1 DEF Nothing, Call
<1>4. lost' = lost
  BY DEF Nothing, Call, Clean
<1>. QED  BY <1>2, <1>3, <1>4

(* A call that only creates what was not there.                            *)
LEMMA MadeIsClean ==
  ASSUME Clean, NEW made, made \subseteq Objects, own \cap made = {}, Call(made, {}, {})
  PROVE  Clean' /\ own' = own \cup made /\ \A n \in Objects : lost'[n] = lost[n]
<1>1. Names({}) = {} /\ Proper({})
  BY NamesOf, ProperDestroy
<1>2. Clean'
  BY <1>1, CallIsClean
<1>3. own' = own \cup made
  BY <1>1 DEF Call
<1>4. \A n \in Objects : lost'[n] = lost[n]
  BY DEF Call, Clean
<1>. QED  BY <1>2, <1>3, <1>4

(* A call that only releases or hands over what is there.                  *)
LEMMA GoneIsClean ==
  ASSUME Clean, NEW made, made \subseteq Objects, own \cap made = {}, NEW gone,
         Names(gone) \subseteq own \cup made \cup {"context_", "channel"}, Proper(gone),
         Call(made, gone, {})
  PROVE  /\ Clean' /\ own' = (own \cup made) \ Names(gone)
         /\ \A n \in Objects : lost'[n] = lost[n]
<1>1. Clean'
  BY CallIsClean
<1>2. own' = (own \cup made) \ Names(gone)
  BY DEF Call
<1>3. \A n \in Objects : lost'[n] = lost[n]
  BY DEF Call, Clean
<1>. QED  BY <1>1, <1>2, <1>3

LEMMA BeforeLoop ==
  ASSUME IInv, ModelInit \/ LoadModel \/ GetModelInputWH \/ Finalize
  PROVE  IInv'
<1>. USE DEF IInv
<1>1. CASE ModelInit
  <2>1. own = {} /\ \A n \in Objects : lost[n] = 0
    BY <1>1 DEF ModelInit, Begun, LoopCalls
  <2>2. CASE pc' = "Finalize"
    <3>1. PICK got \in {{}, {"acl"}, {"acl", "device"}, {"acl", "device", "context_"}} :
                 Call(got, {}, {})
      BY <1>1, <2>2 DEF ModelInit, Goto
    <3>2. got \subseteq ModelObjects /\ got \subseteq Objects
      BY DEF ModelObjects, Objects
    <3>3. Clean' /\ own' = got /\ \A n \in Objects : lost'[n] = 0
      BY <2>1, <3>1, <3>2, MadeIsClean
    <3>4. Bookkeeping'
      BY <1>1, <2>2 DEF ModelInit, Goto, Bookkeeping, LoopCalls
    <3>. QED  BY <2>2, <3>2, <3>3, <3>4 DEF Held, Begun, LoopCalls
  <2>3. CASE pc' = "LoadModel"
    <3>1. Call({"acl", "device", "context_"}, {}, {}) /\ isDevice' \in BOOLEAN /\ frames' = frames
      BY <1>1, <2>3 DEF ModelInit, Goto
    <3>2. {"acl", "device", "context_"} \subseteq Objects
      BY DEF ModelObjects, Objects
    <3>3. Clean' /\ own' = {"acl", "device", "context_"} /\ \A n \in Objects : lost'[n] = 0
      BY <2>1, <3>1, <3>2, MadeIsClean
    <3>. QED  BY <2>3, <3>1, <3>3 DEF Held, Begun, LoopCalls, Bookkeeping
  <2>. QED  BY <1>1, <2>2, <2>3 DEF ModelInit, Goto
<1>2. CASE LoadModel
  <2>1. /\ own = {"acl", "device", "context_"} /\ \A n \in Objects : lost[n] = 0
        /\ UNCHANGED <<isDevice, frames>>
    BY <1>2 DEF LoadModel, Begun, LoopCalls, Goto
  <2>2. CASE Nothing /\ pc' = "Finalize"
    <3>1. Clean' /\ own' = own /\ \A n \in Objects : lost'[n] = 0
      BY <2>1, <2>2, NothingIsClean
    <3>. QED  BY <2>1, <2>2, <3>1 DEF Held, Begun, LoopCalls, Bookkeeping, ModelObjects
  <2>3. CASE Call({"model", "modelDesc_"}, {}, {}) /\ pc' = "GetModelInputWH"
    <3>1. {"model", "modelDesc_"} \subseteq Objects
      BY DEF ModelObjects, Objects
    <3>2. Clean' /\ own' = own \cup {"model", "modelDesc_"} /\ \A n \in Objects : lost'[n] = 0
      BY <2>1, <2>3, <3>1, MadeIsClean
    <3>. QED  BY <2>1, <2>3, <3>2 DEF Held, Begun, LoopCalls, Bookkeeping, ModelObjects
  <2>. QED  BY <1>2, <2>2, <2>3 DEF LoadModel, Goto
<1>3. CASE GetModelInputWH
  <2>1. own = ModelObjects /\ \A n \in Objects : lost[n] = 0
    BY <1>3 DEF GetModelInputWH, Begun, LoopCalls
  <2>2. Clean' /\ own' = own /\ lost' = lost
    BY <1>3, NothingIsClean DEF GetModelInputWH
  <2>. QED
    BY <1>3, <2>1, <2>2 DEF GetModelInputWH, Goto, Held, Begun, LoopCalls, Bookkeeping, Locals
<1>4. CASE Finalize
  <2>1. own \subseteq ModelObjects /\ \A n \in Objects : lost[n] = 0
    BY <1>4 DEF Finalize, Begun, LoopCalls
  <2>2. PICK garbage \in {{}, {"context_"} \ own} :
          Call({}, UnloadModel \cup DestroyInput \cup DestroyOutput
                     \cup destroy((own \cap {"context_", "device", "acl"}) \cup garbage), {})
    BY <1>4 DEF Finalize
  <2>. DEFINE rest == destroy((own \cap {"context_", "device", "acl"}) \cup garbage)
              gone == UnloadModel \cup DestroyInput \cup DestroyOutput \cup rest
  <2>3. Names(UnloadModel) = own \cap {"model", "modelDesc_"} /\ Proper(UnloadModel)
    BY NamesOf, ProperDestroy DEF UnloadModel
  <2>4. Names(DestroyInput) = {} /\ Proper(DestroyInput)
    <3>1. own \cap {"input_"} = {} /\ own \cap {"inputData"} = {}
      BY <2>1 DEF ModelObjects
    <3>2. DestroyInput = {}
      BY <3>1 DEF DestroyInput, destroy, acldvppFree, By
    <3>. QED  BY <3>2, NamesOf, ProperDestroy
  <2>5. Names(DestroyOutput) = {} /\ Proper(DestroyOutput)
    <3>1. own \cap {"output_"} = {} /\ own \cap OutputBuffers = {}
      BY <2>1 DEF ModelObjects, OutputBuffers
    <3>2. DestroyOutput = {}
      BY <3>1 DEF DestroyOutput, destroy, aclrtFree, By
    <3>. QED  BY <3>2, NamesOf, ProperDestroy
  <2>6. Names(rest) = (own \cap {"context_", "device", "acl"}) \cup garbage /\ Proper(rest)
    BY NamesOf, ProperDestroy
  <2>. HIDE DEF rest
  <2>7. Names(gone) = (own \cap ModelObjects) \cup garbage /\ Proper(gone)
    <3>1. /\ Names(UnloadModel \cup DestroyInput) = own \cap {"model", "modelDesc_"}
          /\ Proper(UnloadModel \cup DestroyInput)
      BY <2>3, <2>4, NamesOfUnion, ProperUnion
    <3>2. /\ Names(UnloadModel \cup DestroyInput \cup DestroyOutput) = own \cap {"model", "modelDesc_"}
          /\ Proper(UnloadModel \cup DestroyInput \cup DestroyOutput)
      BY <3>1, <2>5, NamesOfUnion, ProperUnion
    <3>3. /\ Names(gone) = (own \cap {"model", "modelDesc_"}) \cup Names(rest)
          /\ Proper(gone)
      BY <3>2, <2>6, NamesOfUnion, ProperUnion
    <3>. QED  BY <2>6, <3>3 DEF ModelObjects
  <2>8. Call({}, gone, {})
    BY <2>2 DEF rest
  <2>. HIDE DEF gone
  <2>9. Clean' /\ own' = own \ Names(gone) /\ \A n \in Objects : lost'[n] = 0
    BY <2>1, <2>7, <2>8, GoneIsClean
  <2>10. own' = {}
    BY <2>1, <2>7, <2>9
  <2>. QED  BY <1>4, <2>9, <2>10 DEF Finalize, Goto, Held, Begun, LoopCalls, Bookkeeping
<1>. QED  BY <1>1, <1>2, <1>3, <1>4

(* The way out of GetImageResizeBuffer, to the head of the loop.           *)
LEMMA GiveUpPicture ==
  ASSUME IInv, pc \in LoopCalls, NEW made, NEW gone, Return(made, gone, "take"),
         Locals \subseteq Transients \cup DvppBuffers,
         made \subseteq (Transients \cup DvppBuffers) \ Locals,
         Names(gone) \subseteq Locals \cup made,
         Proper(gone),
         "stream" \in Locals,
         (Locals \cup made) \cap {"decodeOutputDesc_", "resizeInputDesc_", "resizeOutputDesc_"}
           \subseteq Names(gone),
         "channel" \in Locals \cup made => "dvppChannelDesc_" \in (Locals \cup made) \ Names(gone)
  PROVE  IInv'
<1>1. /\ (Transients \cup DvppBuffers) \cap (ModelObjects \cup Kept) = {}
      /\ own \cap (Transients \cup DvppBuffers) = Locals
  BY DEF Locals, Transients, DvppBuffers, ModelObjects, Kept, InputObjects, OutputObjects,
         OutputBuffers
<1>2. made \subseteq (Transients \cup DvppBuffers \cup {"inputBuffer"}) \ own
  BY <1>1
<1>3. /\ Names(gone) \subseteq own \cup made /\ "stream" \in own
      /\ (own \cup made) \cap {"decodeOutputDesc_", "resizeInputDesc_", "resizeOutputDesc_"}
           \subseteq Names(gone)
      /\ "channel" \in own \cup made => "dvppChannelDesc_" \in (own \cup made) \ Names(gone)
  BY <1>1 DEF Transients, Locals
<1>4. /\ Clean'
      /\ own' = (own \cup made) \ (Transients \cup DvppBuffers \cup Names(gone))
      /\ pc' = "take" /\ isDevice' = isDevice /\ frames' = frames
  BY <1>2, <1>3, ReturnIsClean DEF IInv
<1>5. ModelObjects \subseteq own' /\ Locals' = {}
  <2>1. ModelObjects \subseteq own
    BY DEF IInv, Held
  <2>. QED  BY <1>1, <1>4, <2>1 DEF Locals
<1>. QED  BY <1>4, <1>5 DEF IInv, Held, Begun, Bookkeeping, LoopCalls

(* A step to the next call: the objects of the model stay, and what the    *)
(* processing of the frame holds is what Held says of that call.           *)
LEMMA NextCall ==
  ASSUME IInv, pc \in LoopCalls, pc' \in LoopCalls, UNCHANGED <<isDevice, frames>>,
         Clean', ModelObjects \subseteq own', Held'
  PROVE  IInv'
BY DEF IInv, Bookkeeping, Begun, LoopCalls

(* Calls inside GetImageResizeBuffer create and release its own objects.   *)
LEMMA LocalCall ==
  ASSUME IInv, pc \in LoopCalls, NEW made, NEW gone, Call(made, gone, {}),
         made \subseteq Objects \ (ModelObjects \cup Kept \cup Locals),
         Names(gone) \subseteq Locals \cup made,
         Proper(gone)
  PROVE  /\ Clean' /\ ModelObjects \subseteq own'
         /\ Locals' = (Locals \cup made) \ Names(gone)
<1>1. own \cap made = {} /\ made \subseteq Objects /\ Names(gone) \subseteq own \cup made
  BY DEF Locals
<1>2. Clean' /\ own' = (own \cup made) \ Names(gone)
  BY <1>1, GoneIsClean DEF IInv
<1>3. ModelObjects \subseteq own
  BY DEF IInv, Held
<1>. QED  BY <1>2, <1>3 DEF Locals

LEMMA Preparation ==
  ASSUME IInv, Take \/ CreateStream \/ ReadBinMemery \/ GetDeviceBuffer \/ InitResource
  PROVE  IInv'
<1>1. CASE Take
  <2>1. /\ pc = "take" /\ pc' = "CreateStream" /\ frames' = frames + 1 /\ frames < MaxFrames
        /\ UNCHANGED <<own, lost, misused, mismatched, isDevice>>
    BY <1>1 DEF Take
  <2>2. Bookkeeping'
    BY <2>1, DetectAssumption DEF IInv, Bookkeeping, LoopCalls
  <2>. QED
    BY <2>1, <2>2 DEF IInv, Clean, ReleasedOnce, FreedByItsAllocator, Held, Begun, LoopCalls, Locals
<1>2. CASE CreateStream
  <2>1. pc = "CreateStream" /\ pc \in LoopCalls /\ Locals = {} /\ UNCHANGED <<isDevice, frames>>
    BY <1>2 DEF CreateStream, IInv, Held, LoopCalls, Goto
  <2>2. CASE Nothing /\ pc' = "take"
    <3>1. Clean' /\ own' = own
      BY <2>2, NothingIsClean DEF IInv
    <3>. QED  BY <2>1, <2>2, <3>1, NextCall DEF IInv, Held, LoopCalls, Locals
  <2>3. CASE Call({"stream"}, {}, {}) /\ pc' = "ReadBinMemery"
    <3>1. {"stream"} \subseteq Objects \ (ModelObjects \cup Kept \cup Locals)
      BY <2>1 DEF Objects, Transients, ModelObjects, Kept, InputObjects, OutputObjects, OutputBuffers
    <3>2. Clean' /\ ModelObjects \subseteq own' /\ Locals' = {"stream"}
      BY <2>1, <2>3, <3>1, LocalCall, NamesOf, ProperDestroy
    <3>. QED  BY <2>1, <2>3, <3>2, NextCall DEF Held, LoopCalls
  <2>. QED  BY <1>2, <2>2, <2>3 DEF CreateStream, Goto
<1>3. CASE ReadBinMemery
  <2>1. pc = "ReadBinMemery" /\ pc \in LoopCalls /\ Locals = {"stream"}
    BY <1>3 DEF ReadBinMemery, IInv, Held, LoopCalls
  <2>2. ASSUME NEW made \in {{}, {"inputBuff"}}, Return(made, {}, "take")
        PROVE  IInv'
    <3>1. Names({}) = {} /\ Proper({})
      BY NamesOf, ProperDestroy
    <3>. QED  BY <2>1, <2>2, <3>1, GiveUpPicture DEF Transients, DvppBuffers
  <2>3. CASE Call({"inputBuff"}, {}, {}) /\ Goto("GetDeviceBuffer")
    <3>1. {"inputBuff"} \subseteq Objects \ (ModelObjects \cup Kept \cup Locals)
      BY <2>1 DEF Objects, DvppBuffers, ModelObjects, Kept, InputObjects, OutputObjects, OutputBuffers
    <3>2. Clean' /\ ModelObjects \subseteq own' /\ Locals' = {"stream", "inputBuff"}
      BY <2>1, <2>3, <3>1, LocalCall, NamesOf, ProperDestroy
    <3>. QED  BY <2>1, <2>3, <3>2, NextCall DEF Held, LoopCalls, Goto
  <2>. QED  BY <1>3, <2>2, <2>3 DEF ReadBinMemery
<1>4. CASE GetDeviceBuffer
  <2>1. pc = "GetDeviceBuffer" /\ pc \in LoopCalls /\ Locals = {"stream", "inputBuff"}
    BY <1>4 DEF GetDeviceBuffer, IInv, Held, LoopCalls
  <2>2. CASE Return({}, FreeInput, "take")
    BY <2>1, <2>2, ProperInput, GiveUpPicture DEF Transients, DvppBuffers
  <2>3. CASE Return({"devBuffer"}, acldvppFree({"devBuffer"}) \cup FreeInput, "take")
    <3>. DEFINE gone == acldvppFree({"devBuffer"}) \cup FreeInput
    <3>1. {"devBuffer"} \subseteq (DvppBuffers \ {"inputBuff"}) \cup {"inputBuffer", "inputData"}
      BY DEF DvppBuffers
    <3>2. Names(gone) = {"devBuffer", "inputBuff"} /\ Proper(gone)
      <4>1. Names(acldvppFree({"devBuffer"})) = {"devBuffer"} /\ Proper(acldvppFree({"devBuffer"}))
        BY <3>1, NamesOf, ProperPicture
      <4>. QED  BY <4>1, ProperInput, NamesOfUnion, ProperUnion
    <3>. HIDE DEF gone
    <3>3. Return({"devBuffer"}, gone, "take")
      BY <2>3 DEF gone
    <3>. QED  BY <2>1, <3>2, <3>3, GiveUpPicture DEF Transients, DvppBuffers
  <2>4. CASE /\ Call({"devBuffer"}, IF isDevice THEN handed({"inputBuff"}) ELSE FreeInput, {})
             /\ Goto("InitResource")
    <3>. DEFINE gone == IF isDevice THEN handed({"inputBuff"}) ELSE FreeInput
    <3>1. Names(gone) = {"inputBuff"} /\ Proper(gone)
      BY NamesOf, ProperDestroy, ProperInput
    <3>2. {"devBuffer"} \subseteq Objects \ (ModelObjects \cup Kept \cup Locals)
      BY <2>1 DEF Objects, DvppBuffers, ModelObjects, Kept, InputObjects, OutputObjects, OutputBuffers
    <3>. HIDE DEF gone
    <3>3. Call({"devBuffer"}, gone, {})
      BY <2>4 DEF gone
    <3>4. Clean' /\ ModelObjects \subseteq own' /\ Locals' = {"stream", "devBuffer"}
      <4>1. /\ Clean' /\ ModelObjects \subseteq own'
            /\ Locals' = (Locals \cup {"devBuffer"}) \ {"inputBuff"}
        BY <2>1, <3>1, <3>2, <3>3, LocalCall
      <4>. QED  BY <2>1, <4>1
    <3>. QED  BY <2>1, <2>4, <3>4, NextCall DEF Held, LoopCalls, Goto
  <2>. QED  BY <1>4, <2>2, <2>3, <2>4 DEF GetDeviceBuffer
<1>5. CASE InitResource
  <2>1. pc = "InitResource" /\ pc \in LoopCalls /\ Locals = {"stream", "devBuffer"}
    BY <1>5 DEF InitResource, IInv, Held, LoopCalls
  <2>2. ASSUME NEW got \in {{}, {"dvppChannelDesc_"}, {"dvppChannelDesc_", "channel"}},
               Return(got, {}, "take")
        PROVE  IInv'
    <3>1. Names({}) = {} /\ Proper({})
      BY NamesOf, ProperDestroy
    <3>. QED  BY <2>1, <2>2, <3>1, GiveUpPicture DEF Transients, DvppBuffers
  <2>3. CASE /\ Call({"dvppChannelDesc_", "channel", "resizeConfig_"}, {}, {})
             /\ Goto("InitDvppOutputPara")
    <3>1. {"dvppChannelDesc_", "channel", "resizeConfig_"}
            \subseteq Objects \ (ModelObjects \cup Kept \cup Locals)
      BY <2>1 DEF Objects, Transients, ModelObjects, Kept, InputObjects, OutputObjects, OutputBuffers
    <3>2. Clean' /\ ModelObjects \subseteq own' /\ Locals' = Channel
      <4>1. /\ Clean' /\ ModelObjects \subseteq own'
            /\ Locals' = (Locals \cup {"dvppChannelDesc_", "channel", "resizeConfig_"}) \ {}
        BY <2>1, <2>3, <3>1, LocalCall, NamesOf, ProperDestroy
      <4>. QED  BY <2>1, <4>1 DEF Channel
    <3>. QED  BY <2>1, <2>3, <3>2, NextCall DEF Held, LoopCalls, Goto
  <2>. QED  BY <1>5, <2>2, <2>3 DEF InitResource
<1>. QED  BY <1>1, <1>2, <1>3, <1>4, <1>5

(* Failures that also free the picture on the device.                      *)
LEMMA FailedPicture ==
  ASSUME IInv, pc \in LoopCalls, NEW made, NEW gone, ReturnFailed(made, gone),
         Locals \subseteq Transients \cup DvppBuffers, Channel \subseteq Locals,
         made \subseteq (Transients \cup DvppBuffers) \ Locals,
         Names(gone) \subseteq (Locals \cup made) \ Channel,
         Proper(gone),
         (Locals \cup made) \cap {"decodeOutputDesc_", "resizeInputDesc_", "resizeOutputDesc_"}
           \subseteq Names(gone)
  PROVE  IInv'
<1>. DEFINE all == gone \cup acldvppFree({"devBuffer"})
<1>1. {"devBuffer"} \subseteq (DvppBuffers \ {"inputBuff"}) \cup {"inputBuffer", "inputData"}
  BY DEF DvppBuffers
<1>2. Names(acldvppFree({"devBuffer"})) = {"devBuffer"} /\ Proper(acldvppFree({"devBuffer"}))
  BY <1>1, NamesOf, ProperPicture
<1>3. Names(all) = Names(gone) \cup {"devBuffer"} /\ Proper(all)
  BY <1>2, NamesOfUnion, ProperUnion
<1>. HIDE DEF all
<1>4. Return(made, all, "take")
  BY DEF ReturnFailed, all
<1>5. /\ Names(all) \subseteq Locals \cup made
      /\ "stream" \in Locals
      /\ "dvppChannelDesc_" \in (Locals \cup made) \ Names(all)
      /\ (Locals \cup made) \cap {"decodeOutputDesc_", "resizeInputDesc_", "resizeOutputDesc_"}
           \subseteq Names(all)
  BY <1>3 DEF Channel
<1>. QED  BY <1>3, <1>4, <1>5, GiveUpPicture

(* What own holds of the names of a frame is what Locals holds.            *)
LEMMA LocalNames ==
  /\ own \cap {"decodeOutputDesc_"} = Locals \cap {"decodeOutputDesc_"}
  /\ own \cap {"decodeOutDevBuffer_"} = Locals \cap {"decodeOutDevBuffer_"}
  /\ own \cap {"resizeInputDesc_", "resizeOutputDesc_"}
       = Locals \cap {"resizeInputDesc_", "resizeOutputDesc_"}
BY DEF Locals, ModelObjects, Kept, InputObjects, OutputObjects, OutputBuffers

LEMMA DecodeNames ==
  ASSUME NEW made
  PROVE  /\ Names(DestroyDecodeResource(own \cup made))
              = (Locals \cup made) \cap {"decodeOutputDesc_"}
         /\ Proper(DestroyDecodeResource(own \cup made))
<1>1. (own \cup made) \cap {"decodeOutputDesc_"} = (Locals \cup made) \cap {"decodeOutputDesc_"}
  BY LocalNames
<1>. QED  BY <1>1, NamesOf, ProperDestroy DEF DestroyDecodeResource

LEMMA ResizeNames ==
  /\ Names(DestroyResizeResource)
       = Locals \cap {"decodeOutDevBuffer_", "resizeInputDesc_", "resizeOutputDesc_"}
  /\ Proper(DestroyResizeResource)
<1>. DEFINE b == acldvppFree(own \cap {"decodeOutDevBuffer_"})
            d == destroy(own \cap {"resizeInputDesc_", "resizeOutputDesc_"})
<1>1. Names(b) = Locals \cap {"decodeOutDevBuffer_"} /\ Proper(b)
  <2>1. own \cap {"decodeOutDevBuffer_"}
          \subseteq (DvppBuffers \ {"inputBuff"}) \cup {"inputBuffer", "inputData"}
    BY DEF DvppBuffers
  <2>. QED  BY <2>1, LocalNames, NamesOf, ProperPicture
<1>2. Names(d) = Locals \cap {"resizeInputDesc_", "resizeOutputDesc_"} /\ Proper(d)
  BY LocalNames, NamesOf, ProperDestroy
<1>3. DestroyResizeResource = b \cup d
  BY DEF DestroyResizeResource
<1>. HIDE DEF b, d
<1>4. Names(b \cup d) = Names(b) \cup Names(d) /\ Proper(b \cup d)
  BY <1>1, <1>2, NamesOfUnion, ProperUnion
<1>. QED  BY <1>1, <1>2, <1>3, <1>4

(* Creation of one or two objects of the decoder.                          *)
LEMMA DecoderCreates ==
  ASSUME IInv, pc \in LoopCalls, NEW made, Call(made, {}, {}),
         made \subseteq (Transients \cup DvppBuffers) \ Locals
  PROVE  Clean' /\ ModelObjects \subseteq own' /\ Locals' = Locals \cup made
<1>1. made \subseteq Objects \ (ModelObjects \cup Kept \cup Locals)
  BY DEF Objects, Transients, DvppBuffers, ModelObjects, Kept, InputObjects, OutputObjects,
         OutputBuffers
<1>. QED  BY <1>1, LocalCall, NamesOf, ProperDestroy

LEMMA Decoding ==
  ASSUME IInv, InitDvppOutputPara \/ InitDecodeOutputDesc \/ ProcessDecode
  PROVE  IInv'
<1>1. CASE InitDvppOutputPara
  <2>1. pc = "InitDvppOutputPara" /\ pc \in LoopCalls /\ Locals = Channel
    BY <1>1 DEF InitDvppOutputPara, IInv, Held, LoopCalls
  <2>2. CASE ReturnFailed({}, {})
    <3>1. Names({}) = {} /\ Proper({})
      BY NamesOf, ProperDestroy
    <3>. QED  BY <2>1, <2>2, <3>1, FailedPicture DEF Channel, Transients, DvppBuffers
  <2>3. CASE Call({"resizeOutBufferDev_"}, {}, {}) /\ Goto("InitDecodeOutputDesc")
    <3>1. Clean' /\ ModelObjects \subseteq own' /\ Locals' = Channel \cup {"resizeOutBufferDev_"}
      BY <2>1, <2>3, DecoderCreates DEF Channel, DvppBuffers
    <3>. QED  BY <2>1, <2>3, <3>1, NextCall DEF Held, LoopCalls, Goto
  <2>. QED  BY <1>1, <2>2, <2>3 DEF InitDvppOutputPara
<1>2. CASE InitDecodeOutputDesc
  <2>1. /\ pc = "InitDecodeOutputDesc" /\ pc \in LoopCalls
        /\ Locals = Channel \cup {"resizeOutBufferDev_"}
    BY <1>2 DEF InitDecodeOutputDesc, IInv, Held, LoopCalls
  <2>2. ASSUME NEW got \in {{}, {"decodeOutDevBuffer_"}}, DecodeFailed(got)
        PROVE  IInv'
    <3>. DEFINE gone == DestroyDecodeResource(own \cup got)
    <3>1. Names(gone) = {} /\ Proper(gone)
      BY <2>1, DecodeNames DEF Channel
    <3>2. ReturnFailed(got, gone)
      BY <2>2 DEF DecodeFailed
    <3>. HIDE DEF gone
    <3>. QED  BY <2>1, <3>1, <3>2, FailedPicture DEF Channel, Transients, DvppBuffers
  <2>3. CASE /\ Call({"decodeOutDevBuffer_", "decodeOutputDesc_"}, {}, {})
             /\ Goto("ProcessDecode")
    <3>1. {"decodeOutDevBuffer_", "decodeOutputDesc_"} \subseteq (Transients \cup DvppBuffers) \ Locals
      BY <2>1 DEF Channel, Transients, DvppBuffers
    <3>2. /\ Clean' /\ ModelObjects \subseteq own'
          /\ Locals' = Channel \cup {"resizeOutBufferDev_", "decodeOutDevBuffer_", "decodeOutputDesc_"}
      <4>1. /\ Clean' /\ ModelObjects \subseteq own'
            /\ Locals' = Locals \cup {"decodeOutDevBuffer_", "decodeOutputDesc_"}
        BY <2>1, <2>3, <3>1, DecoderCreates
      <4>. QED  BY <2>1, <4>1
    <3>. QED  BY <2>1, <2>3, <3>2, NextCall DEF Held, LoopCalls, Goto
  <2>. QED  BY <1>2, <2>2, <2>3 DEF InitDecodeOutputDesc
<1>3. CASE ProcessDecode
  <2>1. /\ pc = "ProcessDecode" /\ pc \in LoopCalls
        /\ Locals = Channel \cup {"resizeOutBufferDev_", "decodeOutDevBuffer_", "decodeOutputDesc_"}
    BY <1>3 DEF ProcessDecode, IInv, Held, LoopCalls
  <2>. DEFINE gone == DestroyDecodeResource(own)
  <2>2. Names(gone) = {"decodeOutputDesc_"} /\ Proper(gone)
    <3>1. /\ Names(DestroyDecodeResource(own \cup {})) = (Locals \cup {}) \cap {"decodeOutputDesc_"}
          /\ Proper(DestroyDecodeResource(own \cup {}))
      BY DecodeNames
    <3>2. own \cup {} = own
      OBVIOUS
    <3>. QED  BY <2>1, <3>1, <3>2
  <2>3. CASE DecodeFailed({})
    <3>1. ReturnFailed({}, gone)
      <4>1. own \cup {} = own
        OBVIOUS
      <4>. QED  BY <2>3, <4>1 DEF DecodeFailed
    <3>. HIDE DEF gone
    <3>. QED  BY <2>1, <2>2, <3>1, FailedPicture DEF Channel, Transients, DvppBuffers
  <2>4. CASE Call({}, gone, {}) /\ Goto("InitResizeInputDesc")
    <3>. HIDE DEF gone
    <3>1. Clean' /\ ModelObjects \subseteq own' /\ Locals' = (Locals \cup {}) \ Names(gone)
      BY <2>1, <2>2, <2>4, LocalCall
    <3>2. Locals' = Channel \cup {"resizeOutBufferDev_", "decodeOutDevBuffer_"}
      BY <2>1, <2>2, <3>1 DEF Channel
    <3>. QED  BY <2>1, <2>4, <3>1, <3>2, NextCall DEF Held, LoopCalls, Goto
  <2>. QED  BY <1>3, <2>3, <2>4 DEF ProcessDecode
<1>. QED  BY <1>1, <1>2, <1>3

LEMMA Resizing ==
  ASSUME IInv, InitResizeInputDesc \/ InitResizeOutputDesc \/ ProcessResize
  PROVE  IInv'
<1>. DEFINE R == {"decodeOutDevBuffer_", "resizeInputDesc_", "resizeOutputDesc_"}
<1>1. /\ pc \in LoopCalls
      /\ Channel \subseteq Locals /\ Locals \subseteq Channel \cup {"resizeOutBufferDev_"} \cup R
  BY DEF InitResizeInputDesc, InitResizeOutputDesc, ProcessResize, IInv, Held, LoopCalls
<1>2. Names(DestroyResizeResource) = Locals \cap R /\ Proper(DestroyResizeResource)
  BY ResizeNames
<1>3. CASE ResizeFailed
  <2>1. ReturnFailed({}, DestroyResizeResource)
    BY <1>3 DEF ResizeFailed
  <2>. QED  BY <1>1, <1>2, <2>1, FailedPicture DEF Channel, Transients, DvppBuffers
<1>4. CASE pc = "InitResizeInputDesc" /\ Call({"resizeInputDesc_"}, {}, {}) /\ Goto("InitResizeOutputDesc")
  <2>1. Locals = Channel \cup {"resizeOutBufferDev_", "decodeOutDevBuffer_"}
    BY <1>4 DEF IInv, Held
  <2>2. {"resizeInputDesc_"} \subseteq (Transients \cup DvppBuffers) \ Locals
    BY <2>1 DEF Channel, Transients
  <2>3. Clean' /\ ModelObjects \subseteq own' /\ Locals' = Locals \cup {"resizeInputDesc_"}
    BY <1>1, <1>4, <2>2, DecoderCreates
  <2>4. Locals' = Channel \cup {"resizeOutBufferDev_", "decodeOutDevBuffer_", "resizeInputDesc_"}
    BY <2>1, <2>3
  <2>. QED  BY <1>1, <1>4, <2>3, <2>4, NextCall DEF Held, LoopCalls, Goto
<1>5. CASE pc = "InitResizeOutputDesc" /\ Call({"resizeOutputDesc_"}, {}, {}) /\ Goto("ProcessResize")
  <2>1. Locals = Channel \cup {"resizeOutBufferDev_", "decodeOutDevBuffer_", "resizeInputDesc_"}
    BY <1>5 DEF IInv, Held
  <2>2. {"resizeOutputDesc_"} \subseteq (Transients \cup DvppBuffers) \ Locals
    BY <2>1 DEF Channel, Transients
  <2>3. Clean' /\ ModelObjects \subseteq own' /\ Locals' = Locals \cup {"resizeOutputDesc_"}
    BY <1>1, <1>5, <2>2, DecoderCreates
  <2>4. Locals' = Channel \cup {"resizeOutBufferDev_", "decodeOutDevBuffer_",
                                "resizeInputDesc_", "resizeOutputDesc_"}
    BY <2>1, <2>3
  <2>. QED  BY <1>1, <1>5, <2>3, <2>4, NextCall DEF Held, LoopCalls, Goto
<1>6. CASE pc = "ProcessResize" /\ Call({}, DestroyResizeResource, {}) /\ Goto("GetDvppOutput")
  <2>1. Locals = Channel \cup {"resizeOutBufferDev_"} \cup R
    BY <1>6 DEF IInv, Held
  <2>2. Clean' /\ ModelObjects \subseteq own' /\ Locals' = (Locals \cup {}) \ Names(DestroyResizeResource)
    BY <1>1, <1>2, <1>6, LocalCall
  <2>3. Locals' = Channel \cup {"resizeOutBufferDev_"}
    BY <1>2, <2>1, <2>2 DEF Channel
  <2>. QED  BY <1>1, <1>6, <2>2, <2>3, NextCall DEF Held, LoopCalls, Goto
<1>. QED
  BY <1>3, <1>4, <1>5, <1>6 DEF InitResizeInputDesc, InitResizeOutputDesc, ProcessResize

(* Only inputBuffer is left of the preparation of a picture.               *)
LEMMA Prepared ==
  ASSUME IInv, GetDvppOutput
  PROVE  IInv'
<1>. DEFINE gone == handed({"resizeOutBufferDev_"}) \cup acldvppFree({"devBuffer"})
<1>1. pc = "GetDvppOutput" /\ Locals = Channel \cup {"resizeOutBufferDev_"} /\ ModelObjects \subseteq own
  BY DEF GetDvppOutput, IInv, Held, LoopCalls
<1>2. Names(gone) = {"resizeOutBufferDev_", "devBuffer"} /\ Proper(gone)
  <2>1. {"devBuffer"} \subseteq (DvppBuffers \ {"inputBuff"}) \cup {"inputBuffer", "inputData"}
    BY DEF DvppBuffers
  <2>2. Names(acldvppFree({"devBuffer"})) = {"devBuffer"} /\ Proper(acldvppFree({"devBuffer"}))
    BY <2>1, NamesOf, ProperPicture
  <2>3. Names(handed({"resizeOutBufferDev_"})) = {"resizeOutBufferDev_"}
        /\ Proper(handed({"resizeOutBufferDev_"}))
    BY NamesOf, ProperDestroy
  <2>. QED  BY <2>2, <2>3, NamesOfUnion, ProperUnion
<1>. HIDE DEF gone
<1>3. Return({"inputBuffer"}, gone, "CreateInput")
  BY DEF GetDvppOutput, gone
<1>4. /\ "inputBuffer" \notin own /\ "stream" \in own /\ "dvppChannelDesc_" \in own
      /\ Names(gone) \subseteq own
      /\ own \cap {"decodeOutputDesc_", "resizeInputDesc_", "resizeOutputDesc_"} = {}
  BY <1>1, <1>2
     DEF Locals, Channel, ModelObjects, Kept, InputObjects, OutputObjects, OutputBuffers
<1>5. /\ Clean'
      /\ own' = (own \cup {"inputBuffer"}) \ (Transients \cup DvppBuffers \cup Names(gone))
      /\ pc' = "CreateInput" /\ isDevice' = isDevice /\ frames' = frames
  BY <1>2, <1>3, <1>4, ReturnIsClean DEF IInv
<1>6. ModelObjects \subseteq own'
  BY <1>1, <1>2, <1>5 DEF ModelObjects, Transients, DvppBuffers
<1>7. Locals' = {"inputBuffer"}
  BY <1>1, <1>2, <1>5
     DEF Locals, Channel, Transients, DvppBuffers, ModelObjects, Kept, InputObjects,
         OutputObjects, OutputBuffers
<1>. QED  BY <1>1, <1>5, <1>6, <1>7, NextCall DEF Held, LoopCalls

(* Overwriting input_ or output_ forgets objects of the frame before, but  *)
(* none that this frame or the model needs.                                *)
LEMMA OverwriteIsClean ==
  ASSUME IInv, pc \in LoopCalls, NEW objects, objects \subseteq Kept,
         NEW made, made \subseteq Kept, NEW gone, Overwrite(objects, made, gone),
         Names(gone) \subseteq Locals, Proper(gone)
  PROVE  Clean' /\ ModelObjects \subseteq own' /\ Locals' = Locals \ Names(gone)
<1>1. Kept \cap Transients = {} /\ Kept \subseteq Objects /\ Kept \cap ModelObjects = {}
  BY DEF Kept, Objects, Transients, ModelObjects, InputObjects, OutputObjects, OutputBuffers
<1>. DEFINE left == (own \cap objects) \ made
<1>2. Call(made, gone, left) /\ left \subseteq Kept
  BY DEF Overwrite
<1>. HIDE DEF left
<1>3. Clean'
  BY <1>1, <1>2, CallIsClean DEF IInv, Locals
<1>4. own' = (own \cup made) \ (Names(gone) \cup left) /\ ModelObjects \subseteq own
  BY <1>2 DEF Call, IInv, Held
<1>. QED  BY <1>1, <1>2, <1>3, <1>4 DEF Locals

LEMMA Inference ==
  ASSUME IInv, CreateInput \/ CreateOutput \/ Execute \/ sendTo
  PROVE  IInv'
<1>1. CASE CreateInput
  <2>1. pc = "CreateInput" /\ pc \in LoopCalls /\ Locals = {"inputBuffer"}
    BY <1>1 DEF CreateInput, IInv, Held, LoopCalls
  <2>2. /\ Names(acldvppFree({"inputBuffer"})) = {"inputBuffer"}
        /\ Proper(acldvppFree({"inputBuffer"}))
        /\ Names(handed({"inputBuffer"})) = {"inputBuffer"}
        /\ Proper(handed({"inputBuffer"}))
    BY NamesOf, ProperDestroy, ProperPicture
  <2>3. CASE Call({}, acldvppFree({"inputBuffer"}), {}) /\ Goto("take")
    <3>1. /\ Clean' /\ ModelObjects \subseteq own'
          /\ Locals' = (Locals \cup {}) \ Names(acldvppFree({"inputBuffer"}))
      BY <2>1, <2>2, <2>3, LocalCall
    <3>2. Locals' = {}
      BY <2>1, <2>2, <3>1
    <3>. QED  BY <2>1, <2>3, <3>1, <3>2, NextCall DEF Held, LoopCalls, Goto
  <2>4. ASSUME NEW made \in {{}, {"input_"}},
               Overwrite(InputObjects, made, acldvppFree({"inputBuffer"})), Goto("take")
        PROVE  IInv'
    <3>1. made \subseteq Kept /\ InputObjects \subseteq Kept
      BY DEF Kept, InputObjects
    <3>2. /\ Clean' /\ ModelObjects \subseteq own'
          /\ Locals' = Locals \ Names(acldvppFree({"inputBuffer"}))
      BY <2>1, <2>2, <2>4, <3>1, OverwriteIsClean
    <3>3. Locals' = {}
      BY <2>1, <2>2, <3>2
    <3>. QED  BY <2>1, <2>4, <3>2, <3>3, NextCall DEF Held, LoopCalls, Goto
  <2>5. CASE Overwrite(InputObjects, InputObjects, handed({"inputBuffer"})) /\ Goto("CreateOutput")
    <3>1. InputObjects \subseteq Kept
      BY DEF Kept
    <3>2. /\ Clean' /\ ModelObjects \subseteq own'
          /\ Locals' = Locals \ Names(handed({"inputBuffer"}))
      BY <2>1, <2>2, <2>5, <3>1, OverwriteIsClean
    <3>3. Locals' = {}
      BY <2>1, <2>2, <3>2
    <3>. QED  BY <2>1, <2>5, <3>2, <3>3, NextCall DEF Held, LoopCalls, Goto
  <2>. QED  BY <1>1, <2>3, <2>4, <2>5 DEF CreateInput
<1>2. CASE CreateOutput
  <2>1. pc = "CreateOutput" /\ pc \in LoopCalls /\ Locals = {}
    BY <1>2 DEF CreateOutput, IInv, Held, LoopCalls
  <2>2. PICK made \in {{}, {"output_"}, {"output_", "outputData0"}, OutputObjects} :
          Overwrite(OutputObjects, made, {}) /\ (Goto("take") \/ Goto("Execute"))
    BY <1>2 DEF CreateOutput
  <2>3. made \subseteq Kept /\ OutputObjects \subseteq Kept
    BY DEF Kept, OutputObjects, OutputBuffers
  <2>4. Clean' /\ ModelObjects \subseteq own' /\ Locals' = {}
    BY <2>1, <2>2, <2>3, OverwriteIsClean, NamesOf, ProperDestroy
  <2>. QED  BY <2>1, <2>2, <2>4, NextCall DEF Held, LoopCalls, Goto
<1>3. CASE Execute \/ sendTo
  <2>1. /\ pc \in {"Execute", "sendTo"} /\ pc \in LoopCalls /\ Locals = {}
        /\ ModelObjects \subseteq own
    BY <1>3 DEF Execute, sendTo, IInv, Held, LoopCalls
  <2>2. Clean' /\ own' = own
    BY <1>3, NothingIsClean DEF Execute, sendTo, IInv
  <2>3. pc' \in {"take", "ProcessOutput", "crashed"} /\ UNCHANGED <<isDevice, frames>>
    BY <1>3 DEF Execute, sendTo, Goto
  <2>. QED
    BY <2>1, <2>2, <2>3 DEF IInv, Bookkeeping, Held, Begun, LoopCalls, Locals
<1>. QED  BY <1>1, <1>2, <1>3

LEMMA OutputProcessed ==
  ASSUME IInv, ProcessOutput
  PROVE  IInv'
<1>1. pc = "ProcessOutput" /\ pc \in LoopCalls /\ Locals = {} /\ ModelObjects \subseteq own
  BY DEF ProcessOutput, IInv, Held, LoopCalls
<1>2. pc' \in {"sendTo", "crashed"} /\ UNCHANGED <<isDevice, frames>>
  BY DEF ProcessOutput, Goto
<1>3. ASSUME Clean', ModelObjects \subseteq own', Locals' = {}
      PROVE  IInv'
  BY <1>1, <1>2, <1>3 DEF IInv, Bookkeeping, Held, Begun, LoopCalls
<1>4. CASE Nothing
  <2>1. Clean' /\ own' = own
    BY <1>4, NothingIsClean DEF IInv
  <2>. QED  BY <1>1, <1>3, <2>1 DEF Locals
<1>5. ASSUME NEW gone \in {aclrtFreeHost({"outHostData"}), aclrtFree({"outHostData"})},
             Call({"outHostData"}, gone, {})
      PROVE  IInv'
  <2>1. Names(gone) = {"outHostData"}
    BY NamesOf
  <2>2. Proper(gone)
    <3>1. FreedBy("outHostData") = "aclrtFreeHost"
      BY DEF FreedBy, OutputBuffers
    <3>2. gone = By("aclrtFreeHost", {"outHostData"}) \/ gone = By("aclrtFree", {"outHostData"})
      BY DEF aclrtFreeHost, aclrtFree
    <3>. QED  BY <3>1, <3>2 DEF Proper, By
  <2>3. {"outHostData"} \subseteq Objects \ (ModelObjects \cup Kept \cup Locals)
    BY <1>1 DEF Objects, ModelObjects, Kept, InputObjects, OutputObjects, OutputBuffers
  <2>4. /\ Clean' /\ ModelObjects \subseteq own'
        /\ Locals' = (Locals \cup {"outHostData"}) \ Names(gone)
    BY <1>1, <1>5, <2>1, <2>2, <2>3, LocalCall
  <2>. QED  BY <1>1, <1>3, <2>1, <2>4
<1>. QED  BY <1>4, <1>5 DEF ProcessOutput
-----------------------------------------------------------------------------
LEMMA InitIInv == Init => IInv
<1>. SUFFICES ASSUME Init PROVE IInv
  OBVIOUS
<1>1. pc = "Init" /\ own = {} /\ lost = [n \in Objects |-> 0]
  BY DEF Init
<1>2. pc \notin LoopCalls
  BY <1>1 DEF LoopCalls
<1>3. Bookkeeping
  <2>1. pc \in LoopCalls \cup {"Init", "LoadModel", "GetModelInputWH", "Finalize", "ended", "crashed"}
    BY <1>1
  <2>2. isDevice \in BOOLEAN
    BY DEF Init
  <2>3. frames \in 0..MaxFrames
    BY DetectAssumption DEF Init
  <2>. QED  BY <2>1, <2>2, <2>3 DEF Bookkeeping
<1>4. Clean
  <2>1. Transients \subseteq Objects
    BY DEF Objects
  <2>2. misused = {} /\ mismatched = {}
    BY DEF Init
  <2>. QED  BY <1>1, <2>1, <2>2 DEF Clean, ReleasedOnce, FreedByItsAllocator
<1>5. Held
  BY <1>1, <1>2 DEF Held
<1>6. Begun
  BY <1>1 DEF Begun
<1>. QED  BY <1>3, <1>4, <1>5, <1>6 DEF IInv

LEMMA NextIInv == IInv /\ [Next]_vars => IInv'
<1>. SUFFICES ASSUME IInv, [Next]_vars PROVE IInv'
  OBVIOUS
<1>1. CASE UNCHANGED vars
  BY <1>1 DEF vars, IInv, Bookkeeping, Clean, ReleasedOnce, FreedByItsAllocator, Held, Begun, Locals
<1>. QED
  BY <1>1, BeforeLoop, Preparation, Decoding, Resizing, Prepared, Inference, OutputProcessed DEF Next

LEMMA Invariance == Spec => []IInv
<1>. QED  BY InitIInv, NextIInv, PTL DEF Spec

(***************************************************************************)
(* What a frame may cost.  Until it has an input for the model, a frame    *)
(* has left no picture buffer behind; when it gives up, or overwrites the  *)
(* input of the frame before, that is its one.                             *)
(***************************************************************************)
Preparing == LoopCalls \ {"take", "CreateOutput", "Execute", "ProcessOutput", "sendTo"}

DataSets == {"input_"} \cup OutputObjects

Pictures == {"inputBuff", "devBuffer", "decodeOutDevBuffer_", "resizeOutBufferDev_", "inputBuffer"}

Spent ==
  lost["inputBuff"] + lost["devBuffer"] + lost["decodeOutDevBuffer_"]
    + lost["resizeOutBufferDev_"] + lost["inputBuffer"] + Taken("inputData")

Budget ==
  /\ pc \in Preparing => Spent < frames /\ \A n \in DataSets : Taken(n) < frames
  /\ pc = "CreateOutput" => /\ Spent <= frames /\ Taken("input_") <= frames
                           /\ \A n \in OutputObjects : Taken(n) < frames
  /\ pc \in {"take", "Execute", "ProcessOutput", "sendTo"} =>
       Spent <= frames /\ \A n \in DataSets : Taken(n) <= frames

(* A call of the preparation that forgets at most one picture, and none if *)
(* the frame goes on.                                                      *)
LEMMA CallCost ==
  ASSUME IInv, Budget, pc \in Preparing, pc' \in Preparing \cup {"take"}, frames' = frames,
         NEW made, NEW gone, NEW left, Call(made, gone, left),
         own \cap made = {}, made \cap Kept = {}, Names(gone) \cap Kept = {}, left \cap Kept = {},
         NEW x, left \cap Pictures \subseteq {x},
         left \cap Pictures = {} \/ pc' = "take"
  PROVE  Budget'
<1>. DEFINE one(n) == IF n \in left THEN 1 ELSE 0
<1>1. frames \in Nat /\ \A n \in Objects : lost[n] \in Nat
  BY DEF IInv, Bookkeeping, Clean
<1>2. Kept \subseteq Objects /\ Pictures \subseteq Objects
  BY DEF Kept, Objects, Pictures, DvppBuffers
<1>3. Spent < frames /\ \A n \in DataSets : Taken(n) < frames
  BY DEF Budget
<1>4. \A n \in Kept : Taken(n)' = Taken(n)
  BY <1>1, <1>2 DEF Call, Taken
<1>5. \A n \in Pictures : lost'[n] \in lost[n]..(lost[n] + one(n))
  <2>1. ASSUME NEW n \in Pictures PROVE lost'[n] \in lost[n]..(lost[n] + one(n))
    <3>1. lost'[n] = lost[n] + (IF n \in own \cap made THEN 1 ELSE 0)
                       + (IF n \in (own \cup made) \cap left THEN 1 ELSE 0)
      BY <1>2 DEF Call
    <3>2. lost'[n] = lost[n] + (IF n \in (own \cup made) \cap left THEN 1 ELSE 0)
      BY <1>1, <1>2, <3>1
    <3>. QED  BY <1>1, <1>2, <3>2
  <2>. QED  BY <2>1
<1>6. "inputData" \in Kept /\ DataSets \subseteq Kept
  BY DEF Kept, DataSets, InputObjects
<1>7. Taken("inputData") \in Nat /\ Taken("inputData")' = Taken("inputData")
  BY <1>1, <1>2, <1>4, <1>6 DEF Taken
<1>8. \A n \in Pictures : one(n) \in 0..1 /\ (one(n) = 1 => n = x /\ pc' = "take")
  OBVIOUS
<1>. HIDE DEF one
<1>9. Spent' \in Spent..(Spent + 1) /\ (pc' # "take" => Spent' = Spent)
  <2>1. \A n \in Pictures : lost[n] \in Nat /\ lost'[n] \in {lost[n], lost[n] + 1}
    BY <1>1, <1>2, <1>5, <1>8
  <2>2. \A n \in Pictures : n # x \/ pc' # "take" => lost'[n] = lost[n]
    BY <1>1, <1>2, <1>5, <1>8
  <2>3. CASE pc' # "take"
    <3>1. Spent' = Spent
      BY <1>7, <2>2, <2>3 DEF Spent, Pictures
    <3>2. Spent \in Int
      BY <1>7, <2>1 DEF Spent, Pictures
    <3>. QED  BY <3>1, <3>2
  <2>4. CASE x \in Pictures
    <3>1. CASE x = "inputBuff"
      BY <1>7, <2>1, <2>2, <3>1, <2>3 DEF Spent, Pictures
    <3>2. CASE x = "devBuffer"
      BY <1>7, <2>1, <2>2, <3>2, <2>3 DEF Spent, Pictures
    <3>3. CASE x = "decodeOutDevBuffer_"
      BY <1>7, <2>1, <2>2, <3>3, <2>3 DEF Spent, Pictures
    <3>4. CASE x = "resizeOutBufferDev_"
      BY <1>7, <2>1, <2>2, <3>4, <2>3 DEF Spent, Pictures
    <3>5. CASE x = "inputBuffer"
      BY <1>7, <2>1, <2>2, <3>5, <2>3 DEF Spent, Pictures
    <3>. QED  BY <2>4, <3>1, <3>2, <3>3, <3>4, <3>5 DEF Pictures
  <2>5. CASE x \notin Pictures
    <3>1. Spent' = Spent
      BY <1>7, <2>2, <2>5 DEF Spent, Pictures
    <3>2. Spent \in Int
      BY <1>7, <2>1 DEF Spent, Pictures
    <3>. QED  BY <2>3, <3>1, <3>2
  <2>. QED  BY <2>4, <2>5
<1>10. \A n \in DataSets : Taken(n)' < frames'
  BY <1>3, <1>4, <1>6
<1>11. Spent \in Nat
  BY <1>1, <1>2, <1>7 DEF Spent, Pictures
<1>12. CASE pc' = "take"
  <2>1. Spent' <= frames'
    BY <1>1, <1>3, <1>9, <1>11
  <2>2. \A n \in DataSets : Taken(n)' <= frames'
    BY <1>1, <1>2, <1>4, <1>6, <1>10 DEF Taken
  <2>. QED  BY <1>12, <2>1, <2>2 DEF Budget, Preparing
<1>13. CASE pc' # "take"
  <2>1. pc' \in Preparing /\ Spent' < frames'
    BY <1>3, <1>9, <1>13
  <2>. QED  BY <2>1, <1>10 DEF Budget, Preparing
<1>. QED  BY <1>12, <1>13

(* The way out of GetImageResizeBuffer loses x if nothing else released    *)
(* it; ~DvppProcess sees to the buffer of the resized picture.             *)
LEMMA ReturnCost ==
  ASSUME IInv, Budget, pc \in Preparing, NEW made, NEW gone, NEW label, Return(made, gone, label),
         label \in Preparing \cup {"take"},
         own \cap made = {}, made \cap Kept = {}, Names(gone) \cap Kept = {},
         NEW x,
         ((own \cup made) \cap {"inputBuff", "devBuffer", "decodeOutDevBuffer_"}) \ Names(gone)
           \subseteq {x},
         x \notin own \cup made \/ x \in Names(gone) \/ label = "take"
  PROVE  Budget'
<1>. DEFINE mine == gone \cup destroy({"stream"})
            held == (own \cup made) \ Names(mine)
            res  == DestroyResource(held)
            para == DestroyOutputPara(held)
            all  == mine \cup res \cup para
            left == (held \cap (Transients \cup DvppBuffers)) \ Names(all)
<1>1. Call(made, all, left) /\ Goto(label)
  BY DEF Return
<1>2. Names(mine) = Names(gone) \cup {"stream"}
  BY NamesOf, NamesOfUnion
<1>3. Names(res) = (held \cap {"resizeConfig_", "dvppChannelDesc_"})
                     \cup (IF "dvppChannelDesc_" \in held THEN {"channel"} ELSE {})
  BY NamesOf DEF DestroyResource
<1>4. Names(para) = held \cap {"resizeOutBufferDev_"}
  BY NamesOf DEF DestroyOutputPara
<1>5. Names(all) = Names(mine) \cup Names(res) \cup Names(para)
  <2>1. Names(mine \cup res) = Names(mine) \cup Names(res)
    BY NamesOfUnion
  <2>. HIDE DEF mine, res, para
  <2>. QED  BY <2>1, NamesOfUnion
<1>6. Kept \cap (Transients \cup DvppBuffers) = {}
  BY DEF Kept, Transients, DvppBuffers, InputObjects, OutputObjects, OutputBuffers
<1>. HIDE DEF mine, res, para, all
<1>7. Names(all) \cap Kept = {}
  BY <1>2, <1>3, <1>4, <1>5, <1>6 DEF Transients, DvppBuffers
<1>8. left \cap Kept = {}
  BY <1>6
<1>9. left \subseteq (own \cup made) \ Names(gone)
  BY <1>2
<1>10. left \cap Pictures \subseteq {"inputBuff", "devBuffer", "decodeOutDevBuffer_"}
  BY <1>4, <1>5 DEF Pictures, Transients, DvppBuffers
<1>. HIDE DEF left, held
<1>11. /\ left \cap Pictures \subseteq {x}
       /\ left \cap Pictures = {} \/ label = "take"
  BY <1>9, <1>10
<1>. QED  BY <1>1, <1>7, <1>8, <1>11, CallCost DEF Goto

(* Failures that also free the picture on the device: all that can be left *)
(* is the buffer of the decoder.                                           *)
LEMMA FailedCost ==
  ASSUME IInv, Budget, pc \in Preparing, NEW made, NEW gone, ReturnFailed(made, gone),
         made \subseteq (Transients \cup DvppBuffers) \ Locals,
         Names(gone) \subseteq Transients \cup DvppBuffers,
         "inputBuff" \notin Locals \cup made
  PROVE  Budget'
<1>. DEFINE all == gone \cup acldvppFree({"devBuffer"})
<1>1. Names(all) = Names(gone) \cup {"devBuffer"}
  BY NamesOf, NamesOfUnion
<1>2. Return(made, all, "take")
  BY DEF ReturnFailed
<1>. HIDE DEF all
<1>3. (Transients \cup DvppBuffers) \cap (Kept \cup ModelObjects) = {}
  BY DEF Kept, ModelObjects, Transients, DvppBuffers, InputObjects, OutputObjects, OutputBuffers
<1>4. own \cap made = {} /\ made \cap Kept = {} /\ Names(all) \cap Kept = {}
  BY <1>1, <1>3 DEF Locals, DvppBuffers
<1>5. ((own \cup made) \cap {"inputBuff", "devBuffer", "decodeOutDevBuffer_"}) \ Names(all)
        \subseteq {"decodeOutDevBuffer_"}
  BY <1>1, <1>3 DEF Locals, DvppBuffers
<1>. QED  BY <1>2, <1>4, <1>5, ReturnCost

(* Overwriting a data set loses the objects of the frame before.           *)
LEMMA OverwriteCost ==
  ASSUME IInv, NEW objects, NEW made, NEW gone, Overwrite(objects, made, gone),
         made \subseteq objects, objects \subseteq Kept, Names(gone) \cap Kept = {}
  PROVE  /\ \A n \in objects : Taken(n)' = Taken(n) + IF n \in made THEN 1 ELSE 0
         /\ \A n \in Kept \ objects : Taken(n)' = Taken(n)
         /\ \A n \in Pictures : lost'[n] = lost[n]
<1>. DEFINE left == (own \cap objects) \ made
<1>1. Call(made, gone, left)
  BY DEF Overwrite
<1>2. /\ Kept \subseteq Objects /\ Pictures \subseteq Objects /\ Kept \cap Pictures = {}
      /\ \A n \in Objects : lost[n] \in Nat
  BY DEF Kept, Objects, Pictures, DvppBuffers, InputObjects, OutputObjects, OutputBuffers,
         IInv, Clean
<1>3. \A n \in Objects :
        lost'[n] = lost[n] + (IF n \in own \cap made THEN 1 ELSE 0)
                     + (IF n \in (own \cup made) \cap left THEN 1 ELSE 0)
  BY <1>1 DEF Call
<1>4. own' = (own \cup made) \ (Names(gone) \cup left)
  BY <1>1 DEF Call
<1>5. ASSUME NEW n \in objects
      PROVE  Taken(n)' = Taken(n) + IF n \in made THEN 1 ELSE 0
  <2>1. n \in Kept /\ n \in Objects /\ lost[n] \in Nat /\ n \notin Names(gone)
    BY <1>2
  <2>2. lost'[n] = lost[n] + IF n \in own THEN 1 ELSE 0
    BY <1>3, <2>1
  <2>3. n \in own' <=> n \in made
    BY <1>4, <2>1
  <2>. QED  BY <2>1, <2>2, <2>3 DEF Taken
<1>6. ASSUME NEW n \in Kept \ objects
      PROVE  Taken(n)' = Taken(n)
  <2>1. n \in Kept /\ n \in Objects /\ lost[n] \in Nat /\ n \notin Names(gone) /\ n \notin made
    BY <1>2
  <2>2. lost'[n] = lost[n]
    BY <1>3, <2>1
  <2>3. n \in own' <=> n \in own
    BY <1>4, <2>1
  <2>. QED  BY <2>2, <2>3 DEF Taken
<1>7. ASSUME NEW n \in Pictures
      PROVE  lost'[n] = lost[n]
  <2>1. n \in Objects /\ lost[n] \in Nat /\ n \notin made /\ n \notin left
    BY <1>2
  <2>. QED  BY <1>3, <2>1
<1>. QED  BY <1>5, <1>6, <1>7

LEMMA PreparationCost ==
  ASSUME IInv, Budget, Take \/ CreateStream \/ ReadBinMemery \/ GetDeviceBuffer \/ InitResource
  PROVE  Budget'
<1>. DEFINE Mine == Transients \cup DvppBuffers
<1>1. Mine \cap (Kept \cup ModelObjects) = {} /\ Names({}) = {}
  BY NamesOf DEF Kept, ModelObjects, Transients, DvppBuffers, InputObjects, OutputObjects, OutputBuffers
<1>2. ASSUME NEW made, NEW gone, Call(made, gone, {}), made \subseteq Mine \ Locals,
             Names(gone) \subseteq Mine, pc \in Preparing, pc' \in Preparing \cup {"take"},
             frames' = frames
      PROVE  Budget'
  <2>1. own \cap made = {} /\ made \cap Kept = {} /\ Names(gone) \cap Kept = {}
    BY <1>1, <1>2 DEF Locals
  <2>. QED  BY <1>2, <2>1, CallCost
<1>3. CASE Take
  <2>1. /\ pc = "take" /\ pc' = "CreateStream" /\ frames' = frames + 1
        /\ own' = own /\ lost' = lost
    BY <1>3 DEF Take
  <2>2. frames \in Nat /\ Spent <= frames /\ \A n \in DataSets : Taken(n) <= frames
    BY <2>1 DEF IInv, Bookkeeping, Budget
  <2>3. \A n \in Objects : Taken(n) \in Nat /\ lost[n] \in Nat
    BY DEF IInv, Clean, Taken
  <2>4. /\ {"inputData"} \cup Pictures \cup DataSets \subseteq Objects
    BY DEF Objects, Pictures, DataSets, DvppBuffers, InputObjects
  <2>5. Spent \in Nat
    BY <2>3, <2>4 DEF Spent, Pictures
  <2>6. Spent' = Spent /\ \A n \in DataSets : Taken(n)' = Taken(n)
    BY <2>1 DEF Spent, Taken
  <2>7. Spent' < frames' /\ \A n \in DataSets : Taken(n)' < frames'
    BY <2>1, <2>2, <2>3, <2>4, <2>5, <2>6
  <2>. QED  BY <2>1, <2>7 DEF Budget, Preparing
<1>4. CASE CreateStream
  <2>1. /\ pc = "CreateStream" /\ pc \in Preparing /\ pc' \in Preparing \cup {"take"}
        /\ Locals = {} /\ frames' = frames
    BY <1>4 DEF CreateStream, IInv, Held, Preparing, LoopCalls, Goto
  <2>2. PICK made \in {{}, {"stream"}} : Call(made, {}, {})
    BY <1>4 DEF CreateStream, Nothing
  <2>. QED  BY <1>1, <1>2, <2>1, <2>2 DEF Transients
<1>5. CASE ReadBinMemery
  <2>1. pc = "ReadBinMemery" /\ pc \in Preparing /\ Locals = {"stream"}
    BY <1>5 DEF ReadBinMemery, IInv, Held, Preparing, LoopCalls
  <2>2. ASSUME NEW made \in {{}, {"inputBuff"}}, Return(made, {}, "take")
        PROVE  Budget'
    <3>1. made \subseteq Mine \ Locals /\ "inputBuff" \in Mine
      BY <2>1 DEF Transients, DvppBuffers
    <3>2. own \cap made = {} /\ made \cap Kept = {} /\ Names({}) \cap Kept = {}
      BY <1>1, <3>1 DEF Locals
    <3>3. ((own \cup made) \cap {"inputBuff", "devBuffer", "decodeOutDevBuffer_"}) \ Names({})
            \subseteq {"inputBuff"}
      BY <1>1, <2>1 DEF Locals, DvppBuffers
    <3>. QED  BY <2>1, <2>2, <3>2, <3>3, ReturnCost
  <2>3. CASE Call({"inputBuff"}, {}, {}) /\ Goto("GetDeviceBuffer")
    <3>1. {"inputBuff"} \subseteq Mine \ Locals
      BY <2>1 DEF DvppBuffers
    <3>2. pc' \in Preparing /\ frames' = frames
      BY <2>3 DEF Goto, Preparing, LoopCalls
    <3>. QED  BY <1>1, <1>2, <2>1, <2>3, <3>1, <3>2
  <2>. QED  BY <1>5, <2>2, <2>3 DEF ReadBinMemery
<1>6. CASE GetDeviceBuffer
  <2>1. pc = "GetDeviceBuffer" /\ pc \in Preparing /\ Locals = {"stream", "inputBuff"}
    BY <1>6 DEF GetDeviceBuffer, IInv, Held, Preparing, LoopCalls
  <2>2. ASSUME NEW made \in {{}, {"devBuffer"}}, NEW gone, Return(made, gone, "take"),
               Names(gone) = made \cup {"inputBuff"}
        PROVE  Budget'
    <3>1. made \subseteq Mine \ Locals /\ Names(gone) \subseteq Mine
      BY <2>1, <2>2 DEF DvppBuffers
    <3>2. own \cap made = {} /\ made \cap Kept = {} /\ Names(gone) \cap Kept = {}
      BY <1>1, <3>1 DEF Locals
    <3>3. ((own \cup made) \cap {"inputBuff", "devBuffer", "decodeOutDevBuffer_"}) \ Names(gone)
            \subseteq {"inputBuff"}
      BY <1>1, <2>1, <2>2 DEF Locals, DvppBuffers
    <3>. QED  BY <2>1, <2>2, <3>2, <3>3, ReturnCost
  <2>3. CASE Return({}, FreeInput, "take")
    BY <2>2, <2>3, ProperInput
  <2>4. CASE Return({"devBuffer"}, acldvppFree({"devBuffer"}) \cup FreeInput, "take")
    <3>1. Names(acldvppFree({"devBuffer"}) \cup FreeInput) = {"devBuffer"} \cup {"inputBuff"}
      BY NamesOf, ProperInput, NamesOfUnion
    <3>. QED  BY <2>2, <2>4, <3>1
  <2>5. CASE /\ Call({"devBuffer"}, IF isDevice THEN handed({"inputBuff"}) ELSE FreeInput, {})
             /\ Goto("InitResource")
    <3>. DEFINE gone == IF isDevice THEN handed({"inputBuff"}) ELSE FreeInput
    <3>1. Names(gone) = {"inputBuff"}
      BY NamesOf, ProperInput
    <3>. HIDE DEF gone
    <3>2. Call({"devBuffer"}, gone, {})
      BY <2>5 DEF gone
    <3>3. {"devBuffer"} \subseteq Mine \ Locals /\ Names(gone) \subseteq Mine
      BY <2>1, <3>1 DEF DvppBuffers
    <3>4. pc' \in Preparing /\ frames' = frames
      BY <2>5 DEF Goto, Preparing, LoopCalls
    <3>. QED  BY <1>2, <2>1, <3>2, <3>3, <3>4
  <2>. QED  BY <1>6, <2>3, <2>4, <2>5 DEF GetDeviceBuffer
<1>7. CASE InitResource
  <2>1. pc = "InitResource" /\ pc \in Preparing /\ Locals = {"stream", "devBuffer"}
    BY <1>7 DEF InitResource, IInv, Held, Preparing, LoopCalls
  <2>2. ASSUME NEW got \in {{}, {"dvppChannelDesc_"}, {"dvppChannelDesc_", "channel"}},
               Return(got, {}, "take")
        PROVE  Budget'
    <3>1. got \subseteq Mine \ Locals
      BY <2>1 DEF Transients
    <3>2. own \cap got = {} /\ got \cap Kept = {} /\ Names({}) \cap Kept = {}
      BY <1>1, <3>1 DEF Locals
    <3>3. ((own \cup got) \cap {"inputBuff", "devBuffer", "decodeOutDevBuffer_"}) \ Names({})
            \subseteq {"devBuffer"}
      BY <1>1, <2>1 DEF Locals, DvppBuffers
    <3>. QED  BY <2>1, <2>2, <3>2, <3>3, ReturnCost
  <2>3. CASE /\ Call({"dvppChannelDesc_", "channel", "resizeConfig_"}, {}, {})
             /\ Goto("InitDvppOutputPara")
    <3>1. {"dvppChannelDesc_", "channel", "resizeConfig_"} \subseteq Mine \ Locals
      BY <2>1 DEF Transients
    <3>2. pc' \in Preparing /\ frames' = frames
      BY <2>3 DEF Goto, Preparing, LoopCalls
    <3>. QED  BY <1>1, <1>2, <2>1, <2>3, <3>1, <3>2
  <2>. QED  BY <1>7, <2>2, <2>3 DEF InitResource
<1>. QED  BY <1>3, <1>4, <1>5, <1>6, <1>7

LEMMA DecoderCost ==
  ASSUME IInv, Budget,
         \/ InitDvppOutputPara \/ InitDecodeOutputDesc \/ ProcessDecode
         \/ InitResizeInputDesc \/ InitResizeOutputDesc \/ ProcessResize
  PROVE  Budget'
<1>. DEFINE Mine == Transients \cup DvppBuffers
<1>1. /\ pc \in Preparing /\ "inputBuff" \notin Locals /\ Locals \subseteq Mine
      /\ pc = "InitDvppOutputPara" => "resizeOutBufferDev_" \notin Locals
      /\ pc = "InitDecodeOutputDesc" =>
           "decodeOutDevBuffer_" \notin Locals /\ "decodeOutputDesc_" \notin Locals
      /\ pc = "InitResizeInputDesc" => "resizeInputDesc_" \notin Locals
      /\ pc = "InitResizeOutputDesc" => "resizeOutputDesc_" \notin Locals
  BY DEF InitDvppOutputPara, InitDecodeOutputDesc, ProcessDecode, InitResizeInputDesc,
         InitResizeOutputDesc, ProcessResize, IInv, Held, Preparing, LoopCalls, Channel,
         Transients, DvppBuffers
<1>2. ASSUME NEW made, NEW gone, Call(made, gone, {}), made \subseteq Mine \ Locals,
             Names(gone) \subseteq Mine, NEW label, Goto(label), label \in Preparing
      PROVE  Budget'
  <2>1. Mine \cap (Kept \cup ModelObjects) = {}
    BY DEF Kept, ModelObjects, Transients, DvppBuffers, InputObjects, OutputObjects, OutputBuffers
  <2>2. own \cap made = {} /\ made \cap Kept = {} /\ Names(gone) \cap Kept = {}
    BY <1>2, <2>1 DEF Locals
  <2>. QED  BY <1>1, <1>2, <2>2, CallCost DEF Goto
<1>3. \A made : Names(DestroyDecodeResource(own \cup made)) \subseteq Mine
  BY DecodeNames DEF Transients
<1>4. Names(DestroyDecodeResource(own)) \subseteq Mine
  BY NamesOf DEF DestroyDecodeResource, Transients
<1>5. Names(DestroyResizeResource) \subseteq Mine
  BY ResizeNames DEF Transients, DvppBuffers
<1>6. Names({}) = {}
  BY NamesOf
<1>7. ASSUME NEW made, NEW gone, ReturnFailed(made, gone), made \subseteq Mine \ Locals,
             "inputBuff" \notin made, Names(gone) \subseteq Mine
      PROVE  Budget'
  BY <1>1, <1>7, FailedCost
<1>8. CASE InitDvppOutputPara
  <2>1. CASE ReturnFailed({}, {})
    BY <1>6, <1>7, <2>1
  <2>2. CASE pc = "InitDvppOutputPara" /\ Call({"resizeOutBufferDev_"}, {}, {}) /\ Goto("InitDecodeOutputDesc")
    <3>1. {"resizeOutBufferDev_"} \subseteq Mine \ Locals
      BY <1>1, <2>2 DEF DvppBuffers
    <3>. QED  BY <1>2, <1>6, <2>2, <3>1 DEF Preparing, LoopCalls
  <2>. QED  BY <1>8, <2>1, <2>2 DEF InitDvppOutputPara
<1>9. CASE InitDecodeOutputDesc
  <2>1. ASSUME NEW got \in {{}, {"decodeOutDevBuffer_"}}, DecodeFailed(got)
        PROVE  Budget'
    <3>1. got \subseteq Mine \ Locals /\ "inputBuff" \notin got
      BY <1>1, <1>9 DEF InitDecodeOutputDesc, DvppBuffers
    <3>. QED  BY <1>3, <1>7, <2>1, <3>1 DEF DecodeFailed
  <2>2. CASE /\ pc = "InitDecodeOutputDesc"
             /\ Call({"decodeOutDevBuffer_", "decodeOutputDesc_"}, {}, {})
             /\ Goto("ProcessDecode")
    <3>1. {"decodeOutDevBuffer_", "decodeOutputDesc_"} \subseteq Mine \ Locals
      BY <1>1, <2>2 DEF Transients, DvppBuffers
    <3>. QED  BY <1>2, <1>6, <2>2, <3>1 DEF Preparing, LoopCalls
  <2>. QED  BY <1>9, <2>1, <2>2 DEF InitDecodeOutputDesc
<1>10. CASE ProcessDecode
  <2>1. CASE DecodeFailed({})
    BY <1>3, <1>7, <2>1 DEF DecodeFailed
  <2>2. CASE Call({}, DestroyDecodeResource(own), {}) /\ Goto("InitResizeInputDesc")
    BY <1>2, <1>4, <2>2 DEF Preparing, LoopCalls
  <2>. QED  BY <1>10, <2>1, <2>2 DEF ProcessDecode
<1>11. CASE ResizeFailed
  BY <1>5, <1>7, <1>11 DEF ResizeFailed
<1>12. CASE pc = "InitResizeInputDesc" /\ Call({"resizeInputDesc_"}, {}, {}) /\ Goto("InitResizeOutputDesc")
  <2>1. {"resizeInputDesc_"} \subseteq Mine \ Locals
    BY <1>1, <1>12 DEF Transients
  <2>. QED  BY <1>2, <1>6, <1>12, <2>1 DEF Preparing, LoopCalls
<1>13. CASE pc = "InitResizeOutputDesc" /\ Call({"resizeOutputDesc_"}, {}, {}) /\ Goto("ProcessResize")
  <2>1. {"resizeOutputDesc_"} \subseteq Mine \ Locals
    BY <1>1, <1>13 DEF Transients
  <2>. QED  BY <1>2, <1>6, <1>13, <2>1 DEF Preparing, LoopCalls
<1>14. CASE Call({}, DestroyResizeResource, {}) /\ Goto("GetDvppOutput")
  BY <1>2, <1>5, <1>14 DEF Preparing, LoopCalls
<1>. QED
  BY <1>8, <1>9, <1>10, <1>11, <1>12, <1>13, <1>14
     DEF InitResizeInputDesc, InitResizeOutputDesc, ProcessResize

(* The resized picture is handed to inputBuffer, and nothing is left.      *)
LEMMA PreparedCost ==
  ASSUME IInv, Budget, GetDvppOutput
  PROVE  Budget'
<1>. DEFINE gone == handed({"resizeOutBufferDev_"}) \cup acldvppFree({"devBuffer"})
<1>1. pc \in Preparing /\ Locals = Channel \cup {"resizeOutBufferDev_"}
  BY DEF GetDvppOutput, IInv, Held, Preparing, LoopCalls
<1>2. Names(gone) = {"resizeOutBufferDev_", "devBuffer"}
  BY NamesOf, NamesOfUnion
<1>. HIDE DEF gone
<1>3. Return({"inputBuffer"}, gone, "CreateInput")
  BY DEF GetDvppOutput, gone
<1>4. /\ own \cap {"inputBuffer"} = {} /\ {"inputBuffer"} \cap Kept = {} /\ Names(gone) \cap Kept = {}
      /\ (own \cup {"inputBuffer"}) \cap {"inputBuff", "devBuffer", "decodeOutDevBuffer_"} = {"devBuffer"}
  BY <1>1, <1>2
     DEF Locals, Channel, ModelObjects, Kept, InputObjects, OutputObjects, OutputBuffers
<1>. QED  BY <1>1, <1>2, <1>3, <1>4, ReturnCost DEF Preparing, LoopCalls

LEMMA InferenceCost ==
  ASSUME IInv, Budget, CreateInput \/ CreateOutput \/ Execute \/ ProcessOutput \/ sendTo
  PROVE  Budget'
<1>1. /\ frames \in Nat
      /\ \A n \in Kept : Taken(n) \in Nat
      /\ \A n \in Pictures : lost[n] \in Nat
  <2>1. Kept \subseteq Objects /\ Pictures \subseteq Objects
    BY DEF Kept, Objects, Pictures, DvppBuffers
  <2>. QED  BY <2>1 DEF IInv, Bookkeeping, Clean, Taken
<1>2. "inputData" \in Kept /\ DataSets \subseteq Kept /\ InputObjects = {"input_", "inputData"}
      /\ DataSets = {"input_"} \cup OutputObjects /\ "input_" \notin OutputObjects
      /\ "inputData" \notin OutputObjects /\ OutputObjects \subseteq Kept /\ InputObjects \subseteq Kept
  BY DEF Kept, DataSets, InputObjects, OutputObjects, OutputBuffers
<1>3. ASSUME \A n \in Pictures : lost'[n] = lost[n]
      PROVE  /\ Spent \in Nat
             /\ Spent' = (Spent - Taken("inputData")) + Taken("inputData")'
  BY <1>1, <1>2, <1>3 DEF Spent, Pictures
<1>4. CASE CreateInput
  <2>1. /\ pc = "CreateInput" /\ pc \in Preparing /\ frames' = frames
        /\ pc' \in {"take", "CreateOutput"}
    BY <1>4 DEF CreateInput, Preparing, LoopCalls, Goto
  <2>2. Spent < frames /\ \A n \in DataSets : Taken(n) < frames
    BY <2>1 DEF Budget
  <2>3. /\ Names(acldvppFree({"inputBuffer"})) \cap Kept = {}
        /\ Names(handed({"inputBuffer"})) \cap Kept = {}
        /\ "inputBuffer" \notin Kept
    BY NamesOf DEF Kept, InputObjects, OutputObjects, OutputBuffers
  <2>4. CASE Call({}, acldvppFree({"inputBuffer"}), {}) /\ Goto("take")
    <3>1. own \cap {} = {} /\ {} \cap Kept = {} /\ {} \cap Pictures \subseteq {"inputBuffer"}
          /\ {} \cap Pictures = {}
      OBVIOUS
    <3>2. pc' \in Preparing \cup {"take"}
      BY <2>4 DEF Goto
    <3>. QED  BY <2>1, <2>3, <2>4, <3>1, <3>2, CallCost
  <2>5. ASSUME NEW made \in {{}, {"input_"}, InputObjects}, NEW gone,
               Overwrite(InputObjects, made, gone), Names(gone) \cap Kept = {},
               pc' = "take" => made # InputObjects
        PROVE  Budget'
    <3>1. made \subseteq InputObjects /\ InputObjects \subseteq Kept
      BY <1>2
    <3>2. /\ \A n \in InputObjects : Taken(n)' = Taken(n) + IF n \in made THEN 1 ELSE 0
          /\ \A n \in Kept \ InputObjects : Taken(n)' = Taken(n)
          /\ \A n \in Pictures : lost'[n] = lost[n]
      BY <2>5, <3>1, OverwriteCost
    <3>3. Taken("inputData")' \in Taken("inputData")..(Taken("inputData") + 1)
      BY <1>1, <1>2, <3>2
    <3>4. Spent' <= frames'
      BY <1>1, <1>2, <1>3, <2>1, <2>2, <3>2, <3>3
    <3>5. Taken("input_")' <= frames'
      BY <1>1, <1>2, <2>1, <2>2, <3>2
    <3>6. \A n \in OutputObjects : Taken(n)' < frames' /\ Taken(n)' <= frames'
      BY <1>1, <1>2, <2>1, <2>2, <3>2
    <3>. QED  BY <1>2, <2>1, <3>4, <3>5, <3>6 DEF Budget, Preparing
  <2>6. ASSUME NEW made \in {{}, {"input_"}},
               Overwrite(InputObjects, made, acldvppFree({"inputBuffer"})), Goto("take")
        PROVE  Budget'
    BY <1>2, <2>3, <2>5, <2>6
  <2>7. CASE Overwrite(InputObjects, InputObjects, handed({"inputBuffer"})) /\ Goto("CreateOutput")
    <3>1. pc' # "take"
      BY <2>7 DEF Goto
    <3>. QED  BY <2>3, <2>5, <2>7, <3>1
  <2>. QED  BY <1>4, <2>4, <2>6, <2>7 DEF CreateInput
<1>5. CASE CreateOutput
  <2>1. pc = "CreateOutput" /\ frames' = frames /\ pc' \in {"take", "Execute"}
    BY <1>5 DEF CreateOutput, Goto
  <2>2. Spent <= frames /\ Taken("input_") <= frames /\ \A n \in OutputObjects : Taken(n) < frames
    BY <2>1 DEF Budget
  <2>3. PICK made \in {{}, {"output_"}, {"output_", "outputData0"}, OutputObjects} :
          Overwrite(OutputObjects, made, {})
    BY <1>5 DEF CreateOutput
  <2>4. made \subseteq OutputObjects /\ Names({}) \cap Kept = {}
    BY NamesOf DEF OutputObjects, OutputBuffers
  <2>5. /\ \A n \in OutputObjects : Taken(n)' = Taken(n) + IF n \in made THEN 1 ELSE 0
        /\ \A n \in Kept \ OutputObjects : Taken(n)' = Taken(n)
        /\ \A n \in Pictures : lost'[n] = lost[n]
    BY <1>2, <2>3, <2>4, OverwriteCost
  <2>6. Taken("inputData")' = Taken("inputData") /\ Taken("input_")' = Taken("input_")
    BY <1>2, <2>5
  <2>7. Spent' <= frames'
    BY <1>1, <1>2, <1>3, <2>1, <2>2, <2>5, <2>6
  <2>8. \A n \in OutputObjects : Taken(n)' <= frames'
    BY <1>1, <1>2, <2>1, <2>2, <2>5
  <2>. QED  BY <1>2, <2>1, <2>2, <2>6, <2>7, <2>8 DEF Budget, Preparing
<1>6. CASE Execute \/ ProcessOutput \/ sendTo
  <2>1. /\ pc \in {"Execute", "ProcessOutput", "sendTo"} /\ frames' = frames
        /\ pc' \in {"take", "ProcessOutput", "sendTo", "crashed"}
    BY <1>6 DEF Execute, ProcessOutput, sendTo, Goto
  <2>2. Spent <= frames /\ \A n \in DataSets : Taken(n) <= frames
    BY <2>1 DEF Budget
  <2>. DEFINE host == {"outHostData"}
  <2>3. PICK made \in {{}, host}, gone \in {{}, aclrtFreeHost(host), aclrtFree(host)} :
          Call(made, gone, {}) /\ (made = {} => gone = {})
    BY <1>6 DEF Execute, ProcessOutput, sendTo, Nothing
  <2>4. Names(gone) \subseteq made /\ made \cap (Kept \cup Pictures) = {}
    BY <2>3, NamesOf DEF Kept, Pictures, InputObjects, OutputObjects, OutputBuffers
  <2>5. \A n \in Objects : n \notin made => lost'[n] = lost[n]
    BY <2>3 DEF Call, IInv, Clean
  <2>6. \A n \in Objects : n \notin made => Taken(n)' = Taken(n)
    BY <2>3, <2>4, <2>5 DEF Call, Taken
  <2>7. Kept \subseteq Objects /\ Pictures \subseteq Objects
    BY DEF Kept, Objects, Pictures, DvppBuffers
  <2>8. /\ \A n \in Kept : Taken(n)' = Taken(n)
        /\ \A n \in Pictures : lost'[n] = lost[n]
    BY <2>4, <2>5, <2>6, <2>7
  <2>9. Spent' = Spent
    BY <1>2, <2>8 DEF Spent, Pictures
  <2>10. \A n \in DataSets : Taken(n)' <= frames'
    BY <1>2, <2>1, <2>2, <2>8
  <2>11. pc' \notin Preparing /\ pc' # "CreateOutput"
    BY <2>1 DEF Preparing, LoopCalls
  <2>. QED  BY <2>1, <2>2, <2>9, <2>10, <2>11 DEF Budget
<1>. QED  BY <1>4, <1>5, <1>6

LEMMA NextBudget ==
  ASSUME IInv, Budget, [Next]_vars
  PROVE  Budget'
<1>1. CASE ModelInit \/ LoadModel \/ Finalize
  <2>1. pc' \in {"Finalize", "LoadModel", "GetModelInputWH", "ended"}
    BY <1>1 DEF ModelInit, LoadModel, Finalize, Goto
  <2>. QED  BY <2>1 DEF Budget, Preparing, LoopCalls
<1>2. CASE GetModelInputWH
  <2>1. own = ModelObjects /\ \A n \in Objects : lost[n] = 0
    BY <1>2 DEF GetModelInputWH, IInv, Begun, LoopCalls
  <2>2. own' = own /\ lost' = lost
    BY <1>2, NothingIsClean DEF GetModelInputWH, IInv
  <2>3. frames' \in Nat /\ pc' \in {"Finalize", "take"}
    BY <1>2 DEF GetModelInputWH, Goto, IInv, Bookkeeping
  <2>4. /\ {"inputData"} \cup Pictures \cup DataSets \subseteq Objects
        /\ ({"inputData"} \cup DataSets) \cap ModelObjects = {}
    BY DEF Objects, Pictures, DataSets, DvppBuffers, InputObjects, ModelObjects,
           OutputObjects, OutputBuffers
  <2>5. /\ \A n \in Pictures : lost'[n] = 0
        /\ Taken("inputData")' = 0
        /\ \A n \in DataSets : Taken(n)' = 0
    BY <2>1, <2>2, <2>4 DEF Taken
  <2>6. Spent' = 0
    BY <2>5 DEF Spent, Pictures
  <2>7. pc' \notin Preparing /\ pc' # "CreateOutput"
    BY <2>3 DEF Preparing, LoopCalls
  <2>. QED  BY <2>3, <2>5, <2>6, <2>7 DEF Budget
<1>3. CASE UNCHANGED vars
  BY <1>3 DEF vars, Budget, Spent, Taken
<1>. QED
  BY <1>1, <1>2, <1>3, PreparationCost, DecoderCost, PreparedCost, InferenceCost DEF Next

(* For any number of frames and any sequence of failing calls: what is     *)
(* left on the device after a frame is at most one picture, and at most    *)
(* one of each of the objects of a data set.                               *)
THEOREM FramesCostOneBuffer == Spec => []OneBufferPerFrame
<1>1. Init => Budget
  BY DEF Init, Budget, Preparing, LoopCalls
<1>2. IInv /\ Budget /\ [Next]_vars => Budget'
  BY NextBudget
<1>3. IInv /\ Budget => OneBufferPerFrame
  <2>. SUFFICES ASSUME IInv, Budget, pc = "take"
                PROVE  /\ Taken("inputBuff") + Taken("devBuffer") + Taken("decodeOutDevBuffer_")
                            + Taken("resizeOutBufferDev_") + Taken("inputBuffer")
                            + Taken("inputData") <= frames
                       /\ \A n \in {"input_"} \cup OutputObjects : Taken(n) <= frames
    BY DEF OneBufferPerFrame
  <2>1. Locals = {}
    BY DEF IInv, Held
  <2>2. Pictures \cap own = {} /\ \A n \in Pictures : lost[n] \in Nat
    BY <2>1
       DEF Locals, Pictures, ModelObjects, Kept, InputObjects, OutputObjects, OutputBuffers,
           IInv, Clean, Objects, DvppBuffers
  <2>3. \A n \in Pictures : Taken(n) = lost[n]
    BY <2>2 DEF Taken
  <2>4. Spent = Taken("inputBuff") + Taken("devBuffer") + Taken("decodeOutDevBuffer_")
                  + Taken("resizeOutBufferDev_") + Taken("inputBuffer") + Taken("inputData")
    BY <2>3 DEF Spent, Pictures
  <2>. QED  BY <2>4 DEF Budget, DataSets
<1>. QED  BY <1>1, <1>2, <1>3, Invariance, PTL DEF Spec

(* The bookkeeping of objects keeps its type, whatever fails.              *)
THEOREM TypeCorrect == Spec => []TypeOK
<1>1. IInv => TypeOK
  BY DEF IInv, Bookkeeping, Clean, ReleasedOnce, FreedByItsAllocator, LoopCalls, TypeOK, Objects,
         Transients, ModelObjects, FreeFunctions
<1>. QED  BY <1>1, Invariance, PTL

(* For any number of frames and any sequence of failing calls, nothing is  *)
(* released that was not there, twice or after it was handed over.         *)
THEOREM NothingReleasedTwice == Spec => []ReleasedOnce
<1>1. IInv => ReleasedOnce
  BY DEF IInv, Clean
<1>. QED  BY <1>1, Invariance, PTL

(* All memory goes back to where it came from, in both run modes; a failed *)
(* copy of an output is the only exception.                                *)
THEOREM RightFreeFunction == Spec => []FreedByItsAllocator
<1>1. IInv => FreedByItsAllocator
  BY DEF IInv, Clean
<1>. QED  BY <1>1, Invariance, PTL

(* No stream, channel, configuration or description is left behind by any  *)
(* frame, so the thread can go on for any number of them.                  *)
THEOREM NoTransientLeft == Spec => []TransientsReleased
<1>1. IInv => TransientsReleased
  <2>1. Transients \cap (ModelObjects \cup Kept) = {}
    BY DEF Transients, ModelObjects, Kept, InputObjects, OutputObjects, OutputBuffers
  <2>. QED  BY <2>1 DEF IInv, Clean, Held, Locals, TransientsReleased
<1>. QED  BY <1>1, Invariance, PTL

(* A thread that gives up before its loop returns everything.              *)
THEOREM GivingUpReleasesAll == Spec => []FinalizeReleasesAll
<1>1. IInv => FinalizeReleasesAll
  BY DEF IInv, Begun, LoopCalls, FinalizeReleasesAll
<1>. QED  BY <1>1, Invariance, PTL
=============================================================================
