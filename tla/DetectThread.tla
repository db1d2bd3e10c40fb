----------------------------- MODULE DetectThread -----------------------------
(***************************************************************************)
(* src/detect_thread.cpp, detect_func, with everything it calls to turn an *)
(* item of the queue into model input and output: src/utils.cpp,           *)
(* src/dvpp_process.cpp, src/model_process.cpp.  The module follows the    *)
(* objects of the Ascend library (acl...) from creation to release.  Every *)
(* library call that can report an error may do so.                        *)
(*                                                                         *)
(* One thread makes all these calls, so a function is one step.  An object *)
(* is named after the variable that refers to it.  `own` holds the names   *)
(* that refer to a live object; `lost` counts live objects that nothing    *)
(* refers to any more; `misused` holds names that were released while they *)
(* referred to nothing; `mismatched` pairs a free function with memory it  *)
(* was given and is not meant for.  What the library does with such memory *)
(* is not the program's to say: the model counts it as released.           *)
(***************************************************************************)
EXTENDS Integers

CONSTANT MaxFrames   \* bound: items taken from the queue

ASSUME DetectAssumption == MaxFrames \in Nat

(* Needed only while GetImageResizeBuffer runs.                            *)
Transients ==
  {"stream", "dvppChannelDesc_", "channel", "resizeConfig_",
   "decodeOutputDesc_", "resizeInputDesc_", "resizeOutputDesc_"}

(* Picture memory that only that function refers to.                       *)
DvppBuffers == {"inputBuff", "devBuffer", "decodeOutDevBuffer_", "resizeOutBufferDev_"}

(* input_ and output_ are datasets; the others are in them.  inputData is  *)
(* the data buffer together with the picture it wraps; the model has two   *)
(* outputs.                                                                *)
InputObjects  == {"input_", "inputData"}
OutputBuffers == {"outputData0", "outputData1"}
OutputObjects == {"output_"} \cup OutputBuffers

ModelObjects == {"acl", "device", "context_", "model", "modelDesc_"}

Objects == Transients \cup DvppBuffers \cup {"inputBuffer", "outHostData"}
             \cup InputObjects \cup OutputObjects \cup ModelObjects

FreeFunctions == {"acldvppFree", "aclrtFree", "aclrtFreeHost"}

VARIABLES
  pc,        \* the function that is called next; "take" is the head of the loop
  own,
  lost,
  misused,
  mismatched,
  isDevice,  \* RunStatus::isDevice_
  frames     \* items taken from the queue

vars == <<pc, own, lost, misused, mismatched, isDevice, frames>>

TypeOK ==
  /\ pc \in {"Init", "LoadModel", "GetModelInputWH", "Finalize", "ended", "crashed",
             "take", "CreateStream", "ReadBinMemery", "GetDeviceBuffer", "InitResource",
             "InitDvppOutputPara", "InitDecodeOutputDesc", "ProcessDecode",
             "InitResizeInputDesc", "InitResizeOutputDesc", "ProcessResize",
             "GetDvppOutput", "CreateInput", "CreateOutput", "Execute", "ProcessOutput", "sendTo"}
  /\ own \subseteq Objects
  /\ lost \in [Objects -> Nat]
  /\ misused \subseteq Objects
  /\ mismatched \subseteq FreeFunctions \X Objects
  /\ isDevice \in BOOLEAN
  /\ frames \in 0..MaxFrames

Init ==
  /\ pc = "Init"
  /\ own = {}
  /\ lost = [n \in Objects |-> 0]
  /\ misused = {}
  /\ mismatched = {}
  /\ isDevice = FALSE
  /\ frames = 0
-----------------------------------------------------------------------------
(* What goes away in a call: each name with the function that is called,   *)
(* or `handed' when another object refers to it from now on, or `destroy'  *)
(* when there is only one function for its kind.                           *)
By(function, S)  == {<<function, n>> : n \in S}
acldvppFree(S)   == By("acldvppFree", S)
aclrtFree(S)     == By("aclrtFree", S)
aclrtFreeHost(S) == By("aclrtFreeHost", S)
handed(S)        == By("handed", S)
destroy(S)       == By("destroy", S)

Names(gone) == {g[2] : g \in gone}

(* The free function that goes with the allocation of n: acldvppMalloc for *)
(* pictures, aclrtMalloc for outputs, aclrtMallocHost for host memory.     *)
FreedBy(n) ==
  CASE n = "inputBuff"       -> IF isDevice THEN "acldvppFree" ELSE "aclrtFreeHost"
    [] n = "outHostData"     -> "aclrtFreeHost"
    [] n \in OutputBuffers   -> "aclrtFree"
    [] OTHER                 -> "acldvppFree"

(* The effect of one call.  `made` is created; a name that referred to an  *)
(* older object does not any more.  `gone` is released or handed over.     *)
(* The references in `forgotten` go out of scope or are overwritten.       *)
Call(made, gone, forgotten) ==
  LET now == own \cup made
      one(n, S) == IF n \in S THEN 1 ELSE 0
  IN  /\ own' = now \ (Names(gone) \cup forgotten)
      /\ misused' = misused \cup (Names(gone) \ now)
      /\ mismatched' = mismatched \cup
           {g \in gone : g[1] \in FreeFunctions /\ g[1] # FreedBy(g[2])}
      /\ lost' = [n \in Objects |-> lost[n] + one(n, own \cap made) + one(n, now \cap forgotten)]

Nothing == Call({}, {}, {})

Goto(label) == pc' = label /\ UNCHANGED <<isDevice, frames>>
-----------------------------------------------------------------------------
(* ModelProcess::Init: what was acquired before the call that failed stays *)
(* with the object.  aclrtGetRunMode tells host from device.               *)
ModelInit ==
  /\ pc = "Init"
  /\ \/ /\ \E got \in {{}, {"acl"}, {"acl", "device"}, {"acl", "device", "context_"}} :
              Call(got, {}, {})
        /\ Goto("Finalize")
     \/ /\ Call({"acl", "device", "context_"}, {}, {})
        /\ isDevice' \in BOOLEAN
        /\ pc' = "LoadModel"
        /\ UNCHANGED frames

(* A model that was loaded is unloaded again before LoadModel fails.       *)
LoadModel ==
  /\ pc = "LoadModel"
  /\ \/ Nothing /\ Goto("Finalize")
     \/ Call({"model", "modelDesc_"}, {}, {}) /\ Goto("GetModelInputWH")

GetModelInputWH ==
  /\ pc = "GetModelInputWH"
  /\ Nothing
  /\ Goto("Finalize") \/ Goto("take")

(* loadFlag_ not set by LoadModel                                          *)
UnloadModel_notLoaded == {}

(* loadFlag_ is set exactly if the model was loaded.                       *)
UnloadModel == destroy(own \cap {"model", "modelDesc_"})

DestroyInput ==
  destroy(own \cap {"input_"}) \cup acldvppFree(own \cap {"inputData"})

DestroyOutput ==
  destroy(own \cap {"output_"}) \cup aclrtFree(own \cap OutputBuffers)

(* ~ModelProcess when detect_func returns -1.  The constructor leaves      *)
(* context_ uninitialised: if Init did not come to create a context, the   *)
(* test against nullptr may find anything.                                 *)
Finalize ==
  /\ pc = "Finalize"
  /\ \E garbage \in {{}, {"context_"} \ own} :
        Call({}, UnloadModel \cup DestroyInput \cup DestroyOutput
                   \cup destroy((own \cap {"context_", "device", "acl"}) \cup garbage), {})
  /\ Goto("ended")
-----------------------------------------------------------------------------
(* get_queue returned an item; on false the loop goes round.               *)
Take ==
  /\ pc = "take"
  /\ frames < MaxFrames
  /\ frames' = frames + 1
  /\ pc' = "CreateStream"
  /\ UNCHANGED <<own, lost, misused, mismatched, isDevice>>

CreateStream ==
  /\ pc = "CreateStream"
  /\ \/ Nothing /\ Goto("take")
     \/ Call({"stream"}, {}, {}) /\ Goto("ReadBinMemery")

(* the channel left to its description                                     *)
DestroyResource_channel(held) == destroy(held \cap {"resizeConfig_", "dvppChannelDesc_"})

(* DvppProcess::DestroyResource: the channel is destroyed whenever there   *)
(* is a description, though acldvppCreateChannel may have failed.          *)
DestroyResource(held) ==
  destroy((held \cap {"resizeConfig_", "dvppChannelDesc_"})
            \cup (IF "dvppChannelDesc_" \in held THEN {"channel"} ELSE {}))

(* DvppProcess::DestroyOutputPara                                          *)
DestroyOutputPara(held) == acldvppFree(held \cap {"resizeOutBufferDev_"})

(* GetImageResizeBuffer returns: the stream and `gone` by its own          *)
(* statements, the rest by ~DvppProcess; what is left of its variables is  *)
(* forgotten.                                                              *)
Return(made, gone, label) ==
  LET mine == gone \cup destroy({"stream"})
      held == (own \cup made) \ Names(mine)
      all  == mine \cup DestroyResource(held) \cup DestroyOutputPara(held)
  IN  /\ Call(made, all, (held \cap (Transients \cup DvppBuffers)) \ Names(all))
      /\ Goto(label)

(* Utils::ReadBinMemery does not release inputBuff when it fails after the *)
(* allocation, and its caller returns at once.                             *)
ReadBinMemery ==
  /\ pc = "ReadBinMemery"
  /\ \/ Return({}, {}, "take")
     \/ Return({"inputBuff"}, {}, "take")
     \/ Call({"inputBuff"}, {}, {}) /\ Goto("GetDeviceBuffer")

(* the run mode not asked for                                              *)
FreeInput_host == aclrtFreeHost({"inputBuff"})

FreeInput ==
  IF isDevice THEN acldvppFree({"inputBuff"}) ELSE aclrtFreeHost({"inputBuff"})

(* The rest of Utils::GetDeviceBufferOfPictureMemery.  On the host the     *)
(* picture is copied and inputBuff freed; on the device inputBuff becomes  *)
(* devBuffer.                                                              *)
GetDeviceBuffer ==
  /\ pc = "GetDeviceBuffer"
  /\ \/ Return({}, FreeInput, "take")
     \/ /\ ~isDevice
        /\ Return({"devBuffer"}, acldvppFree({"devBuffer"}) \cup FreeInput, "take")
     \/ /\ Call({"devBuffer"}, IF isDevice THEN handed({"inputBuff"}) ELSE FreeInput, {})
        /\ Goto("InitResource")

(* The error path of lines 89 to 94 does not free devBuffer.               *)
InitResource ==
  /\ pc = "InitResource"
  /\ \/ \E got \in {{}, {"dvppChannelDesc_"}, {"dvppChannelDesc_", "channel"}} :
          Return(got, {}, "take")
     \/ /\ Call({"dvppChannelDesc_", "channel", "resizeConfig_"}, {}, {})
        /\ Goto("InitDvppOutputPara")

(* `dvpp init output parameters failed', `dvpp process failed'             *)
ReturnFailed(made, gone) == Return(made, gone \cup acldvppFree({"devBuffer"}), "take")

(* SetInput, InitDvppOutputPara                                            *)
InitDvppOutputPara ==
  /\ pc = "InitDvppOutputPara"
  /\ \/ ReturnFailed({}, {})
     \/ Call({"resizeOutBufferDev_"}, {}, {}) /\ Goto("InitDecodeOutputDesc")

(* DestroyDecodeResource: the description, not the buffer.                 *)
DestroyDecodeResource(held) == destroy(held \cap {"decodeOutputDesc_"})

(* DvppProcess::Process, decoding                                          *)
DecodeFailed(made) == ReturnFailed(made, DestroyDecodeResource(own \cup made))

InitDecodeOutputDesc ==
  /\ pc = "InitDecodeOutputDesc"
  /\ \/ \E got \in {{}, {"decodeOutDevBuffer_"}} :
          DecodeFailed(got)
     \/ /\ Call({"decodeOutDevBuffer_", "decodeOutputDesc_"}, {}, {})
        /\ Goto("ProcessDecode")

ProcessDecode ==
  /\ pc = "ProcessDecode"
  /\ \/ DecodeFailed({})
     \/ Call({}, DestroyDecodeResource(own), {}) /\ Goto("InitResizeInputDesc")

(* the decoder's buffer not released                                       *)
DestroyResizeResource_descs == destroy(own \cap {"resizeInputDesc_", "resizeOutputDesc_"})

DestroyResizeResource ==
  acldvppFree(own \cap {"decodeOutDevBuffer_"})
    \cup destroy(own \cap {"resizeInputDesc_", "resizeOutputDesc_"})

(* DvppProcess::Process, resizing                                          *)
ResizeFailed == ReturnFailed({}, DestroyResizeResource)

InitResizeInputDesc ==
  /\ pc = "InitResizeInputDesc"
  /\ \/ ResizeFailed
     \/ Call({"resizeInputDesc_"}, {}, {}) /\ Goto("InitResizeOutputDesc")

InitResizeOutputDesc ==
  /\ pc = "InitResizeOutputDesc"
  /\ \/ ResizeFailed
     \/ Call({"resizeOutputDesc_"}, {}, {}) /\ Goto("ProcessResize")

ProcessResize ==
  /\ pc = "ProcessResize"
  /\ \/ ResizeFailed
     \/ Call({}, DestroyResizeResource, {}) /\ Goto("GetDvppOutput")

(* resizeOutBufferDev_ not set to nullptr: ~DvppProcess frees what         *)
(* inputBuffer refers to                                                   *)
GetDvppOutput_shared ==
  /\ pc = "GetDvppOutput"
  /\ Return({}, acldvppFree({"resizeOutBufferDev_", "devBuffer"}), "CreateInput")

(* resizeOutBufferDev_ is handed to inputBuffer; then the way out.         *)
GetDvppOutput ==
  /\ pc = "GetDvppOutput"
  /\ Return({"inputBuffer"}, handed({"resizeOutBufferDev_"}) \cup acldvppFree({"devBuffer"}),
            "CreateInput")
-----------------------------------------------------------------------------
(* input_ is overwritten without DestroyInput, and so is output_: the      *)
(* objects of the frame before are forgotten.                              *)
Overwrite(objects, made, gone) ==
  Call(made, gone, (own \cap objects) \ made)

(* ModelProcess::CreateInput: on every error inputBuffer is freed.         *)
CreateInput ==
  /\ pc = "CreateInput"
  /\ \/ Call({}, acldvppFree({"inputBuffer"}), {}) /\ Goto("take")
     \/ \E made \in {{}, {"input_"}} :
          Overwrite(InputObjects, made, acldvppFree({"inputBuffer"})) /\ Goto("take")
     \/ Overwrite(InputObjects, InputObjects, handed({"inputBuffer"})) /\ Goto("CreateOutput")

(* one output too many: i <= outputSize                                    *)
CreateOutput_past ==
  /\ pc = "CreateOutput"
  /\ Overwrite(OutputObjects, OutputObjects \cup {"outputData2"}, {})
  /\ Goto("Execute")

(* ModelProcess::CreateOutput: what it built before an error stays in      *)
(* output_.                                                                *)
CreateOutput ==
  /\ pc = "CreateOutput"
  /\ \/ \E made \in {{}, {"output_"}, {"output_", "outputData0"}} :
          Overwrite(OutputObjects, made, {}) /\ Goto("take")
     \/ Overwrite(OutputObjects, OutputObjects, {}) /\ Goto("Execute")

(* CHECK_FUNCTION_RESULT, which returns, in the loop                       *)
Execute_return ==
  /\ pc = "Execute"
  /\ Nothing
  /\ Goto("Finalize") \/ Goto("ProcessOutput")

Execute ==
  /\ pc = "Execute"
  /\ Nothing
  /\ Goto("take") \/ Goto("ProcessOutput")

(* On the host both outputs are copied to host memory, which the shared    *)
(* pointers free.  Without the first copy PostProcess reads through a null *)
(* pointer; without the second it does so if some class has a score, and   *)
(* otherwise reports no object at all.  When it is the copying that fails, *)
(* outHostData is given to aclrtFree.                                      *)
ProcessOutput ==
  /\ pc = "ProcessOutput"
  /\ \/ isDevice /\ Nothing /\ Goto("sendTo")
     \/ /\ ~isDevice
        /\ \/ Call({"outHostData"}, aclrtFreeHost({"outHostData"}), {}) /\ Goto("sendTo")
           \/ /\ \/ Nothing
                 \/ Call({"outHostData"}, aclrtFree({"outHostData"}), {})
              /\ Goto("crashed") \/ Goto("sendTo")

(* sendTo throws when the datagram was not sent; nobody catches.           *)
sendTo ==
  /\ pc = "sendTo"
  /\ Nothing
  /\ Goto("take") \/ Goto("crashed")

Next ==
  \/ ModelInit \/ LoadModel \/ GetModelInputWH \/ Finalize
  \/ Take \/ CreateStream \/ ReadBinMemery \/ GetDeviceBuffer \/ InitResource
  \/ InitDvppOutputPara \/ InitDecodeOutputDesc \/ ProcessDecode
  \/ InitResizeInputDesc \/ InitResizeOutputDesc \/ ProcessResize \/ GetDvppOutput
  \/ CreateInput \/ CreateOutput \/ Execute \/ ProcessOutput \/ sendTo

Spec == Init /\ [][Next]_vars
-----------------------------------------------------------------------------
(***************************************************************************)
(* Properties                                                              *)
(***************************************************************************)

(* Whichever call fails, no stream, channel, configuration or description  *)
(* outlives GetImageResizeBuffer: these are few on the device, and every   *)
(* frame takes one of each.                                                *)
TransientsReleased ==
  \A n \in Transients : lost[n] = 0 /\ (pc = "take" => n \notin own)

(* Objects that were created under a name and are not released yet.        *)
Taken(n) == lost[n] + IF n \in own THEN 1 ELSE 0

(* A frame leaves at most one picture buffer behind, failed or not: the    *)
(* buffer of an early failure, or the input of the model.  Of each of the  *)
(* objects in input_ and output_ it leaves at most one.                    *)
OneBufferPerFrame ==
  pc = "take" =>
    /\ Taken("inputBuff") + Taken("devBuffer") + Taken("decodeOutDevBuffer_")
         + Taken("resizeOutBufferDev_") + Taken("inputBuffer") + Taken("inputData") <= frames
    /\ \A n \in {"input_"} \cup OutputObjects : Taken(n) <= frames

(* No error path releases what was never created, what was released before *)
(* or what was handed to another object.  Two exceptions: context_ is left *)
(* to ContextWasCreated, and acldvppDestroyChannel reports an error, which *)
(* is logged, for a channel that was not created.                          *)
ReleasedOnce == misused \subseteq {"context_", "channel"}

(* Host memory, picture memory and output memory each go back to where     *)
(* they came from, in both run modes and on every error path, although     *)
(* which of them a pointer holds depends on the mode.  The exception is a  *)
(* copy of an output that failed.                                          *)
FreedByItsAllocator == mismatched \subseteq {<<"aclrtFree", "outHostData">>}

(* Finalize destroys the context that Init created.                        *)
ContextWasCreated == "context_" \notin misused

(* A thread that gives up during initialisation leaves nothing acquired.   *)
FinalizeReleasesAll == pc = "ended" => own = {} /\ \A n \in Objects : lost[n] = 0

(* To the rest of the program the thread is the DetectLoop: it can only    *)
(* end before its loop, and whichever call fails, one item leads to at     *)
(* most one sendTo and the next item is asked for.                         *)
Phase ==
  CASE pc \in {"Init", "LoadModel", "GetModelInputWH", "Finalize"} -> "init"
    [] pc = "take"                  -> "get"
    [] pc = "sendTo"                -> "send"
    [] pc \in {"ended", "crashed"} -> pc
    [] OTHER                        -> "work"

Loop == INSTANCE DetectLoop WITH dpc <- Phase

ImplementsDetectLoop == Loop!Spec
=============================================================================
